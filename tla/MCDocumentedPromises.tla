------------------------ MODULE MCDocumentedPromises ------------------------
(* Small instances on which the sentences of DocumentedPromises fail.      *)
EXTENDS DocumentedPromises, TLC
=============================================================================
