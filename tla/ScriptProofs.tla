------------------------------ MODULE ScriptProofs ------------------------------
(***************************************************************************)
(* What the generated scripts do to any catalog, for any models: they run  *)
(* through exactly if each statement is in place when its turn comes, then *)
(* they have built the model and nothing else, and the downgrade removes   *)
(* just that.                                                              *)
(*                                                                         *)
(* What a recursive function computes is proved from the least number for  *)
(* which it does not.                                                      *)
(***************************************************************************)
EXTENDS DatabaseProofs, SequenceTheorems, WellFoundedInduction

(* What a statement of a plan puts into the catalog.                       *)
TableOf(s) ==
  [name |-> s.target, columns |-> s.columns, key |-> s.key,
   required |-> s.required \cup s.key, unique |-> s.unique]

IndexOf(s) ==
  [name |-> s.name, table |-> s.target, columns |-> s.columns,
   is_unique |-> s.is_unique]

KeyOf(s) ==
  [name |-> s.name, table |-> s.target, references |-> s.references,
   columns |-> s.source_columns, keys |-> s.target_columns]

(* Which of the first k statements do an operation.                        *)
Doing(operation, plan, k) == {l \in 1..k : plan[l].operation = operation}

TablesIn(plan, k) == {TableOf(plan[l]) : l \in Doing("create_table", plan, k)}

IndexesIn(plan, k) == {IndexOf(plan[l]) : l \in Doing("create_index", plan, k)}

KeysIn(plan, k) == {KeyOf(plan[l]) : l \in Doing("add_foreign_key", plan, k)}

(* The catalog without what the first k statements of a downgrade drop.    *)
Unmade(back, k, d) ==
  LET tables == Doing("drop_table", back, k)
      keys == Doing("drop_constraint", back, k)
  IN [tables |-> {t \in d.tables : \A h \in tables : t.name # back[h].target},
      indexes |-> {x \in d.indexes : \A h \in tables : x.table # back[h].target},
      foreign_keys |-> {f \in d.foreign_keys :
        /\ \A h \in keys : <<f.table, f.name>> # <<back[h].target, back[h].name>>
        /\ \A h \in tables : back[h].target \notin {f.table, f.references}}]

(* The catalog with what the first k statements of a plan create.          *)
Made(plan, k, d) ==
  [tables |-> d.tables \cup TablesIn(plan, k),
   indexes |-> d.indexes \cup IndexesIn(plan, k),
   foreign_keys |-> d.foreign_keys \cup KeysIn(plan, k)]

(* Every statement of a plan is in place when its turn comes.              *)
RunsThrough(plan, d) ==
  \A l \in 1..Len(plan) : Runs(plan[l], Made(plan, l - 1, d))

(* The delivered models passed the generator.                              *)
DeliveredInv ==
  /\ delivered \in Seq(ToSet(delivered))
  /\ \A i \in DOMAIN delivered :
       delivered[i].model \in Models /\ ~Raises(delivered[i].model)

(* The catalog is always one, and a script that nobody disturbed is as far *)
(* in it as it is in its plan.                                             *)
RunningInv ==
  /\ IsCatalog(db)
  /\ DOMAIN running = {"phase", "of", "at", "before", "alone"}
  /\ running.phase \in {"idle", "script"} /\ running.alone \in BOOLEAN
  /\ running.phase = "script" =>
       LET plan == Plan(delivered[running.of].model) IN
       /\ running.of \in DOMAIN delivered
       /\ running.at \in 1..Len(plan)
       /\ IsCatalog(running.before)
       /\ running.alone =>
            /\ db = Made(plan, running.at - 1, running.before)
            /\ \A l \in 1..(running.at - 1) :
                 Runs(plan[l], Made(plan, l - 1, running.before))

(* A script succeeds exactly if it runs through, and then it has made what *)
(* is in its plan.                                                         *)
ResultInv ==
  /\ result.kind = "upgrade" => result.alone
  /\ result.kind \in {"script", "upgrade"} /\ result.alone =>
       LET plan == Plan(delivered[result.of].model) IN
       /\ result.of \in DOMAIN delivered
       /\ IsCatalog(result.before)
       /\ result.ok <=> RunsThrough(plan, result.before)
       /\ result.ok => result.after = Made(plan, Len(plan), result.before)

ScriptInv == ReadingInv /\ TypeOK /\ DeliveredInv /\ RunningInv /\ ResultInv

-----------------------------------------------------------------------------
(* Recursion over data.                                                    *)

(* Induction over the members of a set instead of over a predicate: the    *)
(* library's induction takes an operator, its least elements do not.       *)
LEMMA Induction ==
  ASSUME NEW n \in Nat, NEW P, 0 \in P, \A k \in 0..(n - 1) : k \in P => k + 1 \in P
  PROVE  0..n \subseteq P
<1> DEFINE R == {ss \in Nat \X Nat : ss[1] < ss[2]}
           Bad == 0..n \ P
<1>1. IsWellFoundedOn(R, Nat)
  BY NatLessThanWellFounded DEF OpToRel
<1>2. \A k \in Nat : <<k, k + 1>> \in R
  OBVIOUS
<1> HIDE DEF R
<1>3. SUFFICES ASSUME Bad # {} PROVE FALSE
  OBVIOUS
<1>4. Bad \subseteq Nat
  OBVIOUS
<1>5. PICK x \in Bad : \A y \in Bad : <<y, x>> \notin R
  <2> HIDE DEF Bad
  <2> QED
    BY <1>1, <1>3, <1>4, WFMin
<1>6. x \in 0..n /\ x # 0 /\ x \notin P
  BY <1>5
<1>7. x - 1 \in 0..(n - 1) /\ x - 1 \in 0..n /\ (x - 1) + 1 = x /\ x - 1 \in Nat
  BY <1>6
<1>8. x - 1 \in P
  BY <1>2, <1>5, <1>7
<1> QED
  BY <1>6, <1>7, <1>8

(* The function that FlattenSeq goes by exists.                            *)
LEMMA FlattenSeqEquation ==
  ASSUME NEW seqs, Len(seqs) \in Nat, Len(seqs) > 0
  PROVE  \E f : /\ f = [i \in 1..Len(seqs) |->
                         IF i = 1 THEN seqs[i] ELSE f[i - 1] \o seqs[i]]
                /\ FlattenSeq(seqs) = f[Len(seqs)]
<1> DEFINE Flattens(f, k) ==
             f = [i \in 1..k |-> IF i = 1 THEN seqs[i] ELSE f[i - 1] \o seqs[i]]
<1>1. \A k \in Nat : \A f : Flattens(f, k) =>
        \E g : Flattens(g, k + 1)
  <2> SUFFICES ASSUME NEW k \in Nat, NEW f, Flattens(f, k)
               PROVE  \E g : Flattens(g, k + 1)
    OBVIOUS
  <2> DEFINE last == IF k = 0 THEN seqs[1] ELSE f[k] \o seqs[k + 1]
             g == [i \in 1..(k + 1) |-> IF i = k + 1 THEN last ELSE f[i]]
  <2>1. \A i \in 1..k : f[i] = IF i = 1 THEN seqs[i] ELSE f[i - 1] \o seqs[i]
    OBVIOUS
  <2>2. ASSUME NEW i \in 1..(k + 1)
        PROVE  g[i] = IF i = 1 THEN seqs[i] ELSE g[i - 1] \o seqs[i]
    <3>1. CASE i = k + 1
      BY <3>1
    <3>2. CASE i # k + 1
      <4>1. g[i] = f[i] /\ i \in 1..k /\ (i # 1 => g[i - 1] = f[i - 1])
        BY <3>2
      <4> QED
        BY <2>1, <4>1
    <3> QED
      BY <3>1, <3>2
  <2>3. Flattens(g, k + 1)
    <3> HIDE DEF last
    <3> QED
      BY <2>2
  <2> HIDE DEF Flattens
  <2> QED
    BY <2>3
<1>2. Flattens([i \in 1..0 |-> seqs], 0)
  OBVIOUS
<1> HIDE DEF Flattens
<1> DEFINE P == {k \in 0..Len(seqs) : \E f : Flattens(f, k)}
<1>3. 0..Len(seqs) \subseteq P
  <2>1. 0 \in P /\ \A k \in 0..(Len(seqs) - 1) : k \in P => k + 1 \in P
    BY <1>1, <1>2
  <2> HIDE DEF P
  <2> QED
    BY <2>1, Induction
<1>4. \E f : Flattens(f, Len(seqs))
  BY <1>3
<1>5. FlattenSeq(seqs) =
        (CHOOSE f : Flattens(f, Len(seqs)))[Len(seqs)]
  BY DEF FlattenSeq, Flattens
<1>6. Flattens(CHOOSE f : Flattens(f, Len(seqs)), Len(seqs))
  BY <1>4
<1> QED
  BY <1>5, <1>6 DEF Flattens
(* What stands where in a concatenation.                                   *)
LEMMA ConcatPlaces ==
  ASSUME NEW S, NEW s1 \in Seq(S), NEW s2 \in Seq(S)
  PROVE  /\ s1 \o s2 \in Seq(S)
         /\ Len(s1) \in Nat /\ Len(s2) \in Nat
         /\ Len(s1 \o s2) = Len(s1) + Len(s2)
         /\ \A l \in 1..Len(s1) : (s1 \o s2)[l] = s1[l]
         /\ \A j \in 1..Len(s2) : (s1 \o s2)[Len(s1) + j] = s2[j]
         /\ \A l \in 1..Len(s1 \o s2) :
              l \in 1..Len(s1) \/ \E j \in 1..Len(s2) : l = Len(s1) + j
<1>1. /\ s1 \o s2 \in Seq(S)
      /\ Len(s1 \o s2) = Len(s1) + Len(s2)
      /\ \A i \in 1..(Len(s1) + Len(s2)) :
           (s1 \o s2)[i] = IF i <= Len(s1) THEN s1[i] ELSE s2[i - Len(s1)]
  BY ConcatProperties
<1>2. Len(s1) \in Nat /\ Len(s2) \in Nat
  BY LenProperties
<1>3. ASSUME NEW l \in 1..Len(s1 \o s2), l \notin 1..Len(s1)
      PROVE  \E j \in 1..Len(s2) : l = Len(s1) + j
  <2>1. l - Len(s1) \in 1..Len(s2) /\ l = Len(s1) + (l - Len(s1))
    BY <1>1, <1>2, <1>3
  <2> QED
    BY <2>1
<1>4. \A j \in 1..Len(s2) : (s1 \o s2)[Len(s1) + j] = s2[j]
  BY <1>1, <1>2
<1> QED
  BY <1>1, <1>2, <1>3, <1>4

(* The first k of two sequences of sequences are flattened alike: what     *)
(* stands at a place of the one flat sequence was where its counterpart in *)
(* the other was, nothing is left out and nothing comes before the first   *)
(* of its piece.                                                           *)
Together(a, b, k, f, g) ==
  /\ Len(g) = Len(f)
  /\ \A l \in 1..Len(f) : \E i \in 1..k : \E j \in 1..Len(a[i]) : \E h \in 1..l :
       f[l] = a[i][j] /\ g[l] = b[i][j] /\ f[h] = a[i][1]
  /\ \A i \in 1..k : \A j \in 1..Len(a[i]) : \E l \in 1..Len(f) : f[l] = a[i][j]

(* One more pair of sequences at the end of both concatenations.           *)
LEMMA TogetherGrows ==
  ASSUME NEW S, NEW T, NEW a, NEW b, NEW k \in Nat,
         NEW p \in Seq(S), NEW q \in Seq(T), NEW c \in Seq(S), NEW d \in Seq(T),
         Len(b[k + 1]) = Len(a[k + 1]), <<a[k + 1], b[k + 1]>> = <<c, d>>, Together(a, b, k, p, q)
  PROVE  Together(a, b, k + 1, p \o c, q \o d)
<1>1. /\ Len(p) \in Nat /\ Len(c) \in Nat /\ Len(p \o c) = Len(p) + Len(c)
      /\ \A l \in 1..Len(p) : (p \o c)[l] = p[l]
      /\ \A j \in 1..Len(c) : (p \o c)[Len(p) + j] = c[j]
      /\ \A l \in 1..Len(p \o c) :
           l \in 1..Len(p) \/ \E j \in 1..Len(c) : l = Len(p) + j
  BY ConcatPlaces
<1>2. /\ q \o d \in Seq(T) /\ Len(q) \in Nat /\ Len(d) \in Nat
      /\ Len(q \o d) = Len(q) + Len(d)
      /\ \A l \in 1..Len(q) : (q \o d)[l] = q[l]
      /\ \A j \in 1..Len(d) : (q \o d)[Len(q) + j] = d[j]
  BY ConcatPlaces
<1>3. Len(q) = Len(p) /\ Len(d) = Len(c) /\ a[k + 1] = c /\ b[k + 1] = d
  BY DEF Together
<1>4. ASSUME NEW l \in 1..Len(p \o c)
      PROVE  \E i \in 1..(k + 1) : \E j \in 1..Len(a[i]) : \E h \in 1..l :
               /\ (p \o c)[l] = a[i][j] /\ (q \o d)[l] = b[i][j]
               /\ (p \o c)[h] = a[i][1]
  <2>1. CASE l \in 1..Len(p)
    <3>0. PICK i \in 1..k : \E j \in 1..Len(a[i]) : \E h \in 1..l :
            p[l] = a[i][j] /\ q[l] = b[i][j] /\ p[h] = a[i][1]
      BY <2>1 DEF Together
    <3>1. PICK j \in 1..Len(a[i]), h \in 1..l :
            p[l] = a[i][j] /\ q[l] = b[i][j] /\ p[h] = a[i][1]
      BY <3>0
    <3>2. i \in 1..(k + 1) /\ h \in 1..Len(p) /\ l \in 1..Len(q)
      BY <1>1, <1>3, <2>1, <3>0, <3>1
    <3>3. /\ (p \o c)[l] = a[i][j] /\ (q \o d)[l] = b[i][j]
          /\ (p \o c)[h] = a[i][1]
      BY <1>1, <1>2, <2>1, <3>1, <3>2
    <3> QED
      BY <3>1, <3>2, <3>3
  <2>2. ASSUME NEW j \in 1..Len(c), l = Len(p) + j
        PROVE  \E i \in 1..(k + 1) : \E n \in 1..Len(a[i]) : \E h \in 1..l :
                 /\ (p \o c)[l] = a[i][n] /\ (q \o d)[l] = b[i][n]
                 /\ (p \o c)[h] = a[i][1]
    <3>1. /\ 1 \in 1..Len(c) /\ Len(p) + 1 \in 1..l /\ k + 1 \in 1..(k + 1)
          /\ j \in 1..Len(d)
      BY <1>1, <1>3, <2>2
    <3>2. /\ (p \o c)[l] = c[j] /\ (q \o d)[l] = d[j]
          /\ (p \o c)[Len(p) + 1] = c[1]
      BY <1>1, <1>2, <1>3, <2>2, <3>1
    <3> QED
      BY <1>3, <3>1, <3>2
  <2> QED
    BY <1>1, <2>1, <2>2
<1>5. ASSUME NEW i \in 1..(k + 1), NEW j \in 1..Len(a[i])
      PROVE  \E l \in 1..Len(p \o c) : (p \o c)[l] = a[i][j]
  <2>1. CASE i = k + 1
    <3>1. j \in 1..Len(c) /\ a[i][j] = c[j]
      BY <1>3, <2>1
    <3>2. Len(p) + j \in 1..Len(p \o c)
      BY <1>1, <3>1
    <3> QED
      BY <1>1, <3>1, <3>2
  <2>2. CASE i \in 1..k
    <3>1. PICK l \in 1..Len(p) : p[l] = a[i][j]
      BY <2>2 DEF Together
    <3>2. l \in 1..Len(p \o c)
      BY <1>1, <3>1
    <3> QED
      BY <1>1, <3>1, <3>2
  <2> QED
    BY <2>1, <2>2
<1>6. Len(q \o d) = Len(p \o c)
  BY <1>1, <1>2, <1>3
<1> QED
  BY <1>4, <1>5, <1>6 DEF Together

(* Two sequences of sequences whose items are of equal lengths, flattened: *)
(* place by place they hold items of the same pair.                        *)
LEMMA FlattenSeqTogether ==
  ASSUME NEW S, NEW T, NEW a \in Seq(Seq(S)), NEW b \in Seq(Seq(T)),
         Len(a) > 0, Len(b) = Len(a),
         \A i \in 1..Len(a) : Len(b[i]) = Len(a[i])
  PROVE  /\ FlattenSeq(a) \in Seq(S) /\ FlattenSeq(b) \in Seq(T)
         /\ Together(a, b, Len(a), FlattenSeq(a), FlattenSeq(b))
<1> DEFINE n == Len(a)
           Alike(k, f, g) ==
             f \in Seq(S) /\ g \in Seq(T) /\ Together(a, b, k, f, g)
<1>1. /\ n \in Nat /\ n > 0 /\ Len(b) = n
      /\ \A i \in 1..n : /\ a[i] \in Seq(S) /\ b[i] \in Seq(T)
                         /\ Len(a[i]) \in Nat /\ Len(b[i]) = Len(a[i])
  BY ElementOfSeq, LenProperties
<1>2. PICK f : /\ f = [i \in 1..n |-> IF i = 1 THEN a[i] ELSE f[i - 1] \o a[i]]
               /\ FlattenSeq(a) = f[n]
  BY <1>1, FlattenSeqEquation
<1>3. PICK g : /\ g = [i \in 1..n |-> IF i = 1 THEN b[i] ELSE g[i - 1] \o b[i]]
               /\ FlattenSeq(b) = g[n]
  BY <1>1, FlattenSeqEquation
<1> HIDE DEF n
<1>4. /\ f[1] = a[1] /\ g[1] = b[1]
      /\ \A k \in 1..(n - 1) : /\ f[k + 1] = f[k] \o a[k + 1]
                               /\ g[k + 1] = g[k] \o b[k + 1]
  <2>1. \A i \in 1..n : /\ f[i] = IF i = 1 THEN a[i] ELSE f[i - 1] \o a[i]
                        /\ g[i] = IF i = 1 THEN b[i] ELSE g[i - 1] \o b[i]
    BY <1>2, <1>3
  <2>2. 1 \in 1..n
    BY <1>1
  <2>3. ASSUME NEW k \in 1..(n - 1)
        PROVE  k + 1 \in 1..n /\ k + 1 # 1 /\ (k + 1) - 1 = k
    BY <1>1
  <2> QED
    BY <2>1, <2>2, <2>3
<1>5. Alike(1, f[1], g[1])
  <2>1. 1 \in 1..n /\ \A l \in 1..Len(a[1]) : 1 \in 1..l
    BY <1>1
  <2>2. \A i \in 1..1 : i = 1
    OBVIOUS
  <2>3. /\ a[1] \in Seq(S) /\ b[1] \in Seq(T) /\ Len(a[1]) \in Nat
        /\ Len(b[1]) = Len(a[1])
    BY <1>1, <2>1
  <2>4. \A l \in 1..Len(a[1]) : \E i \in 1..1 : \E j \in 1..Len(a[i]) : \E h \in 1..l :
          a[1][l] = a[i][j] /\ b[1][l] = b[i][j] /\ a[1][h] = a[i][1]
    BY <2>1
  <2>5. \A i \in 1..1 : \A j \in 1..Len(a[i]) :
          \E l \in 1..Len(a[1]) : a[1][l] = a[i][j]
    BY <2>2
  <2>6. Together(a, b, 1, a[1], b[1])
    BY <2>3, <2>4, <2>5 DEF Together
  <2> QED
    BY <1>4, <2>3, <2>6
<1>6. ASSUME NEW k \in 1..(n - 1), Alike(k, f[k], g[k])
      PROVE  Alike(k + 1, f[k + 1], g[k + 1])
  <2>1. k + 1 \in 1..n /\ k \in Nat
    BY <1>1
  <2>2. /\ a[k + 1] \in Seq(S) /\ b[k + 1] \in Seq(T)
        /\ Len(b[k + 1]) = Len(a[k + 1])
    BY <1>1, <2>1
  <2>3. Together(a, b, k + 1, f[k] \o a[k + 1], g[k] \o b[k + 1])
    BY <1>6, <2>1, <2>2, TogetherGrows
  <2>4. f[k] \o a[k + 1] \in Seq(S) /\ g[k] \o b[k + 1] \in Seq(T)
    BY <1>6, <2>2, ConcatProperties
  <2> QED
    BY <1>4, <2>3, <2>4
<1> DEFINE P == {k \in 0..n : k = 0 \/ Alike(k, f[k], g[k])}
<1> HIDE DEF Alike
<1>7. ASSUME NEW k \in 0..(n - 1), k \in P
      PROVE  k + 1 \in P
  <2>1. k + 1 \in 0..n
    BY <1>1
  <2>2. CASE k = 0
    BY <1>5, <2>1, <2>2
  <2>3. CASE k # 0
    BY <1>1, <1>6, <1>7, <2>1, <2>3
  <2> QED
    BY <2>2, <2>3
<1>8. Alike(n, f[n], g[n])
  <2>1. 0 \in P /\ n \in 0..n
    BY <1>1
  <2>2. 0..n \subseteq P
    <3> HIDE DEF P
    <3> QED
      BY <1>1, <1>7, <2>1, Induction
  <2> QED
    BY <1>1, <2>1, <2>2
<1> QED
  BY <1>2, <1>3, <1>8 DEF Alike, n

(* A function on 1..n is a sequence.                                       *)
LEMMA SeqOfItsElements ==
  ASSUME NEW n \in Nat, NEW f, f = [i \in 1..n |-> f[i]]
  PROVE  f \in Seq(ToSet(f)) /\ Len(f) = n /\ DOMAIN f = 1..n
<1>1. DOMAIN f = 1..n
  OBVIOUS
<1>2. f \in [1..n -> ToSet(f)]
  BY <1>1 DEF ToSet
<1>3. f \in Seq(ToSet(f))
  BY <1>2, SeqDef
<1>4. Len(f) = n
  <2>1. Len(f) \in Nat /\ DOMAIN f = 1..Len(f)
    BY <1>3, LenProperties
  <2> QED
    BY <1>1, <2>1
<1> QED
  BY <1>1, <1>3, <1>4

(* One element before a sequence.                                          *)
LEMMA Prepend ==
  ASSUME NEW x, NEW f, f \in Seq(ToSet(f))
  PROVE  /\ <<x>> \o f \in Seq({x} \cup ToSet(f))
         /\ Len(<<x>> \o f) = Len(f) + 1
         /\ (<<x>> \o f)[1] = x
         /\ \A j \in 1..Len(f) : (<<x>> \o f)[j + 1] = f[j]
<1> DEFINE S == {x} \cup ToSet(f)
<1>1. f \in Seq(S) /\ Len(f) \in Nat
  BY SeqMonotonic, LenProperties
<1>2. <<x>> \in Seq(S) /\ Len(<<x>>) = 1 /\ <<x>>[1] = x
  BY SeqDef
<1>3. /\ <<x>> \o f \in Seq(S) /\ Len(<<x>> \o f) = 1 + Len(f)
      /\ (<<x>> \o f)[1] = <<x>>[1]
      /\ \A j \in 1..Len(f) : (<<x>> \o f)[1 + j] = f[j]
  BY <1>1, <1>2, ConcatPlaces
<1> QED
  BY <1>1, <1>2, <1>3

-----------------------------------------------------------------------------
(* Plans.                                                                  *)

(* The statements of one table.                                            *)
Piece(t) == <<CreateTable(t)>> \o CreateIndexes(t)

PieceNames(t) == <<t.name>> \o [k \in DOMAIN t.indexes |-> t.indexes[k].name]

(* How many statements come before the foreign keys.                       *)
Objects(m) == Len(FlattenSeq([i \in DOMAIN m.tables |-> Piece(m.tables[i])]))

(* What a statement calls the table or index that it creates.              *)
NameOf(s) == IF s.operation = "create_table" THEN s.target ELSE s.name

IndexIn(m, i, j) == CreateIndexes(m.tables[i])[j]

(* The statements of a table: the table, then its indexes, under the names *)
(* that PieceNames lists.                                                  *)
LEMMA PieceShape ==
  ASSUME NEW t, t.indexes \in Seq(ToSet(t.indexes))
  PROVE  LET n == Len(t.indexes) IN
         /\ n \in Nat /\ DOMAIN t.indexes = 1..n
         /\ Piece(t) \in Seq(ToSet(Piece(t))) /\ Len(Piece(t)) = n + 1
         /\ PieceNames(t) \in Seq(ToSet(PieceNames(t)))
         /\ Len(PieceNames(t)) = n + 1
         /\ Piece(t)[1] = CreateTable(t) /\ PieceNames(t)[1] = t.name
         /\ \A j \in 1..n : /\ Piece(t)[j + 1] = CreateIndexes(t)[j]
                            /\ PieceNames(t)[j + 1] = t.indexes[j].name
<1> DEFINE n == Len(t.indexes)
           names == [k \in DOMAIN t.indexes |-> t.indexes[k].name]
<1>1. n \in Nat /\ DOMAIN t.indexes = 1..n
  BY LenProperties
<1>2. CreateIndexes(t) \in Seq(ToSet(CreateIndexes(t))) /\ Len(CreateIndexes(t)) = n
  <2>1. CreateIndexes(t) = [k \in 1..n |-> CreateIndexes(t)[k]]
    BY <1>1 DEF CreateIndexes
  <2> QED
    BY <1>1, <2>1, SeqOfItsElements
<1>3. names \in Seq(ToSet(names)) /\ Len(names) = n
  <2>1. names = [k \in 1..n |-> names[k]]
    BY <1>1
  <2> HIDE DEF names
  <2> QED
    BY <1>1, <2>1, SeqOfItsElements
<1>4. /\ Piece(t) \in Seq({CreateTable(t)} \cup ToSet(CreateIndexes(t)))
      /\ Len(Piece(t)) = n + 1 /\ Piece(t)[1] = CreateTable(t)
      /\ \A j \in 1..n : Piece(t)[j + 1] = CreateIndexes(t)[j]
  BY <1>2, Prepend DEF Piece
<1>5. /\ PieceNames(t) \in Seq({t.name} \cup ToSet(names))
      /\ Len(PieceNames(t)) = n + 1 /\ PieceNames(t)[1] = t.name
      /\ \A j \in 1..n : PieceNames(t)[j + 1] = names[j]
  <2>1. PieceNames(t) = <<t.name>> \o names
    BY DEF PieceNames
  <2> HIDE DEF names
  <2> QED
    BY <1>3, <2>1, Prepend
<1>6. Piece(t) \in Seq(ToSet(Piece(t))) /\ PieceNames(t) \in Seq(ToSet(PieceNames(t)))
  <2>1. Piece(t) = [j \in 1..(n + 1) |-> Piece(t)[j]]
    BY <1>1, <1>4, LenProperties
  <2>2. PieceNames(t) = [j \in 1..(n + 1) |-> PieceNames(t)[j]]
    BY <1>1, <1>5, LenProperties
  <2>3. n + 1 \in Nat
    BY <1>1
  <2>4. Piece(t) \in Seq(ToSet(Piece(t)))
    BY <2>1, <2>3, SeqOfItsElements
  <2>5. PieceNames(t) \in Seq(ToSet(PieceNames(t)))
    BY <2>2, <2>3, SeqOfItsElements
  <2> QED
    BY <2>4, <2>5
<1> QED
  BY <1>1, <1>4, <1>5, <1>6

(* Plans begin with the tables and indexes, no index before its table, and *)
(* end with the foreign keys; where a model is well-formed no name is      *)
(* given twice.                                                            *)
LEMMA PlanShape ==
  ASSUME NEW m, IsRelationalModel(m), ~Raises(m)
  PROVE  LET plan == Plan(m)  n == Objects(m) IN
         /\ n \in Nat /\ n > 0 /\ Len(m.relationships) \in Nat
         /\ DOMAIN m.tables = 1..Len(m.tables) /\ Len(m.tables) \in Nat
         /\ DOMAIN m.relationships = 1..Len(m.relationships)
         /\ Len(plan) = n + Len(m.relationships)
         /\ \A l \in 1..n : \E i \in DOMAIN m.tables :
              \/ plan[l] = CreateTable(m.tables[i])
              \/ /\ \E j \in DOMAIN m.tables[i].indexes : plan[l] = IndexIn(m, i, j)
                 /\ \E h \in 1..l : plan[h] = CreateTable(m.tables[i])
         /\ \A i \in DOMAIN m.tables :
              /\ \E l \in 1..n : plan[l] = CreateTable(m.tables[i])
              /\ \A j \in DOMAIN m.tables[i].indexes :
                   \E l \in 1..n : plan[l] = IndexIn(m, i, j)
         /\ \A k \in 1..Len(m.relationships) :
              plan[n + k] = AddForeignKey(m.relationships[k])
         /\ WellFormed(m) => \A l1, l2 \in 1..n :
              NameOf(plan[l1]) = NameOf(plan[l2]) => l1 = l2
<1> DEFINE N == Len(m.tables)
           a == [i \in DOMAIN m.tables |-> Piece(m.tables[i])]
           b == [i \in DOMAIN m.tables |-> PieceNames(m.tables[i])]
           S == UNION {ToSet(Piece(t)) : t \in ToSet(m.tables)}
           T == UNION {ToSet(PieceNames(t)) : t \in ToSet(m.tables)}
           fks == [k \in DOMAIN m.relationships |-> AddForeignKey(m.relationships[k])]
           R == Len(m.relationships)
           f == FlattenSeq(a)
           g == FlattenSeq(b)
<1>1. /\ N \in Nat /\ DOMAIN m.tables = 1..N
      /\ R \in Nat /\ DOMAIN m.relationships = 1..R
  BY LenProperties DEF IsRelationalModel
<1>2. N > 0
  <2>1. m.tables # <<>>
    BY DEF Raises
  <2> QED
    BY <2>1, EmptySeq DEF IsRelationalModel
<1>3. \A i \in 1..N : /\ m.tables[i] \in ToSet(m.tables)
                      /\ m.tables[i].indexes \in Seq(ToSet(m.tables[i].indexes))
  <2>1. \A i \in 1..N : m.tables[i] \in ToSet(m.tables)
    BY <1>1 DEF ToSet
  <2> QED
    BY <2>1 DEF IsRelationalModel
<1>4. ASSUME NEW i \in 1..N
      PROVE  /\ Piece(m.tables[i]) \in Seq(S) /\ PieceNames(m.tables[i]) \in Seq(T)
             /\ Len(PieceNames(m.tables[i])) = Len(Piece(m.tables[i]))
  <2>1. ToSet(Piece(m.tables[i])) \subseteq S /\ ToSet(PieceNames(m.tables[i])) \subseteq T
    BY <1>3
  <2> QED
    BY <1>3, <2>1, PieceShape, SeqMonotonic
<1>5. /\ a \in Seq(Seq(S)) /\ b \in Seq(Seq(T)) /\ Len(a) = N /\ Len(b) = N
      /\ \A i \in 1..N : /\ a[i] = Piece(m.tables[i])
                         /\ b[i] = PieceNames(m.tables[i])
                         /\ Len(b[i]) = Len(a[i])
  <2>1. \A i \in 1..N : a[i] = Piece(m.tables[i]) /\ b[i] = PieceNames(m.tables[i])
    BY <1>1
  <2>2. a \in [1..N -> Seq(S)] /\ b \in [1..N -> Seq(T)]
    BY <1>1, <1>4
  <2> HIDE DEF a, b
  <2>3. a \in Seq(Seq(S)) /\ b \in Seq(Seq(T))
    BY <1>1, <2>2, SeqDef
  <2>4. Len(a) = N /\ Len(b) = N
    <3>1. /\ Len(a) \in Nat /\ DOMAIN a = 1..Len(a)
          /\ Len(b) \in Nat /\ DOMAIN b = 1..Len(b)
      BY <2>3, LenProperties
    <3> QED
      BY <1>1, <2>2, <3>1
  <2> QED
    BY <1>4, <2>1, <2>3, <2>4
<1> HIDE DEF S, T, a, b
<1>6. f \in Seq(S) /\ g \in Seq(T) /\ Together(a, b, N, f, g)
  BY <1>2, <1>5, FlattenSeqTogether
<1>7. f \in Seq(S) /\ Len(f) \in Nat /\ Len(g) = Len(f) /\ DOMAIN g = 1..Len(f)
  BY <1>6, LenProperties DEF Together
<1>8. Objects(m) = Len(f)
  BY DEF Objects, a
<1> HIDE DEF f, g
<1>9. fks \in Seq(ToSet(fks)) /\ Len(fks) = R
  <2>1. fks = [k \in 1..R |-> fks[k]]
    BY <1>1
  <2> HIDE DEF fks
  <2> QED
    BY <1>1, <2>1, SeqOfItsElements
<1>10. Plan(m) = f \o fks
  BY DEF Plan, Piece, f, a
<1>11. \A k \in 1..R : fks[k] = AddForeignKey(m.relationships[k])
  BY <1>1
<1> HIDE DEF fks
<1>12. /\ Len(Plan(m)) = Len(f) + R
       /\ \A l \in 1..Len(f) : Plan(m)[l] = f[l]
       /\ \A k \in 1..R : Plan(m)[Len(f) + k] = fks[k]
  <2>1. f \in Seq(S \cup ToSet(fks)) /\ fks \in Seq(S \cup ToSet(fks))
    BY <1>7, <1>9, SeqMonotonic
  <2>2. /\ Len(f \o fks) = Len(f) + Len(fks)
        /\ \A l \in 1..Len(f) : (f \o fks)[l] = f[l]
        /\ \A k \in 1..Len(fks) : (f \o fks)[Len(f) + k] = fks[k]
    BY <2>1, ConcatPlaces
  <2> QED
    BY <1>9, <1>10, <2>2
<1>13. ASSUME NEW i \in 1..N
       PROVE  LET n == Len(m.tables[i].indexes) IN
              /\ n \in Nat /\ DOMAIN m.tables[i].indexes = 1..n
              /\ Len(a[i]) = n + 1 /\ a[i][1] = CreateTable(m.tables[i])
              /\ b[i][1] = m.tables[i].name
              /\ \A j \in 1..n : /\ a[i][j + 1] = IndexIn(m, i, j)
                                 /\ b[i][j + 1] = m.tables[i].indexes[j].name
  <2>1. PICK t : t = m.tables[i]
    OBVIOUS
  <2>2. t.indexes \in Seq(ToSet(t.indexes)) /\ a[i] = Piece(t) /\ b[i] = PieceNames(t)
    BY <1>3, <1>5, <2>1
  <2> QED
    BY <2>1, <2>2, PieceShape DEF IndexIn
<1>14. ASSUME NEW i \in 1..N, NEW j \in 1..Len(a[i])
       PROVE  /\ b[i][j] = NameOf(a[i][j])
              /\ \/ a[i][j] = CreateTable(m.tables[i])
                 \/ \E k \in DOMAIN m.tables[i].indexes : a[i][j] = IndexIn(m, i, k)
  <2>1. CASE j = 1
    <3>1. NameOf(CreateTable(m.tables[i])) = m.tables[i].name
      BY DEF NameOf, CreateTable
    <3> QED
      BY <1>13, <2>1, <3>1
  <2>2. CASE j # 1
    <3>1. PICK k \in DOMAIN m.tables[i].indexes : j = k + 1
      <4>1. j - 1 \in DOMAIN m.tables[i].indexes /\ j = (j - 1) + 1
        BY <1>13, <2>2
      <4> QED
        BY <4>1
    <3>2. a[i][j] = IndexIn(m, i, k) /\ b[i][j] = m.tables[i].indexes[k].name
      BY <1>13, <3>1
    <3>3. NameOf(IndexIn(m, i, k)) = m.tables[i].indexes[k].name
      BY DEF NameOf, IndexIn, CreateIndexes
    <3> QED
      BY <3>2, <3>3
  <2> QED
    BY <2>1, <2>2
<1>15. ASSUME NEW l \in 1..Len(f)
       PROVE  /\ g[l] = NameOf(Plan(m)[l])
              /\ \E i \in DOMAIN m.tables :
                   \/ Plan(m)[l] = CreateTable(m.tables[i])
                   \/ /\ \E j \in DOMAIN m.tables[i].indexes :
                           Plan(m)[l] = IndexIn(m, i, j)
                      /\ \E h \in 1..l : Plan(m)[h] = CreateTable(m.tables[i])
  <2>0. PICK i \in 1..N : \E j \in 1..Len(a[i]) : \E h \in 1..l :
          f[l] = a[i][j] /\ g[l] = b[i][j] /\ f[h] = a[i][1]
    BY <1>6 DEF Together
  <2>1. PICK j \in 1..Len(a[i]), h \in 1..l :
          f[l] = a[i][j] /\ g[l] = b[i][j] /\ f[h] = a[i][1]
    BY <2>0
  <2>2. h \in 1..Len(f)
    BY <1>7, <2>1
  <2>3. Plan(m)[l] = a[i][j] /\ Plan(m)[h] = CreateTable(m.tables[i])
    BY <1>12, <1>13, <2>1, <2>2
  <2> QED
    BY <1>1, <1>14, <2>0, <2>1, <2>3
<1>16. ASSUME NEW i \in DOMAIN m.tables
       PROVE  /\ \E l \in 1..Len(f) : Plan(m)[l] = CreateTable(m.tables[i])
              /\ \A j \in DOMAIN m.tables[i].indexes :
                   \E l \in 1..Len(f) : Plan(m)[l] = IndexIn(m, i, j)
  <2>1. i \in 1..N
    BY <1>1
  <2>2. 1 \in 1..Len(a[i]) /\ \A j \in DOMAIN m.tables[i].indexes : j + 1 \in 1..Len(a[i])
    BY <1>13, <2>1
  <2>3. \A j \in 1..Len(a[i]) : \E l \in 1..Len(f) : f[l] = a[i][j]
    BY <1>6, <2>1 DEF Together
  <2>4. \A j \in 1..Len(a[i]) : \E l \in 1..Len(f) : Plan(m)[l] = a[i][j]
    BY <1>12, <2>3
  <2>5. \A j \in DOMAIN m.tables[i].indexes : a[i][j + 1] = IndexIn(m, i, j)
    BY <1>13, <2>1
  <2>6. a[i][1] = CreateTable(m.tables[i])
    BY <1>13, <2>1
  <2> QED
    BY <2>2, <2>4, <2>5, <2>6
<1>17. Len(f) > 0
  <2>1. 1 \in DOMAIN m.tables
    BY <1>1, <1>2
  <2> QED
    BY <1>7, <1>16, <2>1
<1>18. WellFormed(m) => \A l1, l2 \in 1..Len(f) :
         NameOf(Plan(m)[l1]) = NameOf(Plan(m)[l2]) => l1 = l2
  <2>1. WellFormed(m) => IsInjective(g)
    BY DEF WellFormed, PieceNames, g, b
  <2> QED
    BY <1>7, <1>15, <2>1 DEF IsInjective
<1>19. /\ Objects(m) \in Nat /\ Objects(m) > 0
       /\ Len(Plan(m)) = Objects(m) + R
       /\ \A k \in 1..R : Plan(m)[Objects(m) + k] = AddForeignKey(m.relationships[k])
  BY <1>7, <1>8, <1>11, <1>12, <1>17
<1>20. \A l \in 1..Objects(m) : \E i \in DOMAIN m.tables :
         \/ Plan(m)[l] = CreateTable(m.tables[i])
         \/ /\ \E j \in DOMAIN m.tables[i].indexes : Plan(m)[l] = IndexIn(m, i, j)
            /\ \E h \in 1..l : Plan(m)[h] = CreateTable(m.tables[i])
  BY <1>8, <1>15
<1>21. \A i \in DOMAIN m.tables :
         /\ \E l \in 1..Objects(m) : Plan(m)[l] = CreateTable(m.tables[i])
         /\ \A j \in DOMAIN m.tables[i].indexes :
              \E l \in 1..Objects(m) : Plan(m)[l] = IndexIn(m, i, j)
  BY <1>8, <1>16
<1>22. WellFormed(m) => \A l1, l2 \in 1..Objects(m) :
         NameOf(Plan(m)[l1]) = NameOf(Plan(m)[l2]) => l1 = l2
  BY <1>8, <1>18
<1> QED
  BY <1>1, <1>19, <1>20, <1>21, <1>22

-----------------------------------------------------------------------------
(* Statements and transactions.                                            *)

(* The states of a transaction, one statement after the other.             *)
Executes(f, st, d) ==
  /\ f[0] = [ok |-> TRUE, db |-> d]
  /\ \A k \in 0..(Len(st) - 1) :
       f[k + 1] = IF f[k].ok /\ Runs(st[k + 1], f[k].db)
                  THEN [ok |-> TRUE, db |-> Effect(st[k + 1], f[k].db)]
                  ELSE [ok |-> FALSE, db |-> d]

(* The function that Transaction goes by exists.                           *)
LEMMA TransactionEquation ==
  ASSUME NEW st, Len(st) \in Nat, NEW d
  PROVE  \E f : Transaction(st, d) = f[Len(st)] /\ Executes(f, st, d)
<1> DEFINE Next1(s, r) == IF r.ok /\ Runs(s, r.db)
                          THEN [ok |-> TRUE, db |-> Effect(s, r.db)]
                          ELSE [ok |-> FALSE, db |-> d]
           Defines(f, n) ==
             f = [k \in 0..n |->
                   IF k = 0 THEN [ok |-> TRUE, db |-> d] ELSE Next1(st[k], f[k - 1])]
<1>1. Transaction(st, d) = (CHOOSE f : Defines(f, Len(st)))[Len(st)]
  BY DEF Transaction
<1> HIDE DEF Next1
<1>2. Defines([k \in 0..0 |-> [ok |-> TRUE, db |-> d]], 0)
  OBVIOUS
<1>3. ASSUME NEW n \in Nat, NEW f, Defines(f, n)
      PROVE  \E g : Defines(g, n + 1)
  <2> DEFINE g == [k \in 0..(n + 1) |->
                    IF k = n + 1 THEN Next1(st[n + 1], f[n]) ELSE f[k]]
  <2>1. \A k \in 0..n : f[k] = IF k = 0 THEN [ok |-> TRUE, db |-> d]
                               ELSE Next1(st[k], f[k - 1])
    BY <1>3
  <2>2. ASSUME NEW k \in 0..(n + 1)
        PROVE  g[k] = IF k = 0 THEN [ok |-> TRUE, db |-> d]
                      ELSE Next1(st[k], g[k - 1])
    <3>1. CASE k = n + 1
      BY <3>1
    <3>2. CASE k # n + 1
      <4>1. g[k] = f[k] /\ k \in 0..n /\ (k # 0 => g[k - 1] = f[k - 1])
        BY <3>2
      <4> QED
        BY <2>1, <4>1
    <3> QED
      BY <3>1, <3>2
  <2>3. Defines(g, n + 1)
    BY <2>2
  <2> HIDE DEF Defines
  <2> QED
    BY <2>3
<1> HIDE DEF Defines
<1> DEFINE P == {k \in 0..Len(st) : \E f : Defines(f, k)}
<1>4. 0..Len(st) \subseteq P
  <2>1. 0 \in P /\ \A k \in 0..(Len(st) - 1) : k \in P => k + 1 \in P
    BY <1>2, <1>3
  <2> HIDE DEF P
  <2> QED
    BY <2>1, Induction
<1>5. PICK f : Defines(f, Len(st)) /\ Transaction(st, d) = f[Len(st)]
  <2>1. \E f : Defines(f, Len(st))
    BY <1>4
  <2>2. Defines(CHOOSE f : Defines(f, Len(st)), Len(st))
    BY <2>1
  <2> QED
    BY <1>1, <2>2
<1>6. \A k \in 0..Len(st) : f[k] = IF k = 0 THEN [ok |-> TRUE, db |-> d]
                                   ELSE Next1(st[k], f[k - 1])
  BY <1>5 DEF Defines
<1>7. f[0] = [ok |-> TRUE, db |-> d]
  <2>1. 0 \in 0..Len(st)
    OBVIOUS
  <2> QED
    BY <1>6, <2>1
<1>8. ASSUME NEW k \in 0..(Len(st) - 1)
      PROVE  f[k + 1] = Next1(st[k + 1], f[k])
  <2>1. k + 1 \in 0..Len(st) /\ k + 1 # 0 /\ (k + 1) - 1 = k
    OBVIOUS
  <2> QED
    BY <1>6, <2>1
<1> QED
  BY <1>5, <1>7, <1>8 DEF Next1, Executes

(* A transaction whose statements lead from one catalog of a list to the   *)
(* next commits exactly if each of them runs on its catalog; it leaves the *)
(* last one, or what it found.                                             *)
LEMMA TransactionFollows ==
  ASSUME NEW st, Len(st) \in Nat, NEW d, NEW c, c[0] = d,
         \A k \in 1..Len(st) : Effect(st[k], c[k - 1]) = c[k]
  PROVE  Transaction(st, d) =
           IF \A k \in 1..Len(st) : Runs(st[k], c[k - 1])
           THEN [ok |-> TRUE, db |-> c[Len(st)]]
           ELSE [ok |-> FALSE, db |-> d]
<1> DEFINE n == Len(st)
           Through(k) == \A l \in 1..k : Runs(st[l], c[l - 1])
<1>0. PICK f : Transaction(st, d) = f[n] /\ Executes(f, st, d)
  BY TransactionEquation
<1>1. /\ Transaction(st, d) = f[n]
      /\ f[0] = [ok |-> TRUE, db |-> d]
      /\ \A k \in 0..(n - 1) :
           f[k + 1] = IF f[k].ok /\ Runs(st[k + 1], f[k].db)
                      THEN [ok |-> TRUE, db |-> Effect(st[k + 1], f[k].db)]
                      ELSE [ok |-> FALSE, db |-> d]
  BY <1>0 DEF Executes
<1> DEFINE State(k) == IF Through(k) THEN [ok |-> TRUE, db |-> c[k]]
                       ELSE [ok |-> FALSE, db |-> d]
           P == {k \in 0..n : f[k] = State(k)}
<1>2. 0 \in P
  <2>1. 0 \in 0..n /\ Through(0)
    OBVIOUS
  <2> QED
    BY <1>1, <2>1
<1>3. ASSUME NEW k \in 0..(n - 1), k \in P
      PROVE  k + 1 \in P
  <2>1. k + 1 \in 0..n /\ k + 1 \in 1..n /\ (k + 1) - 1 = k
    OBVIOUS
  <2>2. Effect(st[k + 1], c[k]) = c[k + 1]
    BY <2>1
  <2>3. Through(k + 1) <=> Through(k) /\ Runs(st[k + 1], c[k])
    <3>1. \A l \in 1..(k + 1) : l \in 1..k \/ l = k + 1
      OBVIOUS
    <3> QED
      BY <2>1, <3>1
  <2> HIDE DEF Through
  <2>4. f[k] = State(k)
    BY <1>3
  <2>5. CASE Through(k) /\ Runs(st[k + 1], c[k])
    <3>1. f[k].ok /\ f[k].db = c[k]
      BY <2>4, <2>5
    <3>2. f[k + 1] = [ok |-> TRUE, db |-> c[k + 1]]
      BY <1>1, <2>2, <2>5, <3>1
    <3> QED
      BY <2>1, <2>3, <2>5, <3>2
  <2>6. CASE ~(Through(k) /\ Runs(st[k + 1], c[k]))
    <3>1. f[k].ok => Through(k) /\ f[k].db = c[k]
      BY <2>4
    <3>2. f[k + 1] = [ok |-> FALSE, db |-> d]
      BY <1>1, <2>6, <3>1
    <3> QED
      BY <2>1, <2>3, <2>6, <3>2
  <2> QED
    BY <2>5, <2>6
<1>4. 0..n \subseteq P
  <2> HIDE DEF P
  <2> QED
    BY <1>2, <1>3, Induction
<1>5. f[n] = State(n)
  <2>1. n \in 0..n
    OBVIOUS
  <2> QED
    BY <1>4, <2>1
<1> QED
  BY <1>1, <1>5

(* No statement that runs leaves an index or a foreign key without its     *)
(* tables.                                                                 *)
LEMMA EffectKeepsCatalog ==
  ASSUME NEW d, NEW s, IsCatalog(d), s.operation \in Creates \cup Drops, Runs(s, d)
  PROVE  IsCatalog(Effect(s, d))
<1> DEFINE e == Effect(s, d)
<1>1. /\ d = [tables |-> d.tables, indexes |-> d.indexes,
              foreign_keys |-> d.foreign_keys]
      /\ \A x \in d.indexes : x.table \in TableNames(d)
      /\ \A f \in d.foreign_keys : f.table \in TableNames(d) /\ f.references \in TableNames(d)
  BY DEF IsCatalog
<1>2. CASE s.operation = "create_table"
  <2>1. e = [tables |-> d.tables \cup {TableOf(s)}, indexes |-> d.indexes,
             foreign_keys |-> d.foreign_keys]
    BY <1>1, <1>2 DEF Effect, TableOf
  <2> QED
    BY <1>1, <2>1 DEF IsCatalog, TableNames
<1>3. CASE s.operation = "create_index"
  <2>1. e = [tables |-> d.tables, indexes |-> d.indexes \cup {IndexOf(s)},
             foreign_keys |-> d.foreign_keys]
    BY <1>1, <1>3 DEF Effect, IndexOf
  <2>2. s.target \in TableNames(d)
    BY <1>3 DEF Runs, TableNames
  <2> QED
    BY <1>1, <2>1, <2>2 DEF IsCatalog, TableNames, IndexOf
<1>4. CASE s.operation = "add_foreign_key"
  <2>1. e = [tables |-> d.tables, indexes |-> d.indexes,
             foreign_keys |-> d.foreign_keys \cup {KeyOf(s)}]
    BY <1>1, <1>4 DEF Effect, KeyOf
  <2>2. s.target \in TableNames(d) /\ s.references \in TableNames(d)
    BY <1>4 DEF Runs, TableNames
  <2> QED
    BY <1>1, <2>1, <2>2 DEF IsCatalog, TableNames, KeyOf
<1>5. CASE s.operation = "drop_constraint"
  <2>1. e = [tables |-> d.tables, indexes |-> d.indexes,
             foreign_keys |->
               {f \in d.foreign_keys : <<f.table, f.name>> # <<s.target, s.name>>}]
    BY <1>1, <1>5 DEF Effect
  <2> QED
    BY <1>1, <2>1 DEF IsCatalog, TableNames
<1>6. CASE s.operation = "drop_table"
  <2>1. e = [tables |-> {t \in d.tables : t.name # s.target},
             indexes |-> {x \in d.indexes : x.table # s.target},
             foreign_keys |-> {f \in d.foreign_keys :
                                 s.target \notin {f.table, f.references}}]
    BY <1>6 DEF Effect
  <2>2. \A n \in TableNames(d) : n # s.target => n \in TableNames(e)
    BY <2>1 DEF TableNames
  <2> QED
    BY <1>1, <2>1, <2>2 DEF IsCatalog
<1> QED
  BY <1>2, <1>3, <1>4, <1>5, <1>6 DEF Creates, Drops

(* A transaction of such statements leaves a catalog, whether it commits   *)
(* or not.                                                                 *)
LEMMA TransactionKeepsCatalog ==
  ASSUME NEW st, Len(st) \in Nat, NEW d, IsCatalog(d),
         \A k \in 1..Len(st) : st[k].operation \in Creates \cup Drops
  PROVE  IsCatalog(Transaction(st, d).db)
<1> DEFINE n == Len(st)
<1>0. PICK f : Transaction(st, d) = f[n] /\ Executes(f, st, d)
  BY TransactionEquation
<1>1. /\ Transaction(st, d) = f[n]
      /\ f[0] = [ok |-> TRUE, db |-> d]
      /\ \A k \in 0..(n - 1) :
           f[k + 1] = IF f[k].ok /\ Runs(st[k + 1], f[k].db)
                      THEN [ok |-> TRUE, db |-> Effect(st[k + 1], f[k].db)]
                      ELSE [ok |-> FALSE, db |-> d]
  BY <1>0 DEF Executes
<1> DEFINE P == {k \in 0..n : IsCatalog(f[k].db)}
<1>2. 0 \in P
  BY <1>1
<1>3. ASSUME NEW k \in 0..(n - 1), k \in P
      PROVE  k + 1 \in P
  <2>1. k + 1 \in 0..n /\ k + 1 \in 1..n /\ IsCatalog(f[k].db)
    BY <1>3
  <2>2. CASE f[k].ok /\ Runs(st[k + 1], f[k].db)
    <3>1. f[k + 1] = [ok |-> TRUE, db |-> Effect(st[k + 1], f[k].db)]
      BY <1>1, <2>2
    <3>2. st[k + 1].operation \in Creates \cup Drops
      BY <2>1
    <3>3. IsCatalog(Effect(st[k + 1], f[k].db))
      BY <2>1, <2>2, <3>2, EffectKeepsCatalog
    <3> QED
      BY <2>1, <3>1, <3>3
  <2>3. CASE ~(f[k].ok /\ Runs(st[k + 1], f[k].db))
    <3>1. f[k + 1] = [ok |-> FALSE, db |-> d]
      BY <1>1, <2>3
    <3> QED
      BY <2>1, <3>1
  <2> QED
    BY <2>2, <2>3
<1>4. 0..n \subseteq P
  <2> HIDE DEF P
  <2> QED
    BY <1>2, <1>3, Induction
<1> QED
  BY <1>1, <1>4

-----------------------------------------------------------------------------
(* Plans in execution.                                                     *)

(* Before its first statement a plan has made nothing.                     *)
LEMMA MadeNothing ==
  ASSUME NEW plan, NEW d, IsCatalog(d)
  PROVE  Made(plan, 0, d) = d
<1>1. \A operation : Doing(operation, plan, 0) = {}
  BY DEF Doing
<1>2. TablesIn(plan, 0) = {} /\ IndexesIn(plan, 0) = {} /\ KeysIn(plan, 0) = {}
  BY <1>1 DEF TablesIn, IndexesIn, KeysIn
<1> QED
  BY <1>2 DEF Made, IsCatalog

(* What one more statement of a plan creates.                              *)
LEMMA OneMore ==
  ASSUME NEW plan, NEW l \in Nat, l > 0
  PROVE  LET s == plan[l] IN
         /\ TablesIn(plan, l) = IF s.operation = "create_table"
                                THEN TablesIn(plan, l - 1) \cup {TableOf(s)}
                                ELSE TablesIn(plan, l - 1)
         /\ IndexesIn(plan, l) = IF s.operation = "create_index"
                                 THEN IndexesIn(plan, l - 1) \cup {IndexOf(s)}
                                 ELSE IndexesIn(plan, l - 1)
         /\ KeysIn(plan, l) = IF s.operation = "add_foreign_key"
                              THEN KeysIn(plan, l - 1) \cup {KeyOf(s)}
                              ELSE KeysIn(plan, l - 1)
<1>1. \A operation : Doing(operation, plan, l) =
        IF plan[l].operation = operation THEN Doing(operation, plan, l - 1) \cup {l}
        ELSE Doing(operation, plan, l - 1)
  <2>1. 1..l = 1..(l - 1) \cup {l}
    OBVIOUS
  <2> QED
    BY <2>1 DEF Doing
<1> QED
  BY <1>1 DEF TablesIn, IndexesIn, KeysIn

(* A statement of a plan adds what it creates.                             *)
LEMMA MadeStep ==
  ASSUME NEW plan, NEW d, NEW l \in Nat, l > 0, plan[l].operation \in Creates
  PROVE  Effect(plan[l], Made(plan, l - 1, d)) = Made(plan, l, d)
<1> DEFINE s == plan[l]
           before == Made(plan, l - 1, d)
<1>1. CASE s.operation = "create_table"
  <2>1. Effect(s, before) = [before EXCEPT !.tables = @ \cup {TableOf(s)}]
    BY <1>1 DEF Effect, TableOf
  <2>2. /\ TablesIn(plan, l) = TablesIn(plan, l - 1) \cup {TableOf(s)}
        /\ IndexesIn(plan, l) = IndexesIn(plan, l - 1)
        /\ KeysIn(plan, l) = KeysIn(plan, l - 1)
    BY <1>1, OneMore
  <2> QED
    BY <2>1, <2>2 DEF Made
<1>2. CASE s.operation = "create_index"
  <2>1. Effect(s, before) = [before EXCEPT !.indexes = @ \cup {IndexOf(s)}]
    BY <1>2 DEF Effect, IndexOf
  <2>2. /\ TablesIn(plan, l) = TablesIn(plan, l - 1)
        /\ IndexesIn(plan, l) = IndexesIn(plan, l - 1) \cup {IndexOf(s)}
        /\ KeysIn(plan, l) = KeysIn(plan, l - 1)
    BY <1>2, OneMore
  <2> QED
    BY <2>1, <2>2 DEF Made
<1>3. CASE s.operation = "add_foreign_key"
  <2>1. Effect(s, before) = [before EXCEPT !.foreign_keys = @ \cup {KeyOf(s)}]
    BY <1>3 DEF Effect, KeyOf
  <2>2. /\ TablesIn(plan, l) = TablesIn(plan, l - 1)
        /\ IndexesIn(plan, l) = IndexesIn(plan, l - 1)
        /\ KeysIn(plan, l) = KeysIn(plan, l - 1) \cup {KeyOf(s)}
    BY <1>3, OneMore
  <2> QED
    BY <2>1, <2>2 DEF Made
<1> QED
  BY <1>1, <1>2, <1>3 DEF Creates

(* What stands where in a plan.                                            *)
LEMMA PlanOperations ==
  ASSUME NEW m, IsRelationalModel(m), ~Raises(m)
  PROVE  /\ Len(Plan(m)) \in Nat /\ Len(Plan(m)) > 0
         /\ \A l \in 1..Objects(m) :
              Plan(m)[l].operation \in {"create_table", "create_index"}
         /\ \A l \in 1..Len(Plan(m)) :
              /\ Plan(m)[l].operation \in Creates
              /\ l \in 1..Objects(m) \/ \E k \in 1..Len(m.relationships) :
                   /\ l = Objects(m) + k
                   /\ Plan(m)[l] = AddForeignKey(m.relationships[k])
<1> DEFINE n == Objects(m)
           R == Len(m.relationships)
<1>1. /\ n \in Nat /\ n > 0 /\ R \in Nat /\ Len(Plan(m)) = n + R
      /\ \A k \in 1..R : Plan(m)[n + k] = AddForeignKey(m.relationships[k])
  BY PlanShape
<1>2. ASSUME NEW l \in 1..n
      PROVE  Plan(m)[l].operation \in {"create_table", "create_index"}
  <2>1. PICK i \in DOMAIN m.tables :
          \/ Plan(m)[l] = CreateTable(m.tables[i])
          \/ \E j \in DOMAIN m.tables[i].indexes : Plan(m)[l] = IndexIn(m, i, j)
    BY PlanShape
  <2>2. \A t : CreateTable(t).operation = "create_table"
    BY DEF CreateTable
  <2>3. \A j \in DOMAIN m.tables[i].indexes : IndexIn(m, i, j).operation = "create_index"
    BY DEF IndexIn, CreateIndexes
  <2> QED
    BY <2>1, <2>2, <2>3
<1> HIDE DEF n, R
<1>3. ASSUME NEW l \in 1..Len(Plan(m)), l \notin 1..n
      PROVE  \E k \in 1..R : l = n + k /\ Plan(m)[l] = AddForeignKey(m.relationships[k])
  <2>1. l - n \in 1..R /\ l = n + (l - n)
    BY <1>1, <1>3
  <2> QED
    BY <1>1, <2>1
<1>4. \A r : AddForeignKey(r).operation = "add_foreign_key"
  BY DEF AddForeignKey
<1>5. ASSUME NEW l \in 1..Len(Plan(m)) PROVE Plan(m)[l].operation \in Creates
  <2>1. CASE l \in 1..n
    BY <1>2, <2>1 DEF Creates
  <2>2. CASE l \notin 1..n
    BY <1>3, <1>4, <2>2 DEF Creates
  <2> QED
    BY <2>1, <2>2
<1>6. Len(Plan(m)) \in Nat /\ Len(Plan(m)) > 0
  BY <1>1
<1>7. \A l \in 1..Len(Plan(m)) :
        /\ Plan(m)[l].operation \in Creates
        /\ l \in 1..n \/ \E k \in 1..R :
             l = n + k /\ Plan(m)[l] = AddForeignKey(m.relationships[k])
  BY <1>3, <1>5
<1> QED
  BY <1>2, <1>6, <1>7 DEF n, R

(* An upgrade commits exactly if its plan runs through.                    *)
LEMMA UpgradeOutcome ==
  ASSUME NEW m, IsRelationalModel(m), ~Raises(m), NEW d, IsCatalog(d)
  PROVE  /\ IsCatalog(Transaction(Upgrade(m), d).db)
         /\ Transaction(Upgrade(m), d) =
              IF RunsThrough(Plan(m), d)
              THEN [ok |-> TRUE, db |-> Made(Plan(m), Len(Plan(m)), d)]
              ELSE [ok |-> FALSE, db |-> d]
<1> DEFINE plan == Plan(m)
           c == [k \in 0..Len(plan) |-> Made(plan, k, d)]
<1>1. /\ Upgrade(m) = plan /\ Len(plan) \in Nat
      /\ \A l \in 1..Len(plan) : plan[l].operation \in Creates
  BY PlanOperations DEF Upgrade
<1> HIDE DEF plan
<1>2. c[0] = d /\ \A k \in 0..Len(plan) : c[k] = Made(plan, k, d)
  <2>1. 0 \in 0..Len(plan)
    BY <1>1
  <2> QED
    BY <2>1, MadeNothing
<1>3. ASSUME NEW k \in 1..Len(plan)
      PROVE  c[k - 1] = Made(plan, k - 1, d) /\ Effect(plan[k], c[k - 1]) = c[k]
  <2>1. k \in Nat /\ k > 0 /\ k - 1 \in 0..Len(plan) /\ k \in 0..Len(plan)
    BY <1>1
  <2>2. c[k - 1] = Made(plan, k - 1, d) /\ c[k] = Made(plan, k, d)
    BY <1>2, <2>1
  <2> HIDE DEF c
  <2> QED
    BY <1>1, <2>1, <2>2, MadeStep
<1>4. c[Len(plan)] = Made(plan, Len(plan), d)
  BY <1>1, <1>2
<1> HIDE DEF c
<1>5. Transaction(plan, d) =
        IF \A k \in 1..Len(plan) : Runs(plan[k], c[k - 1])
        THEN [ok |-> TRUE, db |-> c[Len(plan)]]
        ELSE [ok |-> FALSE, db |-> d]
  BY <1>1, <1>2, <1>3, TransactionFollows
<1>6. RunsThrough(plan, d) <=> \A k \in 1..Len(plan) : Runs(plan[k], c[k - 1])
  BY <1>3 DEF RunsThrough
<1>7. IsCatalog(Transaction(plan, d).db)
  BY <1>1, TransactionKeepsCatalog
<1> QED
  BY <1>1, <1>4, <1>5, <1>6, <1>7 DEF plan

(* A downgrade drops the foreign keys, then the tables, the last first.    *)
LEMMA DowngradeShape ==
  ASSUME NEW m, IsRelationalModel(m)
  PROVE  LET back == Downgrade(m)
             R == Len(m.relationships)
             N == Len(m.tables)
         IN /\ R \in Nat /\ N \in Nat /\ Len(back) = R + N /\ Len(back) \in Nat
            /\ DOMAIN m.tables = 1..N /\ DOMAIN m.relationships = 1..R
            /\ \A k \in 1..R : back[k] = DropConstraint(m.relationships[R + 1 - k])
            /\ \A i \in 1..N : back[R + i] = DropTable(m.tables[N + 1 - i])
            /\ \A k \in 1..Len(back) : back[k].operation \in Drops
<1> DEFINE R == Len(m.relationships)
           N == Len(m.tables)
           rr == Reverse(m.relationships)
           rt == Reverse(m.tables)
           fks == [k \in DOMAIN rr |-> DropConstraint(rr[k])]
           tabs == [i \in DOMAIN rt |-> DropTable(rt[i])]
<1>1. /\ R \in Nat /\ N \in Nat
      /\ DOMAIN m.tables = 1..N /\ DOMAIN m.relationships = 1..R
  BY LenProperties DEF IsRelationalModel
<1>2. /\ DOMAIN rr = 1..R /\ DOMAIN rt = 1..N
      /\ \A k \in 1..R : rr[k] = m.relationships[R + 1 - k]
      /\ \A i \in 1..N : rt[i] = m.tables[N + 1 - i]
  <2>1. \A k \in 1..R : (R - k) + 1 = R + 1 - k
    BY <1>1
  <2>2. \A i \in 1..N : (N - i) + 1 = N + 1 - i
    BY <1>1
  <2> QED
    BY <2>1, <2>2 DEF Reverse
<1> HIDE DEF rr, rt
<1>3. /\ \A k \in 1..R : fks[k] = DropConstraint(m.relationships[R + 1 - k])
      /\ \A i \in 1..N : tabs[i] = DropTable(m.tables[N + 1 - i])
  BY <1>2
<1>4. fks = [k \in 1..R |-> fks[k]] /\ tabs = [i \in 1..N |-> tabs[i]]
  BY <1>2
<1>5. Downgrade(m) = fks \o tabs
  BY DEF Downgrade, rr, rt
<1> HIDE DEF fks, tabs
<1>6. /\ fks \in Seq(ToSet(fks)) /\ Len(fks) = R
      /\ tabs \in Seq(ToSet(tabs)) /\ Len(tabs) = N
  BY <1>1, <1>4, SeqOfItsElements
<1>7. PICK S : fks \in Seq(S) /\ tabs \in Seq(S)
  <2>1. /\ fks \in Seq(ToSet(fks) \cup ToSet(tabs))
        /\ tabs \in Seq(ToSet(fks) \cup ToSet(tabs))
    BY <1>6, SeqMonotonic
  <2> QED
    BY <2>1
<1>8. /\ Len(fks \o tabs) = Len(fks) + Len(tabs)
      /\ \A l \in 1..Len(fks) : (fks \o tabs)[l] = fks[l]
      /\ \A j \in 1..Len(tabs) : (fks \o tabs)[Len(fks) + j] = tabs[j]
      /\ \A l \in 1..Len(fks \o tabs) :
           l \in 1..Len(fks) \/ \E j \in 1..Len(tabs) : l = Len(fks) + j
  <2>1. Len(fks \o tabs) = Len(fks) + Len(tabs)
    BY <1>7, ConcatPlaces
  <2>2. \A l \in 1..Len(fks) : (fks \o tabs)[l] = fks[l]
    BY <1>7, ConcatPlaces
  <2>3. \A j \in 1..Len(tabs) : (fks \o tabs)[Len(fks) + j] = tabs[j]
    BY <1>7, ConcatPlaces
  <2>4. \A l \in 1..Len(fks \o tabs) :
          l \in 1..Len(fks) \/ \E j \in 1..Len(tabs) : l = Len(fks) + j
    BY <1>7, ConcatPlaces
  <2> QED
    BY <2>1, <2>2, <2>3, <2>4
<1>9. ASSUME NEW k \in 1..Len(Downgrade(m))
      PROVE  Downgrade(m)[k].operation \in Drops
  <2>1. CASE k \in 1..R
    <3>1. Downgrade(m)[k] = DropConstraint(m.relationships[R + 1 - k])
      BY <1>3, <1>5, <1>6, <1>8, <2>1
    <3> QED
      BY <3>1 DEF DropConstraint, Drops
  <2>2. CASE k \notin 1..R
    <3>1. PICK i \in 1..N : k = R + i
      BY <1>5, <1>6, <1>8, <2>2
    <3>2. Downgrade(m)[k] = DropTable(m.tables[N + 1 - i])
      BY <1>3, <1>5, <1>6, <1>8, <3>1
    <3> QED
      BY <3>2 DEF DropTable, Drops
  <2> QED
    BY <2>1, <2>2
<1>10. Len(Downgrade(m)) = R + N /\ R + N \in Nat
  <2>1. Len(Downgrade(m)) = Len(fks) + Len(tabs)
    BY <1>5, <1>8
  <2>2. Len(fks) = R /\ Len(tabs) = N
    BY <1>6
  <2> HIDE DEF R, N
  <2>3. R + N \in Nat
    BY <1>1
  <2> QED
    BY <2>1, <2>2, <2>3
<1>11. Len(Downgrade(m)) \in Nat
  BY <1>10
<1>12. /\ \A k \in 1..R : Downgrade(m)[k] = DropConstraint(m.relationships[R + 1 - k])
       /\ \A i \in 1..N : Downgrade(m)[R + i] = DropTable(m.tables[N + 1 - i])
  BY <1>3, <1>5, <1>6, <1>8
<1> QED
  BY <1>1, <1>9, <1>10, <1>11, <1>12

-----------------------------------------------------------------------------
(* The invariant.                                                          *)

(* What stands where after an Append.                                      *)
LEMMA AppendPlaces ==
  ASSUME NEW s, s \in Seq(ToSet(s)), NEW x
  PROVE  /\ Append(s, x) \in Seq(ToSet(Append(s, x)))
         /\ DOMAIN s = 1..Len(s) /\ Len(s) \in Nat
         /\ DOMAIN Append(s, x) = 1..(Len(s) + 1)
         /\ Append(s, x)[Len(s) + 1] = x
         /\ \A i \in 1..Len(s) : Append(s, x)[i] = s[i]
<1> DEFINE S == ToSet(s) \cup {x}
           t == Append(s, x)
<1>1. s \in Seq(S) /\ Len(s) \in Nat /\ DOMAIN s = 1..Len(s)
  BY SeqMonotonic, LenProperties
<1>2. /\ t \in Seq(S) /\ Len(t) = Len(s) + 1 /\ t[Len(s) + 1] = x
      /\ \A i \in 1..Len(s) : t[i] = s[i]
  BY <1>1, AppendProperties
<1>3. DOMAIN t = 1..(Len(s) + 1) /\ t = [i \in 1..(Len(s) + 1) |-> t[i]]
  BY <1>1, <1>2, LenProperties
<1>4. t \in Seq(ToSet(t))
  BY <1>1, <1>3, SeqOfItsElements
<1> QED
  BY <1>1, <1>2, <1>3, <1>4

(* What was delivered is a model that the generator does not refuse.       *)
LEMMA DeliveredModels ==
  ASSUME DeliveredInv, NEW i \in DOMAIN delivered
  PROVE  IsRelationalModel(delivered[i].model) /\ ~Raises(delivered[i].model)
BY ModelsAssumption DEF DeliveredInv

(* What was delivered stays delivered.                                     *)
LEMMA DeliveredStep ==
  ASSUME DeliveredInv, [Next]_vars
  PROVE  /\ DeliveredInv'
         /\ \A i \in DOMAIN delivered :
              i \in DOMAIN delivered' /\ delivered'[i] = delivered[i]
<1>1. CASE UNCHANGED delivered
  BY <1>1 DEF DeliveredInv
<1>2. ASSUME NEW m \in Models, ~Raises(m),
             delivered' = Append(delivered, [model |-> m, schema |-> reading.seen])
      PROVE  /\ DeliveredInv'
             /\ \A i \in DOMAIN delivered :
                  i \in DOMAIN delivered' /\ delivered'[i] = delivered[i]
  <2> DEFINE n == Len(delivered)
             e == [model |-> m, schema |-> reading.seen]
  <2>1. e.model = m
    OBVIOUS
  <2> HIDE DEF e
  <2>2. PICK s : s = delivered
    OBVIOUS
  <2>3. /\ Append(s, e) \in Seq(ToSet(Append(s, e)))
        /\ DOMAIN s = 1..Len(s) /\ Len(s) \in Nat
        /\ DOMAIN Append(s, e) = 1..(Len(s) + 1)
        /\ Append(s, e)[Len(s) + 1] = e
        /\ \A i \in 1..Len(s) : Append(s, e)[i] = s[i]
    BY <2>2, AppendPlaces DEF DeliveredInv
  <2>4. delivered' = Append(s, e)
    BY <1>2, <2>2 DEF e
  <2>5. \A i \in DOMAIN delivered' : i = n + 1 \/ i \in DOMAIN delivered
    BY <2>2, <2>3, <2>4
  <2> QED
    BY <1>2, <2>1, <2>2, <2>3, <2>4, <2>5 DEF DeliveredInv
<1>3. CASE \E m \in Models : Propose(m)
  BY <1>1, <1>2, <1>3 DEF Propose
<1>4. CASE \/ Connect \/ ListTables \/ \E n \in reading.left : ReadPart(n)
           \/ GiveUp \/ \E i \in DOMAIN delivered : StartScript(i)
           \/ Statement \/ Finished \/ UNCHANGED vars
  BY <1>1, <1>4 DEF Connect, ListTables, ReadPart, GiveUp, StartScript, Statement,
                    Finished, vars
<1>5. CASE \/ \E i \in DOMAIN delivered : AlembicUpgrade(i) \/ AlembicDowngrade(i)
           \/ \E s \in Others : Other(s)
  BY <1>1, <1>5 DEF AlembicUpgrade, AlembicDowngrade, Revise, Other
<1> QED
  BY <1>3, <1>4, <1>5 DEF Next

(* The invariant holds at the start.                                       *)
LEMMA ScriptInit == Init => DeliveredInv /\ RunningInv /\ ResultInv /\ TypeOK
<1> SUFFICES ASSUME Init PROVE DeliveredInv /\ RunningInv /\ ResultInv /\ TypeOK
  OBVIOUS
<1>1. DeliveredInv
  <2>1. delivered = <<>> /\ DOMAIN <<>> = {}
    BY DEF Init
  <2>2. <<>> \in Seq(ToSet(<<>>))
    BY EmptySeq
  <2> QED
    BY <2>1, <2>2 DEF DeliveredInv
<1>2. RunningInv /\ ResultInv
  BY BeforeAssumption DEF Init, RunningInv, ResultInv, NotRunning
<1>3. TypeOK
  BY PartsAre DEF Init, TypeOK, NotReading, NotRunning
<1> QED
  BY <1>1, <1>2, <1>3

(* One statement of psql: the script is one statement further, or it has   *)
(* ended, with success exactly if it ran through.                          *)
LEMMA StatementKeeps ==
  ASSUME DeliveredInv, RunningInv, ResultInv, Statement
  PROVE  RunningInv' /\ ResultInv'
<1> DEFINE m == delivered[running.of].model
           plan == Plan(m)
           at == running.at
           s == plan[at]
           before == running.before
<1>1. /\ running.phase = "script" /\ running.of \in DOMAIN delivered
      /\ at \in 1..Len(plan) /\ IsCatalog(before) /\ IsCatalog(db)
      /\ running.alone \in BOOLEAN
      /\ DOMAIN running = {"phase", "of", "at", "before", "alone"}
      /\ running.alone =>
           /\ db = Made(plan, at - 1, before)
           /\ \A l \in 1..(at - 1) : Runs(plan[l], Made(plan, l - 1, before))
  BY DEF Statement, RunningInv
<1>2. /\ Len(plan) \in Nat /\ at \in Nat /\ at > 0
      /\ s.operation \in Creates
  BY <1>1, DeliveredModels, PlanOperations
<1>3. /\ db' = IF Runs(s, db) THEN Effect(s, db) ELSE db
      /\ delivered' = delivered
      /\ IF Runs(s, db) /\ at < Len(plan)
         THEN running' = [running EXCEPT !.at = @ + 1] /\ result' = result
         ELSE /\ running' = NotRunning
              /\ result' = [kind |-> "script", of |-> running.of, ok |-> Runs(s, db),
                            before |-> before, after |-> db',
                            alone |-> running.alone]
  BY DEF Statement
<1> HIDE DEF plan, m
<1>4. IsCatalog(db')
  BY <1>1, <1>2, <1>3, EffectKeepsCatalog
<1>5. running.alone /\ Runs(s, db) =>
        /\ db' = Made(plan, at, before)
        /\ \A l \in 1..at : Runs(plan[l], Made(plan, l - 1, before))
  <2> SUFFICES ASSUME running.alone, Runs(s, db)
               PROVE  /\ db' = Made(plan, at, before)
                      /\ \A l \in 1..at : Runs(plan[l], Made(plan, l - 1, before))
    OBVIOUS
  <2>1. db' = Made(plan, at, before)
    BY <1>1, <1>2, <1>3, MadeStep
  <2>2. \A l \in 1..at : l \in 1..(at - 1) \/ l = at
    BY <1>2
  <2> QED
    BY <1>1, <2>1, <2>2
<1>6. CASE Runs(s, db) /\ at < Len(plan)
  <2>1. running' = [running EXCEPT !.at = at + 1] /\ result' = result
    BY <1>3, <1>6
  <2>2. /\ DOMAIN running' = DOMAIN running
        /\ running'.phase = "script" /\ running'.of = running.of
        /\ running'.at = at + 1 /\ running'.before = before
        /\ running'.alone = running.alone
    BY <1>1, <2>1
  <2>3. at + 1 \in 1..Len(plan) /\ (at + 1) - 1 = at
    BY <1>2, <1>6
  <2>4. RunningInv'
    BY <1>1, <1>3, <1>4, <1>5, <1>6, <2>2, <2>3 DEF RunningInv, plan, m
  <2> QED
    BY <1>3, <2>1, <2>4 DEF ResultInv
<1>7. CASE ~(Runs(s, db) /\ at < Len(plan))
  <2>1. running' = NotRunning
    BY <1>3, <1>7
  <2>2. RunningInv'
    BY <1>4, <2>1 DEF RunningInv, NotRunning
  <2>3. /\ result' = [kind |-> "script", of |-> running.of, ok |-> Runs(s, db),
                      before |-> before, after |-> db', alone |-> running.alone]
    BY <1>3, <1>7
  <2>4. /\ result'.kind = "script" /\ result'.of = running.of
        /\ (result'.ok <=> Runs(s, db)) /\ result'.before = before
        /\ result'.after = db' /\ result'.alone = running.alone
    BY <2>3
  <2>5. SUFFICES ASSUME running.alone
                 PROVE  /\ Runs(s, db) <=> RunsThrough(plan, before)
                        /\ Runs(s, db) => db' = Made(plan, Len(plan), before)
    BY <1>1, <1>3, <2>2, <2>4 DEF ResultInv, plan, m
  <2>6. CASE Runs(s, db)
    <3>1. at = Len(plan)
      BY <1>1, <1>2, <1>7, <2>6
    <3> QED
      BY <1>5, <2>5, <2>6, <3>1 DEF RunsThrough
  <2>7. CASE ~Runs(s, db)
    BY <1>1, <2>5, <2>7 DEF RunsThrough
  <2> QED
    BY <2>6, <2>7
<1> QED
  BY <1>6, <1>7

(* An Alembic transaction: all of a plan or nothing; a downgrade leaves a  *)
(* catalog too.                                                            *)
LEMMA ReviseKeeps ==
  ASSUME DeliveredInv, RunningInv, ResultInv, NEW i \in DOMAIN delivered,
         AlembicUpgrade(i) \/ AlembicDowngrade(i)
  PROVE  RunningInv' /\ ResultInv'
<1> DEFINE m == delivered[i].model
<1>1. /\ running.phase = "idle" /\ running' = running /\ delivered' = delivered
      /\ IsCatalog(db)
  BY DEF AlembicUpgrade, AlembicDowngrade, Revise, RunningInv
<1>2. IsRelationalModel(m) /\ ~Raises(m)
  BY DeliveredModels
<1> HIDE DEF m
<1>3. CASE AlembicUpgrade(i)
  <2> DEFINE o == Transaction(Upgrade(m), db)
  <2>1. /\ db' = o.db
        /\ result' = [kind |-> "upgrade", of |-> i, ok |-> o.ok, before |-> db,
                      after |-> db', alone |-> TRUE]
    BY <1>3 DEF AlembicUpgrade, Revise, m
  <2>2. /\ IsCatalog(o.db)
        /\ o = IF RunsThrough(Plan(m), db)
               THEN [ok |-> TRUE, db |-> Made(Plan(m), Len(Plan(m)), db)]
               ELSE [ok |-> FALSE, db |-> db]
    BY <1>1, <1>2, UpgradeOutcome
  <2> HIDE DEF o
  <2>3. RunningInv'
    BY <1>1, <2>1, <2>2 DEF RunningInv
  <2>4. /\ result'.of = i /\ result'.before = db /\ result'.after = db'
        /\ result'.alone
        /\ (result'.ok <=> RunsThrough(Plan(m), db))
        /\ result'.ok => db' = Made(Plan(m), Len(Plan(m)), db)
    <3>1. CASE RunsThrough(Plan(m), db)
      BY <2>1, <2>2, <3>1
    <3>2. CASE ~RunsThrough(Plan(m), db)
      BY <2>1, <2>2, <3>2
    <3> QED
      BY <3>1, <3>2
  <2> QED
    BY <1>1, <2>3, <2>4 DEF ResultInv, m
<1>4. CASE AlembicDowngrade(i)
  <2>1. /\ db' = Transaction(Downgrade(m), db).db
        /\ result'.kind = "downgrade"
    BY <1>4 DEF AlembicDowngrade, Revise, m
  <2>2. /\ Len(Downgrade(m)) \in Nat
        /\ \A k \in 1..Len(Downgrade(m)) : Downgrade(m)[k].operation \in Creates \cup Drops
    BY <1>2, DowngradeShape
  <2>3. IsCatalog(db')
    BY <1>1, <2>1, <2>2, TransactionKeepsCatalog
  <2> QED
    BY <1>1, <2>1, <2>3 DEF RunningInv, ResultInv
<1> QED
  BY <1>3, <1>4

(* What other people do ends a script's solitude.                          *)
LEMMA OtherKeeps ==
  ASSUME DeliveredInv, RunningInv, ResultInv, NEW s \in Others, Other(s)
  PROVE  RunningInv' /\ ResultInv'
<1>1. /\ Runs(s, db) /\ db' = Effect(s, db)
      /\ running' = [running EXCEPT !.alone = running.phase = "idle"]
      /\ delivered' = delivered /\ result' = result
  BY DEF Other
<1>2. IsCatalog(db')
  BY <1>1, OthersAssumption, EffectKeepsCatalog DEF RunningInv
<1>3. /\ DOMAIN running' = DOMAIN running
      /\ running'.phase = running.phase /\ running'.of = running.of
      /\ running'.at = running.at /\ running'.before = running.before
      /\ running'.alone = (running.phase = "idle")
  BY <1>1 DEF RunningInv
<1>4. RunningInv'
  BY <1>1, <1>2, <1>3 DEF RunningInv
<1> QED
  BY <1>1, <1>4 DEF ResultInv

(* A script that starts has made nothing yet.                              *)
LEMMA StartScriptKeeps ==
  ASSUME DeliveredInv, RunningInv, ResultInv, NEW i \in DOMAIN delivered,
         StartScript(i)
  PROVE  RunningInv' /\ ResultInv'
<1> DEFINE plan == Plan(delivered[i].model)
<1>1. /\ running' = [NotRunning EXCEPT !.phase = "script", !.of = i, !.before = db]
      /\ db' = db /\ delivered' = delivered /\ result' = result
  BY DEF StartScript
<1>2. /\ DOMAIN running' = {"phase", "of", "at", "before", "alone"}
      /\ running'.phase = "script" /\ running'.of = i /\ running'.at = 1
      /\ running'.before = db /\ running'.alone = TRUE
  BY <1>1 DEF NotRunning
<1>3. Len(plan) \in Nat /\ Len(plan) > 0
  BY DeliveredModels, PlanOperations
<1> HIDE DEF plan
<1>4. 1 \in 1..Len(plan) /\ 1 - 1 = 0 /\ \A l \in 1..0 : FALSE
  BY <1>3
<1>5. IsCatalog(db) /\ Made(plan, 0, db) = db
  BY MadeNothing DEF RunningInv
<1>6. RunningInv'
  BY <1>1, <1>2, <1>4, <1>5 DEF RunningInv, plan
<1> QED
  BY <1>1, <1>6 DEF ResultInv

(* Every step of the specification keeps the script's invariant.           *)
LEMMA ScriptStep ==
  ASSUME DeliveredInv, RunningInv, ResultInv, [Next]_vars
  PROVE  RunningInv' /\ ResultInv'
<1>1. ASSUME UNCHANGED <<db, running, result>>
      PROVE  RunningInv' /\ ResultInv'
  <2>1. \A i \in DOMAIN delivered : i \in DOMAIN delivered' /\ delivered'[i] = delivered[i]
    BY DeliveredStep
  <2> QED
    BY <1>1, <2>1 DEF RunningInv, ResultInv
<1>2. CASE Connect \/ ListTables \/ GiveUp \/ Finished \/ UNCHANGED vars
  BY <1>1, <1>2 DEF Connect, ListTables, GiveUp, Finished, vars
<1>3. CASE \E n \in reading.left : ReadPart(n)
  BY <1>1, <1>3 DEF ReadPart
<1>4. CASE \E m \in Models : Propose(m)
  BY <1>1, <1>4 DEF Propose
<1>5. CASE \E i \in DOMAIN delivered : StartScript(i)
  BY <1>5, StartScriptKeeps
<1>6. CASE Statement
  BY <1>6, StatementKeeps
<1>7. CASE \E i \in DOMAIN delivered : AlembicUpgrade(i)
  BY <1>7, ReviseKeeps
<1>8. CASE \E i \in DOMAIN delivered : AlembicDowngrade(i)
  BY <1>8, ReviseKeeps
<1>9. CASE \E s \in Others : Other(s)
  BY <1>9, OtherKeeps
<1> QED
  BY <1>2, <1>3, <1>4, <1>5, <1>6, <1>7, <1>8, <1>9 DEF Next

(* A table that is not read to its end is left.                            *)
LEMMA TypeStep ==
  ASSUME ReadingInv, DeliveredInv, RunningInv, ResultInv, TypeOK, [Next]_vars
  PROVE  TypeOK'
<1> DEFINE Left(r) == /\ r.part > 1 => r.table \in r.left
                      /\ r.phase = "reading" => r.left # {}
<1>1. ReadingInv' /\ RunningInv'
  BY ReadingStep, ScriptStep
<1>2. \A i \in DOMAIN delivered : i \in DOMAIN delivered'
  BY DeliveredStep
<1>3. SUFFICES Left(reading') /\ applied' \subseteq DOMAIN delivered'
  BY <1>1 DEF ReadingInv, ReadingShape, RunningInv, TypeOK
<1>4. /\ Left(reading) /\ applied \subseteq DOMAIN delivered
      /\ DOMAIN reading = {"phase", "left", "table", "part", "seen", "since", "lost"}
      /\ reading.part \in 1..5
      /\ reading.phase = "listing" => reading.part = 1
  BY PartsAre DEF TypeOK, ReadingInv, ReadingShape
<1>5. /\ NotReading.part = 1 /\ NotReading.phase = "idle"
      /\ [NotReading EXCEPT !.phase = "listing", !.since = Schema(db)].part = 1
      /\ [NotReading EXCEPT !.phase = "listing", !.since = Schema(db)].phase = "listing"
  BY DEF NotReading
<1>6. ASSUME UNCHANGED <<reading, applied>>
      PROVE  Left(reading') /\ applied' \subseteq DOMAIN delivered'
  BY <1>2, <1>4, <1>6
<1>7. ASSUME Watched, applied' \subseteq DOMAIN delivered
      PROVE  Left(reading') /\ applied' \subseteq DOMAIN delivered'
  <2>1. /\ reading'.part = reading.part /\ reading'.table = reading.table
        /\ reading'.left = reading.left /\ reading'.phase = reading.phase
    BY <1>4, <1>7 DEF Watched
  <2> QED
    BY <1>2, <1>4, <1>7, <2>1
<1>8. CASE Connect \/ GiveUp \/ \E m \in Models : Propose(m)
  <2>1. /\ reading'.part = 1 /\ reading'.phase # "reading"
        /\ applied' = applied
    BY <1>5, <1>8 DEF Connect, GiveUp, Propose
  <2> QED
    BY <1>2, <1>4, <2>1
<1>9. CASE ListTables
  <2>1. /\ reading' = [reading EXCEPT
             !.phase = IF db.tables = {} THEN "read" ELSE "reading",
             !.left = TableNames(db), !.seen["tables"] = TableNames(db)]
        /\ reading.part = 1 /\ applied' = applied
    BY <1>4, <1>9 DEF ListTables
  <2>2. /\ reading'.part = 1 /\ reading'.left = TableNames(db)
        /\ reading'.phase = IF db.tables = {} THEN "read" ELSE "reading"
    BY <1>4, <2>1
  <2>3. db.tables # {} => TableNames(db) # {}
    BY DEF TableNames
  <2> QED
    BY <1>2, <1>4, <2>1, <2>2, <2>3
<1>10. ASSUME NEW n \in reading.left, ReadPart(n)
       PROVE  Left(reading') /\ applied' \subseteq DOMAIN delivered'
  <2> DEFINE part == Parts[reading.part]
             over == reading.part = Len(Parts)
             left == IF over THEN reading.left \ {n} ELSE reading.left
  <2>1. /\ applied' = applied
        /\ \/ reading' = [reading EXCEPT !.phase = "failed"]
           \/ reading' = [reading EXCEPT
                !.seen[part] = @ \cup Told(part, n, db),
                !.left = left,
                !.phase = IF left = {} THEN "read" ELSE "reading",
                !.table = IF over THEN None ELSE n,
                !.part = IF over THEN 1 ELSE @ + 1]
    BY <1>10 DEF ReadPart
  <2>2. CASE reading' = [reading EXCEPT !.phase = "failed"]
    <3>1. /\ reading'.part = reading.part /\ reading'.table = reading.table
          /\ reading'.left = reading.left /\ reading'.phase = "failed"
      BY <1>4, <2>2
    <3> QED
      BY <1>2, <1>4, <2>1, <3>1
  <2>3. CASE reading' = [reading EXCEPT
                !.seen[part] = @ \cup Told(part, n, db),
                !.left = left,
                !.phase = IF left = {} THEN "read" ELSE "reading",
                !.table = IF over THEN None ELSE n,
                !.part = IF over THEN 1 ELSE @ + 1]
    <3>1. /\ reading'.left = left
          /\ reading'.phase = IF left = {} THEN "read" ELSE "reading"
          /\ reading'.table = IF over THEN None ELSE n
          /\ reading'.part = IF over THEN 1 ELSE reading.part + 1
      BY <1>4, <2>3
    <3> QED
      BY <1>2, <1>4, <1>10, <2>1, <3>1
  <2> QED
    BY <2>1, <2>2, <2>3
<1>11. CASE \E n \in reading.left : ReadPart(n)
  BY <1>10, <1>11
<1>12. CASE \E i \in DOMAIN delivered : StartScript(i)
  BY <1>6, <1>12 DEF StartScript
<1>13. CASE Statement
  <2>1. Watched /\ applied' = applied
    BY <1>13 DEF Statement
  <2> QED
    BY <1>4, <1>7, <2>1
<1>14. CASE \E i \in DOMAIN delivered : AlembicUpgrade(i)
  <2>1. PICK i \in DOMAIN delivered : AlembicUpgrade(i)
    BY <1>14
  <2>2. Watched /\ (applied' = applied \/ applied' = applied \cup {i} \/ applied' = applied \ {i})
    BY <2>1 DEF AlembicUpgrade, Revise
  <2> QED
    BY <1>4, <1>7, <2>1, <2>2
<1>15. CASE \E i \in DOMAIN delivered : AlembicDowngrade(i)
  <2>1. PICK i \in DOMAIN delivered : AlembicDowngrade(i)
    BY <1>15
  <2>2. Watched /\ (applied' = applied \/ applied' = applied \cup {i} \/ applied' = applied \ {i})
    BY <2>1 DEF AlembicDowngrade, Revise
  <2> QED
    BY <1>4, <1>7, <2>1, <2>2
<1>16. CASE \E s \in Others : Other(s)
  <2>1. Watched /\ applied' = applied
    BY <1>16 DEF Other
  <2> QED
    BY <1>4, <1>7, <2>1
<1>17. CASE Finished \/ UNCHANGED vars
  BY <1>6, <1>17 DEF Finished, vars
<1> QED
  BY <1>8, <1>9, <1>11, <1>12, <1>13, <1>14, <1>15, <1>16, <1>17 DEF Next

(* In every behaviour the catalog has no index or foreign key without its  *)
(* tables, a script that nobody disturbed has made just the first part of  *)
(* its plan, and the last one that ended succeeded exactly if each of its  *)
(* statements was in place.                                                *)
THEOREM ScriptInvariance == Spec => []ScriptInv
<1>1. Init => ScriptInv
  BY ReadingInit, ScriptInit DEF ScriptInv
<1>2. ScriptInv /\ [Next]_vars => ScriptInv'
  BY ReadingStep, DeliveredStep, ScriptStep, TypeStep DEF ScriptInv
<1> QED
  BY <1>1, <1>2, PTL DEF Spec

(* The introspection and the customer's script are where their code can    *)
(* be.                                                                     *)
THEOREM DatabaseTypeCorrect == Spec => []TypeOK
<1>1. ScriptInv => TypeOK
  BY DEF ScriptInv
<1> QED
  BY <1>1, ScriptInvariance, PTL

-----------------------------------------------------------------------------
(* What a script makes.                                                    *)

(* A table, an index and a foreign key of a model, in the catalog.         *)
BuiltTable(t) ==
  [name |-> t.name, columns |-> t.columns, key |-> PrimaryKey(t),
   required |-> t.required \cup PrimaryKey(t),
   unique |-> {{c} : c \in t.unique}]

BuiltIndex(t, x) ==
  [name |-> x.name, table |-> t.name, columns |-> x.columns,
   is_unique |-> x.unique]

BuiltKey(r) ==
  [name |-> r.name, table |-> r.source_table, columns |-> r.source_columns,
   references |-> r.target_table, keys |-> r.target_columns]

BuiltTables(m) == {BuiltTable(t) : t \in ToSet(m.tables)}

BuiltIndexes(m) ==
  UNION {{BuiltIndex(t, x) : x \in ToSet(t.indexes)} : t \in ToSet(m.tables)}

BuiltKeys(m) == {BuiltKey(r) : r \in ToSet(m.relationships)}

(* With, by its named parts.                                               *)
LEMMA WithIs ==
  ASSUME NEW m, NEW d
  PROVE  With(m, d) = [tables |-> d.tables \cup BuiltTables(m),
                       indexes |-> d.indexes \cup BuiltIndexes(m),
                       foreign_keys |-> d.foreign_keys \cup BuiltKeys(m)]
BY DEF With, BuiltTables, BuiltIndexes, BuiltKeys, BuiltTable, BuiltIndex, BuiltKey

(* Which statement creates which part of a model.                          *)
LEMMA BuiltByStatements ==
  /\ \A t : /\ CreateTable(t).operation = "create_table"
            /\ TableOf(CreateTable(t)) = BuiltTable(t)
  /\ \A m, i : \A j \in DOMAIN m.tables[i].indexes :
       /\ IndexIn(m, i, j).operation = "create_index"
       /\ IndexOf(IndexIn(m, i, j)) = BuiltIndex(m.tables[i], m.tables[i].indexes[j])
  /\ \A r : /\ AddForeignKey(r).operation = "add_foreign_key"
            /\ KeyOf(AddForeignKey(r)) = BuiltKey(r)
<1>1. \A t : /\ CreateTable(t).operation = "create_table"
             /\ TableOf(CreateTable(t)) = BuiltTable(t)
  BY DEF CreateTable, TableOf, BuiltTable
<1>2. ASSUME NEW m, NEW i, NEW j \in DOMAIN m.tables[i].indexes
      PROVE  /\ IndexIn(m, i, j).operation = "create_index"
             /\ IndexOf(IndexIn(m, i, j)) = BuiltIndex(m.tables[i], m.tables[i].indexes[j])
  BY DEF IndexIn, CreateIndexes, IndexOf, BuiltIndex
<1>3. \A r : /\ AddForeignKey(r).operation = "add_foreign_key"
             /\ KeyOf(AddForeignKey(r)) = BuiltKey(r)
  BY DEF AddForeignKey, KeyOf, BuiltKey
<1> QED
  BY <1>1, <1>2, <1>3

(* What the statements up to a place of a plan create is in the model.     *)
LEMMA MadeIsBuilt ==
  ASSUME NEW m, IsRelationalModel(m), ~Raises(m), NEW k \in 0..Len(Plan(m))
  PROVE  /\ TablesIn(Plan(m), k) \subseteq BuiltTables(m)
         /\ IndexesIn(Plan(m), k) \subseteq BuiltIndexes(m)
         /\ KeysIn(Plan(m), k) \subseteq BuiltKeys(m)
<1> DEFINE plan == Plan(m)
           n == Objects(m)
           R == Len(m.relationships)
<1>1. /\ Len(plan) \in Nat /\ n \in Nat
      /\ DOMAIN m.relationships = 1..R
      /\ \A l \in 1..n : \E i \in DOMAIN m.tables :
           \/ plan[l] = CreateTable(m.tables[i])
           \/ \E j \in DOMAIN m.tables[i].indexes : plan[l] = IndexIn(m, i, j)
      /\ \A l \in 1..Len(plan) :
           l \in 1..n \/ \E h \in 1..R : plan[l] = AddForeignKey(m.relationships[h])
  <2>1. n \in Nat /\ DOMAIN m.relationships = 1..R
    BY PlanShape
  <2>3. ASSUME NEW l \in 1..n
        PROVE  \E i \in DOMAIN m.tables :
                 \/ plan[l] = CreateTable(m.tables[i])
                 \/ \E j \in DOMAIN m.tables[i].indexes : plan[l] = IndexIn(m, i, j)
    BY PlanShape
  <2>2. /\ Len(plan) \in Nat
        /\ \A l \in 1..Len(plan) :
             l \in 1..n \/ \E h \in 1..R : plan[l] = AddForeignKey(m.relationships[h])
    BY PlanOperations
  <2> QED
    BY <2>1, <2>2, <2>3
<1> HIDE DEF plan, n, R
<1>2. \A l \in 1..k : l \in 1..Len(plan)
  BY <1>1 DEF plan
<1>3. ASSUME NEW l \in 1..k
      PROVE  \/ \E i \in DOMAIN m.tables : plan[l] = CreateTable(m.tables[i])
             \/ \E i \in DOMAIN m.tables : \E j \in DOMAIN m.tables[i].indexes :
                  plan[l] = IndexIn(m, i, j)
             \/ \E h \in DOMAIN m.relationships :
                  plan[l] = AddForeignKey(m.relationships[h])
  BY <1>1, <1>2
<1>4. ASSUME NEW l \in Doing("create_table", plan, k)
      PROVE  TableOf(plan[l]) \in BuiltTables(m)
  <2>1. l \in 1..k /\ plan[l].operation = "create_table"
    BY DEF Doing
  <2>2. PICK i \in DOMAIN m.tables : plan[l] = CreateTable(m.tables[i])
    BY <1>3, <2>1, BuiltByStatements
  <2> QED
    BY <2>2, BuiltByStatements DEF BuiltTables, ToSet
<1>5. ASSUME NEW l \in Doing("create_index", plan, k)
      PROVE  IndexOf(plan[l]) \in BuiltIndexes(m)
  <2>1. l \in 1..k /\ plan[l].operation = "create_index"
    BY DEF Doing
  <2>2. PICK i \in DOMAIN m.tables : \E j \in DOMAIN m.tables[i].indexes :
          plan[l] = IndexIn(m, i, j)
    BY <1>3, <2>1, BuiltByStatements
  <2>3. PICK j \in DOMAIN m.tables[i].indexes : plan[l] = IndexIn(m, i, j)
    BY <2>2
  <2>4. IndexOf(plan[l]) = BuiltIndex(m.tables[i], m.tables[i].indexes[j])
    BY <2>3, BuiltByStatements
  <2>5. m.tables[i] \in ToSet(m.tables)
        /\ m.tables[i].indexes[j] \in ToSet(m.tables[i].indexes)
    BY DEF ToSet
  <2> QED
    BY <2>4, <2>5 DEF BuiltIndexes
<1>6. ASSUME NEW l \in Doing("add_foreign_key", plan, k)
      PROVE  KeyOf(plan[l]) \in BuiltKeys(m)
  <2>1. l \in 1..k /\ plan[l].operation = "add_foreign_key"
    BY DEF Doing
  <2>2. PICK h \in DOMAIN m.relationships : plan[l] = AddForeignKey(m.relationships[h])
    BY <1>3, <2>1, BuiltByStatements
  <2> QED
    BY <2>2, BuiltByStatements DEF BuiltKeys, ToSet
<1> QED
  BY <1>4, <1>5, <1>6 DEF TablesIn, IndexesIn, KeysIn, plan

(* After the tables and indexes each of the model's is there.              *)
LEMMA BuiltIsMade ==
  ASSUME NEW m, IsRelationalModel(m), ~Raises(m),
         NEW k \in Objects(m)..Len(Plan(m))
  PROVE  /\ BuiltTables(m) \subseteq TablesIn(Plan(m), k)
         /\ BuiltIndexes(m) \subseteq IndexesIn(Plan(m), k)
         /\ k = Len(Plan(m)) => BuiltKeys(m) \subseteq KeysIn(Plan(m), k)
<1> DEFINE plan == Plan(m)
           n == Objects(m)
           R == Len(m.relationships)
<1>1. /\ n \in Nat /\ R \in Nat /\ Len(plan) = n + R
      /\ DOMAIN m.relationships = 1..R
      /\ \A i \in DOMAIN m.tables :
           /\ \E l \in 1..n : plan[l] = CreateTable(m.tables[i])
           /\ \A j \in DOMAIN m.tables[i].indexes :
                \E l \in 1..n : plan[l] = IndexIn(m, i, j)
      /\ \A h \in 1..R : plan[n + h] = AddForeignKey(m.relationships[h])
  BY PlanShape
<1> HIDE DEF plan, n, R
<1>2. k \in Nat /\ \A l \in 1..n : l \in 1..k
  BY <1>1 DEF n, plan
<1>3. ASSUME NEW t \in ToSet(m.tables)
      PROVE  BuiltTable(t) \in TablesIn(plan, k)
  <2>1. PICK i \in DOMAIN m.tables : t = m.tables[i]
    BY DEF ToSet
  <2>2. PICK l \in 1..n : plan[l] = CreateTable(t)
    BY <1>1, <2>1
  <2>3. l \in Doing("create_table", plan, k) /\ TableOf(plan[l]) = BuiltTable(t)
    BY <1>2, <2>2, BuiltByStatements DEF Doing
  <2> QED
    BY <2>3 DEF TablesIn
<1>4. ASSUME NEW t \in ToSet(m.tables), NEW x \in ToSet(t.indexes)
      PROVE  BuiltIndex(t, x) \in IndexesIn(plan, k)
  <2>1. PICK i \in DOMAIN m.tables : t = m.tables[i]
    BY DEF ToSet
  <2>2. PICK j \in DOMAIN m.tables[i].indexes : x = m.tables[i].indexes[j]
    BY <2>1 DEF ToSet
  <2>3. PICK l \in 1..n : plan[l] = IndexIn(m, i, j)
    BY <1>1
  <2>4. l \in Doing("create_index", plan, k) /\ IndexOf(plan[l]) = BuiltIndex(t, x)
    BY <1>2, <2>1, <2>2, <2>3, BuiltByStatements DEF Doing
  <2> QED
    BY <2>4 DEF IndexesIn
<1>5. ASSUME k = Len(plan), NEW r \in ToSet(m.relationships)
      PROVE  BuiltKey(r) \in KeysIn(plan, k)
  <2>1. PICK h \in 1..R : r = m.relationships[h]
    BY <1>1 DEF ToSet
  <2>2. n + h \in 1..k
    BY <1>1, <1>5
  <2>3. /\ n + h \in Doing("add_foreign_key", plan, k)
        /\ KeyOf(plan[n + h]) = BuiltKey(r)
    BY <1>1, <2>1, <2>2, BuiltByStatements DEF Doing
  <2> QED
    BY <2>3 DEF KeysIn
<1> QED
  BY <1>3, <1>4, <1>5 DEF BuiltTables, BuiltIndexes, BuiltKeys, plan

(* A plan that has been run has added its model, and nothing else.         *)
LEMMA MadeAll ==
  ASSUME NEW m, IsRelationalModel(m), ~Raises(m), NEW d
  PROVE  Made(Plan(m), Len(Plan(m)), d) = With(m, d)
<1> DEFINE n == Len(Plan(m))
<1>1. /\ n \in Nat /\ Objects(m) \in Nat /\ Len(m.relationships) \in Nat
      /\ n = Objects(m) + Len(m.relationships)
  BY PlanShape, PlanOperations
<1>2. n \in 0..n /\ n \in Objects(m)..n
  BY <1>1
<1>3. /\ TablesIn(Plan(m), n) = BuiltTables(m)
      /\ IndexesIn(Plan(m), n) = BuiltIndexes(m)
      /\ KeysIn(Plan(m), n) = BuiltKeys(m)
  <2>1. /\ TablesIn(Plan(m), n) \subseteq BuiltTables(m)
        /\ IndexesIn(Plan(m), n) \subseteq BuiltIndexes(m)
        /\ KeysIn(Plan(m), n) \subseteq BuiltKeys(m)
    BY <1>2, MadeIsBuilt
  <2>2. /\ BuiltTables(m) \subseteq TablesIn(Plan(m), n)
        /\ BuiltIndexes(m) \subseteq IndexesIn(Plan(m), n)
        /\ BuiltKeys(m) \subseteq KeysIn(Plan(m), n)
    BY <1>2, BuiltIsMade
  <2> QED
    BY <2>1, <2>2
<1> QED
  BY <1>3, WithIs DEF Made

(* The names of a model, and how its parts fit together, by place.         *)
LEMMA NamesOfParts ==
  ASSUME NEW m
  PROVE  \A i \in DOMAIN m.tables :
           /\ m.tables[i].name \in Names(m)
           /\ \A j \in DOMAIN m.tables[i].indexes :
                m.tables[i].indexes[j].name \in Names(m)
<1>1. ASSUME NEW i \in DOMAIN m.tables
      PROVE  /\ m.tables[i].name \in Names(m)
             /\ \A x \in ToSet(m.tables[i].indexes) : x.name \in Names(m)
  BY DEF Names
<1> QED
  BY <1>1 DEF ToSet

(* Keys and indexes are on columns of their table.                         *)
LEMMA WellFormedTables ==
  ASSUME NEW m, WellFormed(m), NEW i \in DOMAIN m.tables
  PROVE  /\ PrimaryKey(m.tables[i]) \subseteq m.tables[i].columns
         /\ \A j \in DOMAIN m.tables[i].indexes :
              m.tables[i].indexes[j].columns \subseteq m.tables[i].columns
<1>1. m.tables[i] \in ToSet(m.tables)
  BY DEF ToSet
<1>2. \A j \in DOMAIN m.tables[i].indexes :
        m.tables[i].indexes[j] \in ToSet(m.tables[i].indexes)
  BY DEF ToSet
<1> QED
  BY <1>1, <1>2 DEF WellFormed

(* A foreign key starts at columns of a table, as many as it points to.    *)
LEMMA WellFormedSources ==
  ASSUME NEW m, WellFormed(m), NEW r \in ToSet(m.relationships)
  PROVE  /\ Len(r.source_columns) = Len(r.target_columns)
         /\ \E t \in ToSet(m.tables) :
              t.name = r.source_table /\ ToSet(r.source_columns) \subseteq t.columns
BY DEF WellFormed

(* A foreign key points to a key of a table.                               *)
LEMMA WellFormedTargets ==
  ASSUME NEW m, WellFormed(m), NEW r \in ToSet(m.relationships)
  PROVE  \E t \in ToSet(m.tables) :
           /\ t.name = r.target_table
           /\ \/ ToSet(r.target_columns) = PrimaryKey(t)
              \/ \E c \in t.unique : ToSet(r.target_columns) = {c}
              \/ \E x \in ToSet(t.indexes) :
                   x.unique /\ x.columns = ToSet(r.target_columns)
BY DEF WellFormed

(* A table gives each name to one foreign key.                             *)
LEMMA WellFormedKeyNames ==
  ASSUME NEW m, WellFormed(m),
         NEW h \in DOMAIN m.relationships, NEW k \in DOMAIN m.relationships,
         m.relationships[h].source_table = m.relationships[k].source_table,
         m.relationships[h].name = m.relationships[k].name
  PROVE  h = k
<1> DEFINE pairs == [g \in DOMAIN m.relationships |->
             <<m.relationships[g].source_table, m.relationships[g].name>>]
<1>1. IsInjective(pairs)
  BY DEF WellFormed
<1>2. pairs[h] = pairs[k] /\ h \in DOMAIN pairs /\ k \in DOMAIN pairs
  OBVIOUS
<1> HIDE DEF pairs
<1> QED
  BY <1>1, <1>2 DEF IsInjective

(* What a plan has created before a place is called as its statements say. *)
LEMMA RelationsOfMade ==
  ASSUME NEW plan, NEW k \in Nat, NEW d
  PROVE  \A n \in Relations(Made(plan, k, d)) :
           n \in Relations(d) \/ \E h \in 1..k : n = NameOf(plan[h])
<1>1. /\ \A h \in Doing("create_table", plan, k) :
           h \in 1..k /\ TableOf(plan[h]).name = NameOf(plan[h])
      /\ \A h \in Doing("create_index", plan, k) :
           h \in 1..k /\ IndexOf(plan[h]).name = NameOf(plan[h])
  BY DEF Doing, NameOf, TableOf, IndexOf
<1>2. /\ \A t \in TablesIn(plan, k) : \E h \in 1..k : t.name = NameOf(plan[h])
      /\ \A x \in IndexesIn(plan, k) : \E h \in 1..k : x.name = NameOf(plan[h])
  BY <1>1 DEF TablesIn, IndexesIn
<1> HIDE DEF NameOf
<1> QED
  BY <1>2 DEF Made, Relations, TableNames

(* The plan's order is one that PostgreSQL can execute: where its names    *)
(* are free, every statement of a well-formed model is in place when its   *)
(* turn comes.                                                             *)
LEMMA WellFormedRunsThrough ==
  ASSUME NEW m, IsRelationalModel(m), WellFormed(m),
         NEW d, IsCatalog(d), Names(m) \cap Relations(d) = {}
  PROVE  RunsThrough(Plan(m), d)
<1> DEFINE plan == Plan(m)
           n == Objects(m)
           R == Len(m.relationships)
<1>0. ~Raises(m)
  BY DEF WellFormed
<1>1. n \in Nat /\ R \in Nat /\ Len(plan) = n + R /\ DOMAIN m.relationships = 1..R
  BY <1>0, PlanShape
<1>2. \A l, h \in 1..n : NameOf(plan[l]) = NameOf(plan[h]) => l = h
  BY <1>0, PlanShape
<1>3. ASSUME NEW l \in 1..n
      PROVE  \E i \in DOMAIN m.tables :
               \/ plan[l] = CreateTable(m.tables[i])
               \/ /\ \E j \in DOMAIN m.tables[i].indexes : plan[l] = IndexIn(m, i, j)
                  /\ \E h \in 1..l : plan[h] = CreateTable(m.tables[i])
  BY <1>0, PlanShape
<1>4. \A l \in 1..Len(plan) : l \in 1..n \/ \E k \in 1..R :
        l = n + k /\ plan[l] = AddForeignKey(m.relationships[k])
  BY <1>0, PlanOperations
<1> HIDE DEF plan, n, R
<1>5. ASSUME NEW l \in 1..n, NameOf(plan[l]) \in Names(m)
      PROVE  NameOf(plan[l]) \notin Relations(Made(plan, l - 1, d))
  <2>1. l - 1 \in Nat /\ \A h \in 1..(l - 1) : h \in 1..n /\ h # l
    BY <1>1
  <2>2. \A h \in 1..(l - 1) : NameOf(plan[l]) # NameOf(plan[h])
    BY <1>2, <2>1
  <2>3. NameOf(plan[l]) \notin Relations(d)
    BY <1>5
  <2> QED
    BY <2>1, <2>2, <2>3, RelationsOfMade
<1>6. ASSUME NEW l \in 1..n, NEW i \in DOMAIN m.tables, plan[l] = CreateTable(m.tables[i])
      PROVE  Runs(plan[l], Made(plan, l - 1, d))
  <2>1. /\ plan[l].operation = "create_table" /\ plan[l].target = m.tables[i].name
        /\ NameOf(plan[l]) = m.tables[i].name
        /\ plan[l].key \subseteq plan[l].columns
    BY <1>6, WellFormedTables DEF CreateTable, NameOf
  <2>2. plan[l].target \notin Relations(Made(plan, l - 1, d))
    BY <1>5, <2>1, NamesOfParts
  <2> QED
    BY <2>1, <2>2 DEF Runs
<1>7. ASSUME NEW l \in 1..n, NEW i \in DOMAIN m.tables,
             NEW j \in DOMAIN m.tables[i].indexes, plan[l] = IndexIn(m, i, j),
             NEW h \in 1..l, plan[h] = CreateTable(m.tables[i])
      PROVE  Runs(plan[l], Made(plan, l - 1, d))
  <2> DEFINE t == m.tables[i]
  <2>1. /\ plan[l].operation = "create_index" /\ plan[l].target = t.name
        /\ plan[l].name = t.indexes[j].name /\ NameOf(plan[l]) = t.indexes[j].name
        /\ plan[l].columns \subseteq t.columns
    <3>1. plan[l] = [operation |-> "create_index", target |-> t.name,
                     name |-> t.indexes[j].name, columns |-> t.indexes[j].columns,
                     is_unique |-> t.indexes[j].unique]
      BY <1>7 DEF IndexIn, CreateIndexes
    <3>2. t.indexes[j].columns \subseteq t.columns
      BY WellFormedTables
    <3> QED
      BY <3>1, <3>2 DEF NameOf
  <2>2. plan[l].name \notin Relations(Made(plan, l - 1, d))
    BY <1>5, <2>1, NamesOfParts
  <2>3. plan[h].operation = "create_table" /\ TableOf(plan[h]) = BuiltTable(t)
    BY <1>7, BuiltByStatements
  <2>4. h \in 1..(l - 1)
    BY <1>1, <2>1, <2>3
  <2>5. BuiltTable(t) \in Made(plan, l - 1, d).tables
    BY <2>3, <2>4 DEF Made, TablesIn, Doing
  <2>6. BuiltTable(t).name = t.name /\ BuiltTable(t).columns = t.columns
    BY DEF BuiltTable
  <2> QED
    BY <2>1, <2>2, <2>5, <2>6 DEF Runs
<1>8. ASSUME NEW k \in 1..R, plan[n + k] = AddForeignKey(m.relationships[k])
      PROVE  Runs(plan[n + k], Made(plan, n + k - 1, d))
  <2> DEFINE r == m.relationships[k]
             s == plan[n + k]
             at == n + k - 1
             c == Made(plan, at, d)
  <2>1. /\ at \in n..Len(plan) /\ at \in Nat
        /\ r \in ToSet(m.relationships)
    BY <1>1 DEF ToSet
  <2>2. BuiltTables(m) \subseteq c.tables /\ BuiltIndexes(m) \subseteq c.indexes
    <3>1. /\ BuiltTables(m) \subseteq TablesIn(plan, at)
          /\ BuiltIndexes(m) \subseteq IndexesIn(plan, at)
      BY <1>0, <2>1, BuiltIsMade DEF n, plan
    <3> QED
      BY <3>1 DEF Made
  <2>3. /\ s.operation = "add_foreign_key" /\ s.target = r.source_table
        /\ s.name = r.name /\ s.references = r.target_table
        /\ s.source_columns = r.source_columns /\ s.target_columns = r.target_columns
    BY <1>8 DEF AddForeignKey
  <2>4. \A t \in ToSet(m.tables) :
          /\ BuiltTable(t) \in c.tables /\ BuiltTable(t).name = t.name
          /\ BuiltTable(t).columns = t.columns
          /\ BuiltTable(t).key = PrimaryKey(t)
          /\ BuiltTable(t).unique = {{x} : x \in t.unique}
    BY <2>2 DEF BuiltTables, BuiltTable
  <2>5. \E t \in c.tables :
          t.name = s.target /\ ToSet(s.source_columns) \subseteq t.columns
    <3>1. PICK t \in ToSet(m.tables) :
            t.name = r.source_table /\ ToSet(r.source_columns) \subseteq t.columns
      BY <2>1, WellFormedSources
    <3> QED
      BY <2>3, <2>4, <3>1
  <2>6. \E t \in c.tables :
          t.name = s.references /\ IsKey(ToSet(s.target_columns), t, c)
    <3>1. PICK t \in ToSet(m.tables) :
            /\ t.name = r.target_table
            /\ \/ ToSet(r.target_columns) = PrimaryKey(t)
               \/ \E x \in t.unique : ToSet(r.target_columns) = {x}
               \/ \E x \in ToSet(t.indexes) :
                    x.unique /\ x.columns = ToSet(r.target_columns)
      BY <2>1, WellFormedTargets
    <3>2. \A x \in ToSet(t.indexes) :
            /\ BuiltIndex(t, x) \in c.indexes /\ BuiltIndex(t, x).table = t.name
            /\ BuiltIndex(t, x).columns = x.columns
            /\ BuiltIndex(t, x).is_unique = x.unique
      BY <2>2 DEF BuiltIndexes, BuiltIndex
    <3>3. IsKey(ToSet(r.target_columns), BuiltTable(t), c)
      <4>1. CASE ToSet(r.target_columns) = PrimaryKey(t)
        BY <2>4, <4>1 DEF IsKey
      <4>2. CASE \E x \in t.unique : ToSet(r.target_columns) = {x}
        BY <2>4, <4>2 DEF IsKey
      <4>3. CASE \E x \in ToSet(t.indexes) :
                   x.unique /\ x.columns = ToSet(r.target_columns)
        BY <2>4, <3>2, <4>3 DEF IsKey
      <4> QED
        BY <3>1, <4>1, <4>2, <4>3
    <3> QED
      BY <2>3, <2>4, <3>1, <3>3
  <2>7. ASSUME NEW f \in c.foreign_keys, f.table = s.target, f.name = s.name
        PROVE  FALSE
    <3>1. f \in d.foreign_keys \/ f \in KeysIn(plan, at)
      BY DEF Made
    <3>2. CASE f \in d.foreign_keys
      <4>1. f.table \in Relations(d)
        BY <3>2 DEF IsCatalog, Relations
      <4>2. PICK t \in ToSet(m.tables) : t.name = r.source_table
        BY <2>1, WellFormedSources
      <4>3. t.name \in Names(m)
        BY NamesOfParts DEF ToSet
      <4> QED
        BY <2>3, <2>7, <4>1, <4>2, <4>3
    <3>3. CASE f \in KeysIn(plan, at)
      <4>1. PICK h \in 1..at : plan[h].operation = "add_foreign_key" /\ f = KeyOf(plan[h])
        BY <3>3 DEF KeysIn, Doing
      <4>2. h \notin 1..n
        BY <1>3, <4>1, BuiltByStatements
      <4>3. h \in 1..Len(plan)
        BY <1>1, <2>1
      <4>4. PICK g \in 1..R : h = n + g /\ plan[h] = AddForeignKey(m.relationships[g])
        BY <1>4, <4>2, <4>3
      <4>5. f.table = m.relationships[g].source_table /\ f.name = m.relationships[g].name
        BY <4>1, <4>4 DEF KeyOf, AddForeignKey
      <4>6. g = k
        <5>1. g \in DOMAIN m.relationships /\ k \in DOMAIN m.relationships
          BY <1>1
        <5>2. /\ m.relationships[g].source_table = m.relationships[k].source_table
              /\ m.relationships[g].name = m.relationships[k].name
          BY <2>3, <2>7, <4>5
        <5> QED
          BY <5>1, <5>2, WellFormedKeyNames
      <4> QED
        BY <1>1, <4>1, <4>4, <4>6
    <3> QED
      BY <3>1, <3>2, <3>3
  <2>8. Len(s.source_columns) = Len(s.target_columns)
    BY <2>1, <2>3, WellFormedSources
  <2>9. \A f \in c.foreign_keys : <<f.table, f.name>> # <<s.target, s.name>>
    BY <2>7
  <2> QED
    BY <2>3, <2>5, <2>6, <2>8, <2>9 DEF Runs
<1>9. ASSUME NEW l \in 1..Len(plan)
      PROVE  Runs(plan[l], Made(plan, l - 1, d))
  <2>1. CASE l \in 1..n
    BY <1>3, <1>6, <1>7, <2>1
  <2>2. CASE l \notin 1..n
    <3>1. PICK k \in 1..R : l = n + k /\ plan[l] = AddForeignKey(m.relationships[k])
      BY <1>4, <2>2
    <3>2. Runs(plan[n + k], Made(plan, n + k - 1, d))
      BY <1>8, <3>1
    <3>3. l - 1 = n + k - 1
      BY <1>1, <3>1
    <3>4. Runs(plan[l], Made(plan, n + k - 1, d))
      BY <3>1, <3>2, Zenon
    <3> QED
      BY <3>3, <3>4, Zenon
  <2> QED
    BY <2>1, <2>2
<1> QED
  BY <1>9 DEF RunsThrough, plan

(* The script of a model whose parts fit together, run by itself where its *)
(* names are free, never fails and builds that model and nothing else.     *)
THEOREM ScriptsBuildTheirModels == Spec => []ScriptBuildsTheModel
<1>1. ScriptInv => ScriptBuildsTheModel
  <2> DEFINE m == delivered[result.of].model
  <2> SUFFICES ASSUME ScriptInv, result.kind \in {"script", "upgrade"}, result.alone,
                      WellFormed(m), Names(m) \cap Relations(result.before) = {}
               PROVE  result.ok /\ result.after = With(m, result.before)
    BY DEF ScriptBuildsTheModel
  <2>1. /\ result.of \in DOMAIN delivered /\ IsCatalog(result.before)
        /\ result.ok <=> RunsThrough(Plan(m), result.before)
        /\ result.ok => result.after = Made(Plan(m), Len(Plan(m)), result.before)
    BY DEF ScriptInv, ResultInv
  <2>2. IsRelationalModel(m) /\ ~Raises(m)
    BY <2>1, DeliveredModels DEF ScriptInv
  <2> QED
    BY <2>1, <2>2, WellFormedRunsThrough, MadeAll
<1> QED
  BY <1>1, ScriptInvariance, PTL

-----------------------------------------------------------------------------
(* What is read after a script.                                            *)

(* A script that ran through has made each table under a name that nothing *)
(* else has.                                                               *)
LEMMA TablesOfTheirOwn ==
  ASSUME NEW m, IsRelationalModel(m), ~Raises(m), NEW d,
         RunsThrough(Plan(m), d), NEW t \in ToSet(m.tables)
  PROVE  /\ t.name \notin Relations(d)
         /\ PrimaryKey(t) \subseteq t.columns
         /\ BuiltTable(t) \in With(m, d).tables
         /\ \A u \in With(m, d).tables : u.name = t.name => u = BuiltTable(t)
<1> DEFINE plan == Plan(m)
           N == Len(plan)
<1>1. /\ N \in Nat /\ Objects(m) \in Nat /\ Len(m.relationships) \in Nat
      /\ N = Objects(m) + Len(m.relationships)
  BY PlanShape, PlanOperations
<1>2. PICK l \in 1..N : plan[l] = CreateTable(t)
  <2>1. PICK i \in DOMAIN m.tables : t = m.tables[i]
    BY DEF ToSet
  <2>2. PICK l \in 1..Objects(m) : plan[l] = CreateTable(t)
    BY <2>1, PlanShape
  <2>3. l \in 1..N
    BY <1>1
  <2> QED
    BY <2>2, <2>3
<1>3. Made(plan, N, d) = With(m, d)
  BY MadeAll
<1> HIDE DEF plan, N
<1>4. /\ plan[l].operation = "create_table" /\ plan[l].target = t.name
      /\ plan[l].key = PrimaryKey(t) /\ plan[l].columns = t.columns
      /\ TableOf(plan[l]) = BuiltTable(t)
  <2>1. /\ plan[l].operation = "create_table" /\ plan[l].target = t.name
        /\ plan[l].key = PrimaryKey(t) /\ plan[l].columns = t.columns
    BY <1>2 DEF CreateTable
  <2>2. TableOf(plan[l]) = BuiltTable(t)
    BY <1>2, BuiltByStatements
  <2> QED
    BY <2>1, <2>2
<1>5. \A h \in 1..N : plan[h].operation = "create_table" =>
        /\ plan[h].target \notin Relations(Made(plan, h - 1, d))
        /\ plan[h].key \subseteq plan[h].columns
  BY DEF RunsThrough, Runs, plan, N
<1>6. \A h \in 1..N : plan[h].operation = "create_table" =>
        \A u \in Made(plan, h - 1, d).tables : u.name # plan[h].target
  BY <1>5 DEF Relations, TableNames
<1>7. BuiltTable(t) \in With(m, d).tables
  BY WithIs DEF BuiltTables
<1>8. t.name \notin Relations(d) /\ PrimaryKey(t) \subseteq t.columns
  <2>1. \A n \in Relations(d) : n \in Relations(Made(plan, l - 1, d))
    BY DEF Made, Relations, TableNames
  <2> QED
    BY <1>2, <1>4, <1>5, <2>1
<1>9. ASSUME NEW u \in With(m, d).tables, u.name = t.name
      PROVE  u = BuiltTable(t)
  <2>1. u \in d.tables \/ u \in TablesIn(plan, N)
    BY <1>3 DEF Made
  <2>2. u \notin d.tables
    BY <1>8, <1>9 DEF Relations, TableNames
  <2>3. PICK h \in 1..N : plan[h].operation = "create_table" /\ u = TableOf(plan[h])
    BY <2>1, <2>2 DEF TablesIn, Doing
  <2>4. u.name = plan[h].target /\ BuiltTable(t).name = t.name
    BY <2>3 DEF TableOf, BuiltTable
  <2>5. ~(h < l)
    <3>1. SUFFICES ASSUME h < l PROVE FALSE
      OBVIOUS
    <3>2. h \in 1..(l - 1)
      BY <1>1, <1>2, <2>3, <3>1
    <3>3. u \in Made(plan, l - 1, d).tables
      BY <2>3, <3>2 DEF Made, TablesIn, Doing
    <3> QED
      BY <1>2, <1>4, <1>6, <1>9, <3>3
  <2>6. ~(l < h)
    <3>1. SUFFICES ASSUME l < h PROVE FALSE
      OBVIOUS
    <3>2. l \in 1..(h - 1)
      BY <1>1, <1>2, <2>3, <3>1
    <3>3. BuiltTable(t) \in Made(plan, h - 1, d).tables
      BY <1>4, <3>2 DEF Made, TablesIn, Doing
    <3> QED
      BY <1>6, <1>9, <2>3, <2>4, <3>3
  <2>7. h = l
    BY <1>1, <1>2, <2>3, <2>5, <2>6
  <2> QED
    BY <1>4, <2>3, <2>7
<1> QED
  BY <1>7, <1>8, <1>9

(* What a schema says of a table that is the only one of its name.         *)
LEMMA FactsOfOneTable ==
  ASSUME NEW d, NEW b \in d.tables, \A u \in d.tables : u.name = b.name => u = b
  PROVE  \A part \in PartNames : \A f :
           f \in Schema(d)[part] /\ f[1] = b.name <=> f \in Facts(part, b, d)
<1> SUFFICES ASSUME NEW part \in PartNames, NEW f
             PROVE  f \in Schema(d)[part] /\ f[1] = b.name <=> f \in Facts(part, b, d)
  OBVIOUS
<1>1. ASSUME f \in Schema(d)[part], f[1] = b.name
      PROVE  f \in Facts(part, b, d)
  <2>1. PICK u \in d.tables : f \in Facts(part, u, d)
    BY <1>1, SchemaParts
  <2>2. f[1] = u.name
    BY <2>1, FactsNameTheirTable
  <2> QED
    BY <1>1, <2>1, <2>2
<1>2. ASSUME f \in Facts(part, b, d)
      PROVE  f \in Schema(d)[part] /\ f[1] = b.name
  BY <1>2, SchemaParts, FactsNameTheirTable
<1> QED
  BY <1>1, <1>2

Tag(c, pk, unique, not_null) ==
  [column |-> c, pk |-> pk, unique |-> unique, not_null |-> not_null]

(* The prompt about a built table.                                         *)
LEMMA TagsOfOneTable ==
  ASSUME NEW t, t.unique \subseteq t.columns,
         NEW d, BuiltTable(t) \in d.tables,
         \A u \in d.tables : u.name = t.name => u = BuiltTable(t)
  PROVE  CompactTags(Schema(d), t.name) =
           {Tag(c, c \in PrimaryKey(t), c \in t.unique, c \in t.required \cup PrimaryKey(t))
              : c \in t.columns}
<1> DEFINE S == Schema(d)
           n == t.name
           b == BuiltTable(t)
           Said(c) == Tag(c, c \in PrimaryKey(t), c \in t.unique,
                          c \in t.required \cup PrimaryKey(t))
           Column(c) == <<n, c, c \in t.required \cup PrimaryKey(t)>>
           Told1(f) == Tag(f[2], <<n, f[2]>> \in S["keys"], <<n, f[2]>> \in S["unique"], f[3])
<1>1. /\ b.name = n /\ b.columns = t.columns /\ b.key = PrimaryKey(t)
      /\ b.required = t.required \cup PrimaryKey(t)
      /\ b.unique = {{c} : c \in t.unique}
  BY DEF BuiltTable
<1>2. \A part \in PartNames : \A f :
        f \in S[part] /\ f[1] = n <=> f \in Facts(part, b, d)
  BY <1>1, FactsOfOneTable
<1>3. CompactTags(S, n) = {Told1(f) : f \in {g \in S["columns"] : g[1] = n}}
  BY DEF CompactTags, Tag
<1> HIDE DEF S, b
<1>4. \A c : <<n, c>> \in S["keys"] <=> c \in PrimaryKey(t)
  <2>1. Facts("keys", b, d) = {<<n, c>> : c \in PrimaryKey(t)}
    BY <1>1 DEF Facts
  <2> QED
    BY <1>2, <2>1, PartsAre
<1>5. \A c : <<n, c>> \in S["unique"] <=> c \in t.unique
  <2>1. Facts("unique", b, d) = {<<n, c>> : c \in {k \in t.columns : {k} \in b.unique}}
    BY <1>1 DEF Facts
  <2>2. \A k : {k} \in b.unique <=> k \in t.unique
    BY <1>1
  <2>3. \A c : <<n, c>> \in Facts("unique", b, d) <=> c \in t.columns /\ {c} \in b.unique
    BY <2>1
  <2>4. \A c : <<n, c>> \in S["unique"] <=> <<n, c>> \in Facts("unique", b, d)
    BY <1>2, PartsAre
  <2> QED
    BY <2>2, <2>3, <2>4
<1>6. \A f : f \in S["columns"] /\ f[1] = n <=>
        \E c \in t.columns : f = Column(c)
  <2>1. Facts("columns", b, d) =
          {Column(c) : c \in t.columns}
    BY <1>1 DEF Facts
  <2> QED
    BY <1>2, <2>1, PartsAre
<1>7. \A c : Told1(Column(c)) = Said(c)
  BY <1>4, <1>5 DEF Tag
<1>8. {Told1(f) : f \in {g \in S["columns"] : g[1] = n}} = {Said(c) : c \in t.columns}
  <2> HIDE DEF Told1, Said, Column
  <2> QED
    BY <1>6, <1>7
<1> QED
  BY <1>3, <1>8 DEF S

(* A session that reads the schema after a script is told of each of its   *)
(* tables what the diagram's prompt said of it, if the two notations of    *)
(* the primary key agree; otherwise of the list.                           *)
THEOREM BuiltTablesAreShown == Spec => []ShownAsBuilt
<1>1. ScriptInv => ShownAsBuilt
  <2> DEFINE m == delivered[result.of].model
  <2> SUFFICES ASSUME ScriptInv, reading.phase = "read", ~reading.lost,
                      reading.since = Schema(db),
                      result.kind \in {"script", "upgrade"}, result.alone,
                      result.ok, result.after = db,
                      NEW t \in ToSet(m.tables)
               PROVE  LET told == CompactTags(reading.seen, t.name)
                          key == PrimaryKey(t)
                      IN IF t.flagged = key /\ key \subseteq t.required
                         THEN told = DiagramTags(t)
                         ELSE {c.column : c \in {d \in told : d.pk}} = key
    BY DEF ShownAsBuilt
  <2>1. /\ result.of \in DOMAIN delivered
        /\ RunsThrough(Plan(m), result.before)
        /\ db = Made(Plan(m), Len(Plan(m)), result.before)
    BY DEF ScriptInv, ResultInv
  <2>2. IsRelationalModel(m) /\ ~Raises(m)
    BY <2>1, DeliveredModels DEF ScriptInv
  <2>3. t.unique \subseteq t.columns
    BY <2>2 DEF IsRelationalModel
  <2>4. \A part \in PartNames : reading.seen[part] = Schema(db)[part]
    <3>1. Within(Schema(db), reading.seen) /\ Within(reading.seen, Schema(db))
      BY ReadingIsInTime DEF ScriptInv, SchemaInTime
    <3>2. /\ DOMAIN reading.seen = Sections /\ DOMAIN Schema(db) = Sections
          /\ \A part \in PartNames : part \in Sections
      BY SchemaParts DEF ScriptInv, ReadingInv, ReadingShape, Sections
    <3> QED
      BY <3>1, <3>2 DEF Within
  <2> HIDE DEF m
  <2>5. /\ PrimaryKey(t) \subseteq t.columns
        /\ BuiltTable(t) \in db.tables
        /\ \A u \in db.tables : u.name = t.name => u = BuiltTable(t)
    <3>1. db = With(m, result.before)
      BY <2>1, <2>2, MadeAll
    <3> QED
      BY <2>1, <2>2, <3>1, TablesOfTheirOwn
  <2> DEFINE key == PrimaryKey(t)
             told == CompactTags(reading.seen, t.name)
             Said(c) == Tag(c, c \in key, c \in t.unique, c \in t.required \cup key)
  <2>6. CompactTags(reading.seen, t.name) = CompactTags(Schema(db), t.name)
    <3> DEFINE Shown(keys, unique, columns) ==
                 {[column |-> f[2], pk |-> <<t.name, f[2]>> \in keys,
                   unique |-> <<t.name, f[2]>> \in unique, not_null |-> f[3]]
                    : f \in {g \in columns : g[1] = t.name}}
    <3>1. /\ reading.seen["keys"] = Schema(db)["keys"]
          /\ reading.seen["unique"] = Schema(db)["unique"]
          /\ reading.seen["columns"] = Schema(db)["columns"]
      BY <2>4, PartsAre
    <3>2. \A s : CompactTags(s, t.name) = Shown(s["keys"], s["unique"], s["columns"])
      BY DEF CompactTags
    <3> HIDE DEF Shown
    <3> QED
      BY <3>1, <3>2
  <2>7. told = {Said(c) : c \in t.columns}
    <3>1. PICK d : d = db
      OBVIOUS
    <3>2. CompactTags(Schema(d), t.name) = {Said(c) : c \in t.columns}
      BY <2>3, <2>5, <3>1, TagsOfOneTable
    <3> QED
      BY <2>6, <3>1, <3>2
  <2> HIDE DEF told
  <2>8. CASE t.flagged = key /\ key \subseteq t.required
    <3>1. \A c : Said(c) = Tag(c, c \in t.flagged, c \in t.unique, c \in t.required)
      <4>1. t.required \cup key = t.required
        BY <2>8
      <4> QED
        BY <2>8, <4>1
    <3>2. DiagramTags(t) =
            {Tag(c, c \in t.flagged, c \in t.unique, c \in t.required) : c \in t.columns}
      BY DEF DiagramTags, Tag
    <3>3. told = DiagramTags(t)
      <4> HIDE DEF Said
      <4> QED
        BY <2>7, <3>1, <3>2
    <3> QED
      BY <2>8, <3>3 DEF told
  <2>9. CASE ~(t.flagged = key /\ key \subseteq t.required)
    <3>1. \A c : Said(c).column = c /\ (Said(c).pk <=> c \in key)
      BY DEF Tag
    <3> HIDE DEF Said
    <3>2. {c.column : c \in {d \in told : d.pk}} = {c \in t.columns : c \in key}
      BY <2>7, <3>1
    <3>3. {c \in t.columns : c \in key} = key
      BY <2>5
    <3> QED
      BY <2>9, <3>2, <3>3 DEF told
  <2> QED
    BY <2>8, <2>9
<1> QED
  BY <1>1, ScriptInvariance, PTL

-----------------------------------------------------------------------------
(* What a downgrade removes.                                               *)

(* Before its first statement a downgrade has dropped nothing.             *)
LEMMA UnmadeNothing ==
  ASSUME NEW back, NEW d, IsCatalog(d)
  PROVE  Unmade(back, 0, d) = d
<1>1. \A operation : Doing(operation, back, 0) = {}
  BY DEF Doing
<1>2. Unmade(back, 0, d) = [tables |-> {t \in d.tables : TRUE},
                            indexes |-> {x \in d.indexes : TRUE},
                            foreign_keys |-> {f \in d.foreign_keys : TRUE}]
  BY <1>1 DEF Unmade
<1>3. /\ {t \in d.tables : TRUE} = d.tables
      /\ {x \in d.indexes : TRUE} = d.indexes
      /\ {f \in d.foreign_keys : TRUE} = d.foreign_keys
  OBVIOUS
<1> QED
  BY <1>2, <1>3 DEF IsCatalog

(* Which statements do an operation, with one more of them.                *)
LEMMA DoingOneMore ==
  ASSUME NEW plan, NEW l \in Nat, l > 0
  PROVE  \A operation :
           Doing(operation, plan, l) =
             IF plan[l].operation = operation THEN Doing(operation, plan, l - 1) \cup {l}
             ELSE Doing(operation, plan, l - 1)
<1>1. 1..l = 1..(l - 1) \cup {l}
  OBVIOUS
<1> QED
  BY <1>1 DEF Doing

(* A statement of a downgrade removes what it drops.                       *)
LEMMA UnmadeStep ==
  ASSUME NEW back, NEW d, NEW l \in Nat, l > 0, back[l].operation \in Drops
  PROVE  Effect(back[l], Unmade(back, l - 1, d)) = Unmade(back, l, d)
<1> DEFINE s == back[l]
           c == Unmade(back, l - 1, d)
           tables == Doing("drop_table", back, l - 1)
           keys == Doing("drop_constraint", back, l - 1)
<1>1. c = [tables |-> c.tables, indexes |-> c.indexes, foreign_keys |-> c.foreign_keys]
  BY DEF Unmade
<1>2. /\ c.tables = {t \in d.tables : \A h \in tables : t.name # back[h].target}
      /\ c.indexes = {x \in d.indexes : \A h \in tables : x.table # back[h].target}
      /\ c.foreign_keys = {f \in d.foreign_keys :
           /\ \A h \in keys : <<f.table, f.name>> # <<back[h].target, back[h].name>>
           /\ \A h \in tables : back[h].target \notin {f.table, f.references}}
  BY DEF Unmade
<1>3. CASE s.operation = "drop_constraint"
  <2>1. Effect(s, c) = [tables |-> c.tables, indexes |-> c.indexes, foreign_keys |->
          {f \in c.foreign_keys : <<f.table, f.name>> # <<s.target, s.name>>}]
    <3> HIDE DEF c
    <3> QED
      BY <1>1, <1>3 DEF Effect
  <2>2. /\ Doing("drop_table", back, l) = tables
        /\ Doing("drop_constraint", back, l) = keys \cup {l}
    BY <1>3, DoingOneMore
  <2>3. Unmade(back, l, d) = [tables |-> c.tables, indexes |-> c.indexes,
          foreign_keys |-> {f \in d.foreign_keys :
            /\ \A h \in keys \cup {l} :
                 <<f.table, f.name>> # <<back[h].target, back[h].name>>
            /\ \A h \in tables : back[h].target \notin {f.table, f.references}}]
    BY <1>2, <2>2 DEF Unmade
  <2>4. {f \in c.foreign_keys : <<f.table, f.name>> # <<s.target, s.name>>} =
          {f \in d.foreign_keys :
            /\ \A h \in keys \cup {l} :
                 <<f.table, f.name>> # <<back[h].target, back[h].name>>
            /\ \A h \in tables : back[h].target \notin {f.table, f.references}}
    <3> HIDE DEF c, tables, keys
    <3> QED
      BY <1>2
  <2> QED
    BY <2>1, <2>3, <2>4
<1>4. CASE s.operation = "drop_table"
  <2>1. Effect(s, c) = [tables |-> {t \in c.tables : t.name # s.target},
                        indexes |-> {x \in c.indexes : x.table # s.target},
                        foreign_keys |-> {f \in c.foreign_keys :
                                            s.target \notin {f.table, f.references}}]
    BY <1>4 DEF Effect
  <2>2. /\ Doing("drop_table", back, l) = tables \cup {l}
        /\ Doing("drop_constraint", back, l) = keys
    BY <1>4, DoingOneMore
  <2>3. Unmade(back, l, d) =
          [tables |-> {t \in d.tables : \A h \in tables \cup {l} : t.name # back[h].target},
           indexes |-> {x \in d.indexes : \A h \in tables \cup {l} : x.table # back[h].target},
           foreign_keys |-> {f \in d.foreign_keys :
             /\ \A h \in keys : <<f.table, f.name>> # <<back[h].target, back[h].name>>
             /\ \A h \in tables \cup {l} : back[h].target \notin {f.table, f.references}}]
    BY <2>2 DEF Unmade
  <2>4. /\ {t \in c.tables : t.name # s.target} =
             {t \in d.tables : \A h \in tables \cup {l} : t.name # back[h].target}
        /\ {x \in c.indexes : x.table # s.target} =
             {x \in d.indexes : \A h \in tables \cup {l} : x.table # back[h].target}
        /\ {f \in c.foreign_keys : s.target \notin {f.table, f.references}} =
             {f \in d.foreign_keys :
               /\ \A h \in keys : <<f.table, f.name>> # <<back[h].target, back[h].name>>
               /\ \A h \in tables \cup {l} : back[h].target \notin {f.table, f.references}}
    <3> HIDE DEF c, tables, keys
    <3> QED
      BY <1>2
  <2> QED
    BY <2>1, <2>3, <2>4
<1> QED
  BY <1>3, <1>4 DEF Drops

(* A foreign key of a script that ran through starts at a table and has a  *)
(* name that the table had not given; the name of an index is no table's.  *)
LEMMA KeysOfTheirOwn ==
  ASSUME NEW m, IsRelationalModel(m), ~Raises(m), NEW d,
         RunsThrough(Plan(m), d), NEW r \in ToSet(m.relationships)
  PROVE  /\ \E t \in With(m, d).tables : t.name = r.source_table
         /\ \A f \in d.foreign_keys : ~(f.table = r.source_table /\ f.name = r.name)
<1> DEFINE plan == Plan(m)
           n == Objects(m)
           R == Len(m.relationships)
           N == Len(plan)
<1>1. n \in Nat /\ R \in Nat /\ N = n + R /\ DOMAIN m.relationships = 1..R
  BY PlanShape
<1>2. \A k \in 1..R : plan[n + k] = AddForeignKey(m.relationships[k])
  BY PlanShape
<1>3. Made(plan, N, d) = With(m, d)
  BY MadeAll
<1> HIDE DEF plan, n, R, N
<1>4. PICK k \in 1..R : r = m.relationships[k]
  BY <1>1 DEF ToSet
<1> DEFINE l == n + k
           c == Made(plan, l - 1, d)
<1>5. l \in 1..N /\ l - 1 \in 0..N /\ l \in Nat /\ N \in Nat
  BY <1>1
<1> HIDE DEF l
<1>6. /\ plan[l].operation = "add_foreign_key" /\ plan[l].target = r.source_table
      /\ plan[l].name = r.name
  <2>1. plan[l] = AddForeignKey(r)
    BY <1>2, <1>4 DEF l
  <2> QED
    BY <2>1 DEF AddForeignKey
<1>7. Runs(plan[l], c)
  BY <1>5 DEF RunsThrough, plan, N
<1>8. /\ \E t \in c.tables : t.name = r.source_table
      /\ \A f \in c.foreign_keys : <<f.table, f.name>> # <<r.source_table, r.name>>
  BY <1>6, <1>7 DEF Runs
<1>9. c.tables \subseteq With(m, d).tables
  <2>1. \A h \in 1..(l - 1) : h \in 1..N
    BY <1>5
  <2>2. TablesIn(plan, l - 1) \subseteq TablesIn(plan, N)
    BY <2>1 DEF TablesIn, Doing
  <2>3. c.tables \subseteq Made(plan, N, d).tables
    BY <2>2 DEF Made
  <2> QED
    BY <1>3, <2>3
<1>10. d.foreign_keys \subseteq c.foreign_keys
  BY DEF Made
<1> QED
  BY <1>8, <1>9, <1>10

(* No index of such a catalog has the name of one of the model's tables.   *)
LEMMA IndexesOfTheirOwn ==
  ASSUME NEW m, IsRelationalModel(m), ~Raises(m), NEW d,
         RunsThrough(Plan(m), d), NEW t \in ToSet(m.tables),
         NEW x \in With(m, d).indexes
  PROVE  x.name # t.name
<1> DEFINE plan == Plan(m)
           N == Len(plan)
<1>1. /\ N \in Nat /\ Objects(m) \in Nat /\ Len(m.relationships) \in Nat
      /\ N = Objects(m) + Len(m.relationships)
  BY PlanShape, PlanOperations
<1>2. PICK l \in 1..N : plan[l] = CreateTable(t)
  <2>1. PICK i \in DOMAIN m.tables : t = m.tables[i]
    BY DEF ToSet
  <2>2. PICK l \in 1..Objects(m) : plan[l] = CreateTable(t)
    BY <2>1, PlanShape
  <2>3. l \in 1..N
    BY <1>1
  <2> QED
    BY <2>2, <2>3
<1>3. Made(plan, N, d) = With(m, d)
  BY MadeAll
<1> HIDE DEF plan, N
<1>4. /\ plan[l].operation = "create_table" /\ plan[l].target = t.name
      /\ TableOf(plan[l]).name = t.name
  BY <1>2 DEF CreateTable, TableOf
<1>5. t.name \notin Relations(Made(plan, l - 1, d))
  BY <1>2, <1>4 DEF RunsThrough, Runs, plan, N
<1>6. SUFFICES ASSUME x.name = t.name PROVE FALSE
  OBVIOUS
<1>7. x \in d.indexes \/ x \in IndexesIn(plan, N)
  BY <1>3 DEF Made
<1>8. CASE x \in d.indexes
  BY <1>5, <1>6, <1>8 DEF Made, Relations
<1>9. CASE x \in IndexesIn(plan, N)
  <2>1. PICK h \in 1..N : plan[h].operation = "create_index" /\ x = IndexOf(plan[h])
    BY <1>9 DEF IndexesIn, Doing
  <2>2. plan[h].name = t.name
    BY <1>6, <2>1 DEF IndexOf
  <2>3. plan[h].name \notin Relations(Made(plan, h - 1, d))
    BY <2>1 DEF RunsThrough, Runs, plan, N
  <2>4. CASE h < l
    <3>1. h \in 1..(l - 1)
      BY <1>1, <1>2, <2>1, <2>4
    <3>2. x \in Made(plan, l - 1, d).indexes
      BY <2>1, <3>1 DEF Made, IndexesIn, Doing
    <3> QED
      BY <1>5, <1>6, <3>2 DEF Relations
  <2>5. CASE l < h
    <3>1. l \in 1..(h - 1)
      BY <1>1, <1>2, <2>1, <2>5
    <3>2. TableOf(plan[l]) \in Made(plan, h - 1, d).tables
      BY <1>4, <3>1 DEF Made, TablesIn, Doing
    <3>3. t.name \in Relations(Made(plan, h - 1, d))
      BY <1>4, <3>2 DEF Relations, TableNames
    <3> QED
      BY <2>2, <2>3, <3>3
  <2>6. h # l
    BY <1>4, <2>1
  <2> QED
    BY <1>1, <1>2, <2>1, <2>4, <2>5, <2>6
<1> QED
  BY <1>7, <1>8, <1>9

(* The statements of a downgrade, by what they drop.                       *)
LEMMA DowngradeDrops ==
  ASSUME NEW m, IsRelationalModel(m)
  PROVE  LET back == Downgrade(m) IN
         /\ Len(back) \in Nat
         /\ \A l \in 1..Len(back) :
              \/ /\ back[l].operation = "drop_constraint"
                 /\ Doing("drop_table", back, l - 1) = {}
                 /\ \E r \in ToSet(m.relationships) :
                      back[l].target = r.source_table /\ back[l].name = r.name
              \/ /\ back[l].operation = "drop_table"
                 /\ \E t \in ToSet(m.tables) : back[l].target = t.name
         /\ \A t \in ToSet(m.tables) :
              \E l \in Doing("drop_table", back, Len(back)) : back[l].target = t.name
         /\ \A r \in ToSet(m.relationships) :
              \E l \in Doing("drop_constraint", back, Len(back)) :
                back[l].target = r.source_table /\ back[l].name = r.name
<1> DEFINE back == Downgrade(m)
           R == Len(m.relationships)
           N == Len(m.tables)
<1>1. /\ R \in Nat /\ N \in Nat /\ Len(back) = R + N
      /\ DOMAIN m.tables = 1..N /\ DOMAIN m.relationships = 1..R
  BY DowngradeShape
<1>2. \A k \in 1..R : back[k] = DropConstraint(m.relationships[R + 1 - k])
  BY DowngradeShape
<1>3. \A i \in 1..N : back[R + i] = DropTable(m.tables[N + 1 - i])
  BY DowngradeShape
<1> HIDE DEF back, R, N
<1>4. ASSUME NEW k \in 1..R
      PROVE  /\ back[k].operation = "drop_constraint"
             /\ back[k].target = m.relationships[R + 1 - k].source_table
             /\ back[k].name = m.relationships[R + 1 - k].name
  <2>1. back[k] = DropConstraint(m.relationships[R + 1 - k])
    BY <1>2
  <2>2. \A r : /\ DropConstraint(r).operation = "drop_constraint"
               /\ DropConstraint(r).target = r.source_table
               /\ DropConstraint(r).name = r.name
    BY DEF DropConstraint
  <2> QED
    BY <2>1, <2>2
<1>5. ASSUME NEW i \in 1..N
      PROVE  /\ back[R + i].operation = "drop_table"
             /\ back[R + i].target = m.tables[N + 1 - i].name
  <2>1. back[R + i] = DropTable(m.tables[N + 1 - i])
    BY <1>3
  <2>2. \A t : DropTable(t).operation = "drop_table" /\ DropTable(t).target = t.name
    BY DEF DropTable
  <2> QED
    BY <2>1, <2>2
<1>6. ASSUME NEW l \in 1..Len(back)
      PROVE  \/ /\ back[l].operation = "drop_constraint"
                /\ Doing("drop_table", back, l - 1) = {}
                /\ \E r \in ToSet(m.relationships) :
                     back[l].target = r.source_table /\ back[l].name = r.name
             \/ /\ back[l].operation = "drop_table"
                /\ \E t \in ToSet(m.tables) : back[l].target = t.name
  <2>1. CASE l \in 1..R
    <3>1. \A h \in 1..(l - 1) : h \in 1..R
      BY <1>1, <2>1
    <3>2. Doing("drop_table", back, l - 1) = {}
      BY <1>4, <3>1 DEF Doing
    <3>3. m.relationships[R + 1 - l] \in ToSet(m.relationships)
      <4>1. R + 1 - l \in DOMAIN m.relationships
        BY <1>1, <2>1
      <4> QED
        BY <4>1 DEF ToSet
    <3> QED
      BY <1>4, <2>1, <3>2, <3>3
  <2>2. CASE l \notin 1..R
    <3>1. PICK i \in 1..N : l = R + i
      <4>1. l - R \in 1..N /\ l = R + (l - R)
        BY <1>1, <2>2
      <4> QED
        BY <4>1
    <3>2. m.tables[N + 1 - i] \in ToSet(m.tables)
      <4>1. N + 1 - i \in DOMAIN m.tables
        BY <1>1, <3>1
      <4> QED
        BY <4>1 DEF ToSet
    <3> QED
      BY <1>5, <3>1, <3>2
  <2> QED
    BY <2>1, <2>2
<1>7. ASSUME NEW t \in ToSet(m.tables)
      PROVE  \E l \in Doing("drop_table", back, Len(back)) : back[l].target = t.name
  <2>1. PICK j \in 1..N : t = m.tables[j]
    BY <1>1 DEF ToSet
  <2>2. N + 1 - j \in 1..N /\ N + 1 - (N + 1 - j) = j /\ R + (N + 1 - j) \in 1..Len(back)
    BY <1>1
  <2>3. /\ back[R + (N + 1 - j)].operation = "drop_table"
        /\ back[R + (N + 1 - j)].target = m.tables[N + 1 - (N + 1 - j)].name
    BY <1>5, <2>2
  <2>4. R + (N + 1 - j) \in Doing("drop_table", back, Len(back))
    BY <2>2, <2>3 DEF Doing
  <2> QED
    BY <2>1, <2>2, <2>3, <2>4
<1>8. ASSUME NEW r \in ToSet(m.relationships)
      PROVE  \E l \in Doing("drop_constraint", back, Len(back)) :
               back[l].target = r.source_table /\ back[l].name = r.name
  <2>1. PICK j \in 1..R : r = m.relationships[j]
    BY <1>1 DEF ToSet
  <2>2. R + 1 - j \in 1..R /\ R + 1 - (R + 1 - j) = j /\ R + 1 - j \in 1..Len(back)
    BY <1>1
  <2>3. /\ back[R + 1 - j].operation = "drop_constraint"
        /\ back[R + 1 - j].target = r.source_table
        /\ back[R + 1 - j].name = r.name
    BY <1>4, <2>1, <2>2
  <2>4. R + 1 - j \in Doing("drop_constraint", back, Len(back))
    BY <2>2, <2>3 DEF Doing
  <2> QED
    BY <2>3, <2>4
<1>9. Len(back) \in Nat
  BY <1>1
<1> QED
  BY <1>6, <1>7, <1>8, <1>9 DEF back

(* A catalog with a model in it, without what the downgrade drops, is the  *)
(* catalog that the script was run on.                                     *)
LEMMA UnmadeAll ==
  ASSUME NEW m, IsRelationalModel(m), ~Raises(m), NEW d, IsCatalog(d),
         RunsThrough(Plan(m), d)
  PROVE  Unmade(Downgrade(m), Len(Downgrade(m)), With(m, d)) = d
<1> DEFINE back == Downgrade(m)
           n == Len(back)
           w == With(m, d)
           tables == Doing("drop_table", back, n)
           keys == Doing("drop_constraint", back, n)
           left == Unmade(back, n, w)
<1>1. /\ w.tables = d.tables \cup BuiltTables(m)
      /\ w.indexes = d.indexes \cup BuiltIndexes(m)
      /\ w.foreign_keys = d.foreign_keys \cup BuiltKeys(m)
  BY WithIs
<1>2. /\ \A t \in ToSet(m.tables) : \E h \in tables : back[h].target = t.name
      /\ \A r \in ToSet(m.relationships) : \E h \in keys :
           back[h].target = r.source_table /\ back[h].name = r.name
  BY DowngradeDrops
<1>3. \A h \in tables : \E t \in ToSet(m.tables) : back[h].target = t.name
  <2>1. \A h \in tables : h \in 1..n /\ back[h].operation = "drop_table"
    BY DEF Doing
  <2> QED
    BY <2>1, DowngradeDrops
<1>4. \A h \in keys : \E r \in ToSet(m.relationships) :
        back[h].target = r.source_table /\ back[h].name = r.name
  <2>1. \A h \in keys : h \in 1..n /\ back[h].operation = "drop_constraint"
    BY DEF Doing
  <2> QED
    BY <2>1, DowngradeDrops
<1>5. left = [tables |-> left.tables, indexes |-> left.indexes,
              foreign_keys |-> left.foreign_keys]
  BY DEF Unmade
<1>6. /\ left.tables = {t \in w.tables : \A h \in tables : t.name # back[h].target}
      /\ left.indexes = {x \in w.indexes : \A h \in tables : x.table # back[h].target}
      /\ left.foreign_keys = {f \in w.foreign_keys :
           /\ \A h \in keys : <<f.table, f.name>> # <<back[h].target, back[h].name>>
           /\ \A h \in tables : back[h].target \notin {f.table, f.references}}
  BY DEF Unmade
<1> HIDE DEF back, n, w, tables, keys, left
<1>7. \A h \in tables : back[h].target \notin Relations(d)
  <2>1. \A t \in ToSet(m.tables) : t.name \notin Relations(d)
    BY TablesOfTheirOwn
  <2> QED
    BY <1>3, <2>1
<1>8. /\ \A t \in d.tables : t.name \in Relations(d)
      /\ \A x \in d.indexes : x.table \in Relations(d)
      /\ \A f \in d.foreign_keys : f.table \in Relations(d) /\ f.references \in Relations(d)
  BY DEF Relations, TableNames, IsCatalog
<1>9. left.tables = d.tables
  <2>1. \A t \in BuiltTables(m) : \E h \in tables : t.name = back[h].target
    BY <1>2 DEF BuiltTables, BuiltTable
  <2> QED
    BY <1>1, <1>6, <1>7, <1>8, <2>1
<1>10. left.indexes = d.indexes
  <2>1. \A x \in BuiltIndexes(m) : \E h \in tables : x.table = back[h].target
    BY <1>2 DEF BuiltIndexes, BuiltIndex
  <2> QED
    BY <1>1, <1>6, <1>7, <1>8, <2>1
<1>11. left.foreign_keys = d.foreign_keys
  <2>1. \A f \in BuiltKeys(m) : \E h \in keys :
          f.table = back[h].target /\ f.name = back[h].name
    BY <1>2 DEF BuiltKeys, BuiltKey
  <2>2. \A f \in d.foreign_keys : \A h \in keys :
          <<f.table, f.name>> # <<back[h].target, back[h].name>>
    <3>1. \A r \in ToSet(m.relationships) : \A f \in d.foreign_keys :
            ~(f.table = r.source_table /\ f.name = r.name)
      BY KeysOfTheirOwn
    <3> QED
      BY <1>4, <3>1
  <2> QED
    BY <1>1, <1>6, <1>7, <1>8, <2>1, <2>2
<1>12. d = [tables |-> d.tables, indexes |-> d.indexes, foreign_keys |-> d.foreign_keys]
  BY DEF IsCatalog
<1> QED
  BY <1>5, <1>9, <1>10, <1>11, <1>12 DEF left, w, n, back

(* The downgrade of a script that ran through commits, and takes the       *)
(* catalog back.                                                           *)
LEMMA DowngradeOutcome ==
  ASSUME NEW m, IsRelationalModel(m), ~Raises(m), NEW d, IsCatalog(d),
         RunsThrough(Plan(m), d)
  PROVE  Transaction(Downgrade(m), With(m, d)) = [ok |-> TRUE, db |-> d]
<1> DEFINE back == Downgrade(m)
           n == Len(back)
           w == With(m, d)
           c == [k \in 0..n |-> Unmade(back, k, w)]
<1>1. n \in Nat
  BY DowngradeDrops
<1>2. ASSUME NEW l \in 1..n
      PROVE  \/ /\ back[l].operation = "drop_constraint"
                /\ Doing("drop_table", back, l - 1) = {}
                /\ \E r \in ToSet(m.relationships) :
                     back[l].target = r.source_table /\ back[l].name = r.name
             \/ /\ back[l].operation = "drop_table"
                /\ \E t \in ToSet(m.tables) : back[l].target = t.name
  BY DowngradeDrops
<1>3. Unmade(back, n, w) = d
  BY UnmadeAll
<1>4. IsCatalog(w)
  <2>1. Made(Plan(m), Len(Plan(m)), d) = w
    BY MadeAll
  <2>2. Transaction(Upgrade(m), d).db = Made(Plan(m), Len(Plan(m)), d)
    BY UpgradeOutcome
  <2>3. IsCatalog(Transaction(Upgrade(m), d).db)
    BY UpgradeOutcome
  <2> QED
    BY <2>1, <2>2, <2>3
<1>5. \A r \in ToSet(m.relationships) : \E t \in w.tables : t.name = r.source_table
  BY KeysOfTheirOwn
<1>6. \A t \in ToSet(m.tables) : \A x \in w.indexes : x.name # t.name
  BY IndexesOfTheirOwn
<1> HIDE DEF back, n, w
<1>7. c[0] = w /\ \A k \in 0..n : c[k] = Unmade(back, k, w)
  <2>1. 0 \in 0..n
    BY <1>1
  <2> QED
    BY <1>4, <2>1, UnmadeNothing
<1>8. ASSUME NEW k \in 1..n
      PROVE  /\ c[k - 1] = Unmade(back, k - 1, w)
             /\ Effect(back[k], c[k - 1]) = c[k]
             /\ Runs(back[k], c[k - 1])
  <2>1. k \in Nat /\ k > 0 /\ k - 1 \in 0..n /\ k \in 0..n
    BY <1>1
  <2>2. c[k - 1] = Unmade(back, k - 1, w) /\ c[k] = Unmade(back, k, w)
    BY <1>7, <2>1
  <2> HIDE DEF c
  <2>3. back[k].operation \in Drops
    BY <1>2 DEF Drops
  <2>4. Effect(back[k], c[k - 1]) = c[k]
    BY <2>1, <2>2, <2>3, UnmadeStep
  <2> DEFINE u == Unmade(back, k - 1, w)
  <2>5. CASE back[k].operation = "drop_constraint"
    <3>1. u.tables = {t \in w.tables : TRUE}
      <4>1. Doing("drop_table", back, k - 1) = {}
        BY <1>2, <2>5
      <4> QED
        BY <4>1 DEF Unmade
    <3>2. \E t \in w.tables : t.name = back[k].target
      BY <1>2, <1>5, <2>5
    <3> HIDE DEF u
    <3>3. back[k].target \in TableNames(u)
      BY <3>1, <3>2 DEF TableNames
    <3> QED
      BY <2>2, <2>4, <2>5, <3>3 DEF Runs, u
  <2>6. CASE back[k].operation = "drop_table"
    <3>1. u.indexes \subseteq w.indexes
      BY DEF Unmade
    <3>2. \A x \in w.indexes : x.name # back[k].target
      BY <1>2, <1>6, <2>6
    <3> HIDE DEF u
    <3>3. \A x \in u.indexes : x.name # back[k].target
      BY <3>1, <3>2
    <3> QED
      BY <2>2, <2>4, <2>6, <3>3 DEF Runs, u
  <2> QED
    BY <2>3, <2>5, <2>6 DEF Drops
<1>9. c[n] = Unmade(back, n, w)
  BY <1>1, <1>7
<1> HIDE DEF c
<1>10. Transaction(back, w) =
         IF \A k \in 1..n : Runs(back[k], c[k - 1])
         THEN [ok |-> TRUE, db |-> c[n]] ELSE [ok |-> FALSE, db |-> w]
  BY <1>1, <1>7, <1>8, TransactionFollows DEF n
<1>11. Transaction(back, w) = [ok |-> TRUE, db |-> c[n]]
  BY <1>8, <1>10
<1> QED
  BY <1>3, <1>9, <1>11 DEF back, w

(* A downgrade right after its upgrade succeeds and leaves the catalog     *)
(* exactly as the upgrade found it.                                        *)
THEOREM DowngradesRestore == Spec => DowngradeRestores
<1> DEFINE Restores ==
             result'.kind = "downgrade" /\ result.kind = "upgrade" /\ result.ok
             /\ result'.of = result.of /\ result.after = db
             => result'.ok /\ db' = result.before
<1>1. ScriptInv /\ [Next]_vars => [Restores]_vars
  <2> SUFFICES ASSUME ScriptInv, Next,
                      result'.kind = "downgrade", result.kind = "upgrade", result.ok,
                      result'.of = result.of, result.after = db
               PROVE  result'.ok /\ db' = result.before
    OBVIOUS
  <2>1. result' # result
    OBVIOUS
  <2>2. PICK i \in DOMAIN delivered : AlembicDowngrade(i)
    <3>1. ~\E i \in DOMAIN delivered : AlembicUpgrade(i)
      BY DEF AlembicUpgrade, Revise
    <3>2. ~Statement
      BY <2>1 DEF Statement
    <3>3. /\ ~Connect /\ ~ListTables /\ ~GiveUp /\ ~Finished
          /\ ~\E n \in reading.left : ReadPart(n)
          /\ ~\E m \in Models : Propose(m)
          /\ ~\E i \in DOMAIN delivered : StartScript(i)
          /\ ~\E s \in Others : Other(s)
      BY <2>1 DEF Connect, ListTables, GiveUp, Finished, ReadPart, Propose, StartScript,
                  Other, vars
    <3> QED
      BY <3>1, <3>2, <3>3 DEF Next
  <2> DEFINE m == delivered[i].model
             o == Transaction(Downgrade(m), db)
  <2>3. result'.of = i /\ result'.ok = o.ok /\ db' = o.db
    BY <2>2 DEF AlembicDowngrade, Revise
  <2>4. /\ result.of = i /\ IsCatalog(result.before)
        /\ RunsThrough(Plan(m), result.before)
        /\ db = Made(Plan(m), Len(Plan(m)), result.before)
    BY <2>3 DEF ScriptInv, ResultInv
  <2>5. IsRelationalModel(m) /\ ~Raises(m)
    BY DeliveredModels DEF ScriptInv
  <2>6. db = With(m, result.before)
    BY <2>4, <2>5, MadeAll
  <2>7. Transaction(Downgrade(m), With(m, result.before)) = [ok |-> TRUE, db |-> result.before]
    BY <2>4, <2>5, DowngradeOutcome
  <2> QED
    BY <2>3, <2>6, <2>7
<1> QED
  BY <1>1, ScriptInvariance, PTL DEF Spec, DowngradeRestores
=============================================================================
