------------------------------ MODULE BootProofs ------------------------------
(***************************************************************************)
(* Proofs about module Boot.  What the boot processor has still to do is a *)
(* sequence, and the calls it makes put sequences of steps in front of it  *)
(* whose lengths depend on the machine; so the first section is about      *)
(* sequences of any length, by induction.                                  *)
(***************************************************************************)
EXTENDS Boot, WellFoundedInduction, TLAPS

-------------------------------------------------------------------------------
Less == {p \in Nat \X Nat : p[1] < p[2]}

(* The order of the natural numbers, as a relation, is well founded. *)
LEMMA LessWellFounded == IsWellFoundedOn(Less, Nat)
BY NatLessThanWellFounded, Zenon DEF OpToRel, Less

(* Less is the order of the naturals.                                        *)
LEMMA LessIs == \A x, y \in Nat : <<x, y>> \in Less <=> x < y
BY DEF Less

(* Induction up to a bound, over a set of numbers. *)
LEMMA UpTo ==
    ASSUME NEW N \in Nat, NEW T, 0 \in T,
           \A n \in 0 .. N - 1 : n \in T => n + 1 \in T
    PROVE  \A n \in 0 .. N : n \in T
<1>1. SUFFICES ASSUME NEW n \in 0 .. N, n \notin T
               PROVE  FALSE
  OBVIOUS
<1> DEFINE Bad == {k \in Nat : k \in 0 .. N /\ k \notin T}
<1>2. Bad \subseteq Nat /\ Bad # {}
  BY <1>1
<1>3. PICK m \in Bad : \A k \in Bad : ~(<<k, m>> \in Less)
  <2> HIDE DEF Bad
  <2> QED BY <1>2, LessWellFounded, WFMin
<1>4. m # 0 /\ m - 1 \in 0 .. N - 1 /\ m \in Nat /\ m - 1 \in Nat /\ m \notin T
  OBVIOUS
<1>5. m - 1 \in Bad
  BY <1>4
<1>6. <<m - 1, m>> \in Less
  BY <1>4, LessIs
<1> QED BY <1>3, <1>5, <1>6

(* What FlattenSeq computes: the last of the partial concatenations. *)
Partial(F, ss) ==
    /\ F[0] = <<>>
    /\ \A i \in 1 .. Len(ss) : F[i] = F[i - 1] \o ss[i]
    /\ FlattenSeq(ss) = F[Len(ss)]

(* There is a function that satisfies the recursive definition in            *)
(* FlattenSeq, up to any index.                                              *)
LEMMA FlattenExists ==
    ASSUME NEW ss, NEW N \in Nat
    PROVE  \E f : f = [i \in 1 .. N |-> IF i = 1 THEN ss[i] ELSE f[i - 1] \o ss[i]]
<1> DEFINE E(n) == \E f : f = [i \in 1 .. n |-> IF i = 1 THEN ss[i] ELSE f[i - 1] \o ss[i]]
           T == {n \in Nat : E(n)}
<1>1. 0 \in T
  <2> DEFINE g == [i \in 1 .. 0 |-> {}]
  <2>1. g = [i \in 1 .. 0 |-> IF i = 1 THEN ss[i] ELSE g[i - 1] \o ss[i]]
    OBVIOUS
  <2> QED BY <2>1
<1>2. ASSUME NEW n \in 0 .. N - 1, n \in T
      PROVE  n + 1 \in T
  <2>1. PICK f : f = [i \in 1 .. n |-> IF i = 1 THEN ss[i] ELSE f[i - 1] \o ss[i]]
    BY <1>2
  <2> DEFINE g == [i \in 1 .. n + 1 |-> IF i = 1 THEN ss[i] ELSE f[i - 1] \o ss[i]]
  <2>2. \A i \in 1 .. n : g[i] = f[i]
    <3> TAKE i \in 1 .. n
    <3>1. f[i] = IF i = 1 THEN ss[i] ELSE f[i - 1] \o ss[i]
      BY <2>1
    <3> QED BY <3>1
  <2>3. \A i \in 1 .. n + 1 : i # 1 => g[i - 1] = f[i - 1]
    <3> HIDE DEF g
    <3> QED BY <2>2
  <2>4. g = [i \in 1 .. n + 1 |-> IF i = 1 THEN ss[i] ELSE g[i - 1] \o ss[i]]
    BY <2>3
  <2>5. E(n + 1)
    <3> HIDE DEF g
    <3> QED BY <2>4
  <2>6. n + 1 \in Nat
    OBVIOUS
  <2> HIDE DEF E
  <2> QED BY <2>5, <2>6
<1>3. N \in T
  <2> HIDE DEF T
  <2> QED BY <1>1, <1>2, UpTo
<1> QED BY <1>3

(* The recursion that defines FlattenSeq, as the partial concatenations.     *)
LEMMA FlattenPartial ==
    ASSUME NEW S, NEW ss \in Seq(Seq(S))
    PROVE  \E F \in [0 .. Len(ss) -> Seq(S)] : Partial(F, ss)
<1> DEFINE N == Len(ss)
<1>1. N \in Nat /\ ss = [i \in 1 .. N |-> ss[i]] /\ \A i \in 1 .. N : ss[i] \in Seq(S)
  OBVIOUS
<1> DEFINE f == CHOOSE h : h = [i \in 1 .. N |-> IF i = 1 THEN ss[i] ELSE h[i - 1] \o ss[i]]
           F == [i \in 0 .. N |-> IF i = 0 THEN <<>> ELSE f[i]]
<1> HIDE DEF N
<1>2. f = [i \in 1 .. N |-> IF i = 1 THEN ss[i] ELSE f[i - 1] \o ss[i]]
  BY FlattenExists, <1>1, Zenon
<1>3. FlattenSeq(ss) = F[N]
  <2>1. CASE N = 0
    <3>1. FlattenSeq(ss) = ss
      BY <2>1 DEF FlattenSeq, N
    <3>2. ss = <<>>
      BY <2>1 DEF N
    <3> QED BY <3>1, <3>2, <2>1
  <2>2. CASE N # 0
    <3>1. FlattenSeq(ss) = f[N]
      BY <2>2, Zenon DEF FlattenSeq, N
    <3> HIDE DEF f
    <3> QED BY <3>1, <2>2, <1>1
  <2> QED BY <2>1, <2>2
<1> HIDE DEF f
<1>4. \A i \in 1 .. N : f[i] = IF i = 1 THEN ss[i] ELSE f[i - 1] \o ss[i]
  BY <1>2, Zenon
<1>5. \A i \in 0 .. N : i \in {n \in 0 .. N : F[n] \in Seq(S) /\ (n # 0 => F[n] = F[n - 1] \o ss[n])}
  <2> DEFINE T == {n \in 0 .. N : F[n] \in Seq(S) /\ (n # 0 => F[n] = F[n - 1] \o ss[n])}
  <2>1. 0 \in T
    BY <1>1
  <2>2. ASSUME NEW n \in 0 .. N - 1, n \in T
        PROVE  n + 1 \in T
    <3>1. F[n] \in Seq(S) /\ ss[n + 1] \in Seq(S) /\ n + 1 \in 1 .. N /\ n + 1 \in 0 .. N /\ n \in 0 .. N
      BY <2>2, <1>1
    <3>2. F[n + 1] = F[n] \o ss[n + 1]
      <4>1. F[n + 1] = f[n + 1]
        BY <3>1
      <4>2. CASE n = 0
        <5>1. f[n + 1] = ss[n + 1] /\ F[n] = <<>>
          BY <4>2, <1>4, <3>1
        <5>2. <<>> \o ss[n + 1] = ss[n + 1]
          BY <3>1
        <5> HIDE DEF F
        <5> QED BY <5>1, <5>2, <4>1
      <4>3. CASE n # 0
        <5>1. n + 1 # 1 /\ (n + 1) - 1 = n
          BY <4>3
        <5>2. f[n + 1] = f[n] \o ss[n + 1]
          BY <5>1, <1>4, <3>1
        <5>3. F[n] = f[n]
          BY <4>3, <3>1
        <5> HIDE DEF F
        <5> QED BY <5>2, <5>3, <4>1
      <4> QED BY <4>2, <4>3
    <3>3. F[n + 1] \in Seq(S)
      <4> HIDE DEF F
      <4> QED BY <3>1, <3>2
    <3>4. (n + 1) - 1 = n
      OBVIOUS
    <3> HIDE DEF F
    <3> QED BY <3>1, <3>2, <3>3, <3>4
  <2> HIDE DEF T
  <2>3. \A i \in 0 .. N : i \in T
    BY <2>1, <2>2, <1>1, UpTo
  <2> QED BY <2>3 DEF T
<1>6. F \in [0 .. N -> Seq(S)]
  BY <1>5
<1>7. F[0] = <<>>
  BY <1>1
<1> HIDE DEF F
<1>8. \A i \in 1 .. N : F[i] = F[i - 1] \o ss[i]
  <2> TAKE i \in 1 .. N
  <2>1. i \in 0 .. N /\ i # 0
    BY <1>1
  <2>2. i \in {n \in 0 .. N : F[n] \in Seq(S) /\ (n # 0 => F[n] = F[n - 1] \o ss[n])}
    BY <2>1, <1>5, Zenon
  <2> QED BY <2>1, <2>2
<1>9. Partial(F, ss)
  BY <1>3, <1>7, <1>8 DEF Partial, N
<1> QED BY <1>6, <1>9 DEF N

(* The elements of a concatenation.                                          *)
LEMMA ConcatFacts ==
    ASSUME NEW S, NEW s \in Seq(S), NEW t \in Seq(S)
    PROVE  /\ s \o t \in Seq(S)
           /\ Len(s \o t) = Len(s) + Len(t)
           /\ Len(s) \in Nat /\ Len(t) \in Nat
           /\ \A k \in 1 .. Len(s) : (s \o t)[k] = s[k]
           /\ \A k \in 1 .. Len(t) : (s \o t)[Len(s) + k] = t[k]
           /\ \A k \in 1 .. Len(s) + Len(t) : k \in 1 .. Len(s) \/ k - Len(s) \in 1 .. Len(t)
           /\ \A k \in 1 .. Len(s) + Len(t) : k > Len(s) => (s \o t)[k] = t[k - Len(s)]
OBVIOUS

(* The elements of two sequences one after the other.                        *)
LEMMA RangeConcat ==
    ASSUME NEW S, NEW s \in Seq(S), NEW t \in Seq(S)
    PROVE  Range(s \o t) = Range(s) \cup Range(t)
<1>1. /\ DOMAIN s = 1 .. Len(s) /\ DOMAIN t = 1 .. Len(t)
      /\ DOMAIN (s \o t) = 1 .. Len(s) + Len(t)
  OBVIOUS
<1> DEFINE u == s \o t
<1>2. /\ Len(s) \in Nat /\ Len(t) \in Nat
      /\ \A k \in 1 .. Len(s) : u[k] = s[k]
      /\ \A k \in 1 .. Len(t) : u[Len(s) + k] = t[k]
      /\ \A k \in 1 .. Len(s) + Len(t) : k > Len(s) => u[k] = t[k - Len(s)]
  BY ConcatFacts
<1>3. DOMAIN u = 1 .. Len(s) + Len(t)
  BY <1>1
<1> HIDE DEF u
<1>4. Range(u) \subseteq Range(s) \cup Range(t)
  <2> SUFFICES ASSUME NEW k \in 1 .. Len(s) + Len(t)
               PROVE  u[k] \in Range(s) \cup Range(t)
    BY <1>3 DEF Range
  <2>1. CASE k \in 1 .. Len(s)
    BY <2>1, <1>1, <1>2 DEF Range
  <2>2. CASE k \notin 1 .. Len(s)
    <3>1. k > Len(s) /\ k - Len(s) \in 1 .. Len(t)
      BY <2>2, <1>2
    <3> QED BY <3>1, <1>1, <1>2 DEF Range
  <2> QED BY <2>1, <2>2
<1>5. \A k \in 1 .. Len(s) : k \in 1 .. Len(s) + Len(t)
  BY <1>2
<1>6. \A k \in 1 .. Len(t) : Len(s) + k \in 1 .. Len(s) + Len(t)
  BY <1>2
<1>7. Range(s) \subseteq Range(u)
  BY <1>1, <1>2, <1>3, <1>5 DEF Range
<1>8. Range(t) \subseteq Range(u)
  BY <1>1, <1>2, <1>3, <1>6 DEF Range
<1> QED BY <1>4, <1>7, <1>8 DEF u

(* FlattenSeq puts the elements of its sequences, and nothing else, into one *)
(* sequence.                                                                 *)
LEMMA FlattenElements ==
    ASSUME NEW S, NEW ss \in Seq(Seq(S))
    PROVE  /\ FlattenSeq(ss) \in Seq(S)
           /\ \A x : x \in Range(FlattenSeq(ss)) <=> \E j \in 1 .. Len(ss) : x \in Range(ss[j])
<1>1. PICK F \in [0 .. Len(ss) -> Seq(S)] : Partial(F, ss)
  BY FlattenPartial
<1>2. Len(ss) \in Nat /\ \A i \in 1 .. Len(ss) : ss[i] \in Seq(S)
  OBVIOUS
<1> DEFINE P(n) == \A x : x \in Range(F[n]) <=> \E j \in 1 .. n : x \in Range(ss[j])
           T == {n \in 0 .. Len(ss) : P(n)}
<1>3. 0 \in T
  BY <1>1, <1>2 DEF Partial, Range
<1>4. ASSUME NEW n \in 0 .. Len(ss) - 1, n \in T
      PROVE  n + 1 \in T
  <2>1. /\ n \in 0 .. Len(ss) /\ n + 1 \in 0 .. Len(ss) /\ n + 1 \in 1 .. Len(ss)
        /\ n + 1 # 0 /\ (n + 1) - 1 = n
    BY <1>2
  <2>10. F[n] \in Seq(S) /\ ss[n + 1] \in Seq(S)
    BY <2>1, <1>2, Zenon
  <2>2. F[n + 1] = F[n] \o ss[n + 1]
    <3>1. F[n + 1] = F[(n + 1) - 1] \o ss[n + 1]
      BY <1>1, <2>1, Zenon DEF Partial
    <3> QED BY <3>1, <2>1
  <2>3. Range(F[n + 1]) = Range(F[n]) \cup Range(ss[n + 1])
    BY <2>10, <2>2, RangeConcat
  <2>4. \A j \in 1 .. n + 1 : j \in 1 .. n \/ j = n + 1
    BY <1>2
  <2>5. \A j \in 1 .. n : j \in 1 .. n + 1
    BY <1>2
  <2>6. n + 1 \in 1 .. n + 1
    BY <1>2
  <2>7. P(n)
    BY <1>4
  <2>8. P(n + 1)
    BY <2>3, <2>4, <2>5, <2>6, <2>7, Zenon
  <2> HIDE DEF P
  <2> QED BY <2>8, <2>1
<1>5. Len(ss) \in T
  <2> HIDE DEF T
  <2>1. \A n \in 0 .. Len(ss) : n \in T
    BY <1>2, <1>3, <1>4, UpTo
  <2> QED BY <2>1, <1>2
<1> QED BY <1>1, <1>5, Zenon DEF Partial
-------------------------------------------------------------------------------
(* What may be on todo, and which step may follow which.  A step in Closing  *)
(* has a particular step before it, one in Opening a particular one after    *)
(* it; a sequence that is Whole neither starts in the middle of such a pair  *)
(* nor ends there.                                                           *)
Driver == DOMAIN ids
Arg == Int \cup BOOLEAN \cup {2^n : n \in Nat}
One == {"device_init", "command_off", "command_back", "register", "enable", "master", "msix",
        "msi", "reset", "reset_wait", "eec_wait", "dma_wait", "rx_init", "tx_init", "unmask",
        "fill", "advance", "ring"}
Two == {"msix_ctrl", "msix_entry", "msi_ctrl", "msi_entry", "msi_multiple"}
Reg == {"ones", "back_lo", "back_hi", "bar", "bar_end"}
Op == {<<"numa">>, <<"hostbridge">>, <<"pci_scan">>} \cup ({"driver"} \X Driver)
      \cup (One \X Fn) \cup (Two \X Fn \X Arg) \cup (Reg \X Fn \X Int)
      \cup ({"probe"} \X Fn \X Driver)
Backs == {"back_lo", "back_hi"}
Closing == {"ones", "back_lo", "back_hi", "command_back", "advance", "ring", "eec_wait",
            "dma_wait", "tx_init", "unmask"}
Opening == {"command_off", "ones", "back_lo", "back_hi", "advance", "ring", "reset_wait",
            "eec_wait", "unmask"}
Leading == {"command_off", "ones", "back_lo", "back_hi", "advance", "reset_wait", "eec_wait",
            "rx_init", "tx_init"}
Link(a, b) ==
    /\ b[1] = "ones" => a[1] \in {"command_off"} \cup Backs /\ a[2] = b[2]
    /\ b[1] \in Backs => a[1] = "ones"
    /\ a[1] = "ones" => b[1] \in Backs /\ b[2] = a[2] /\ b[3] = a[3]
    /\ a[1] = "command_off" => b[1] = "ones"
    /\ a[1] \in Backs => b[1] \in {"ones", "command_back"}
    /\ b[1] = "command_back" => a[1] \in Backs /\ a[2] = b[2]
    /\ b[1] # "advance"
    /\ b[1] = "ring" => a[1] = "advance"
    /\ a[1] = "advance" => b[1] = "ring"
    /\ a[1] = "ring" => b[1] = "fill"
    /\ b[1] = "eec_wait" => a[1] = "reset_wait"
    /\ a[1] = "reset_wait" => b[1] = "eec_wait"
    /\ b[1] = "dma_wait" => a[1] = "eec_wait"
    /\ a[1] = "eec_wait" => b[1] = "dma_wait"
    /\ b[1] = "tx_init" => a[1] = "rx_init"
    /\ b[1] = "unmask" => a[1] = "tx_init"
    /\ a[1] = "unmask" => b[1] = "fill"
Linked(s) == \A k \in 1 .. Len(s) - 1 : Link(s[k], s[k + 1])
Ends(s) == s # <<>> => s[Len(s)][1] \notin Opening
Starts(s) == s # <<>> => s[1][1] \notin Closing
Whole(s) == s \in Seq(Op) /\ Linked(s) /\ Ends(s) /\ Starts(s)
TodoInv == todo \in Seq(Op) /\ Linked(todo) /\ Ends(todo)

(* Unconstrained neighbours may stand next to each other.                    *)
LEMMA FreeLink ==
    ASSUME NEW a, NEW b, a[1] \notin Opening, b[1] \notin Closing
    PROVE  Link(a, b)
BY DEF Link, Opening, Closing, Backs

(* What may follow a step that demands nothing of its successor.             *)
LEMMA LeadingLink ==
    ASSUME NEW a, NEW b, Link(a, b), a[1] \notin Leading
    PROVE  b[1] \notin Closing
BY DEF Link, Leading, Closing, Backs

(* Two sequences one after the other.                                        *)
LEMMA Join ==
    ASSUME NEW s \in Seq(Op), NEW t \in Seq(Op), Linked(s), Linked(t), Ends(s), Ends(t), Starts(t)
    PROVE  Linked(s \o t) /\ Ends(s \o t)
<1> DEFINE u == s \o t
<1>1. /\ Len(u) = Len(s) + Len(t) /\ Len(s) \in Nat /\ Len(t) \in Nat
      /\ \A k \in 1 .. Len(s) : u[k] = s[k]
      /\ \A k \in 1 .. Len(s) + Len(t) : k > Len(s) => u[k] = t[k - Len(s)]
  BY ConcatFacts
<1>2. u \in Seq(Op) /\ (s = <<>> <=> Len(s) = 0) /\ (t = <<>> <=> Len(t) = 0) /\ (u = <<>> <=> Len(u) = 0)
  OBVIOUS
<1> HIDE DEF u
<1>3. ASSUME NEW k \in 1 .. Len(u) - 1
      PROVE  Link(u[k], u[k + 1])
  <2>1. CASE k < Len(s)
    <3>1. u[k] = s[k] /\ u[k + 1] = s[k + 1] /\ k \in 1 .. Len(s) - 1
      BY <2>1, <1>1
    <3> QED BY <3>1 DEF Linked
  <2>2. CASE k = Len(s)
    <3>1. u[k] = s[Len(s)] /\ u[k + 1] = t[1] /\ s # <<>> /\ t # <<>>
      BY <2>2, <1>1, <1>2
    <3> QED BY <3>1, FreeLink DEF Ends, Starts
  <2>3. CASE k > Len(s)
    <3>1. /\ k - Len(s) \in 1 .. Len(t) - 1
          /\ u[k] = t[k - Len(s)] /\ u[k + 1] = t[(k + 1) - Len(s)] /\ (k + 1) - Len(s) = (k - Len(s)) + 1
      BY <2>3, <1>1
    <3> QED BY <3>1 DEF Linked
  <2> QED BY <2>1, <2>2, <2>3, <1>1
<1>4. Ends(u)
  <2>1. CASE Len(t) = 0
    <3>1. Len(u) = Len(s) /\ (u # <<>> => s # <<>> /\ u[Len(u)] = s[Len(s)])
      BY <2>1, <1>1, <1>2
    <3> QED BY <3>1 DEF Ends
  <2>2. CASE Len(t) # 0
    <3>1. t # <<>> /\ u[Len(u)] = t[Len(t)]
      BY <2>2, <1>1, <1>2
    <3> QED BY <3>1 DEF Ends
  <2> QED BY <2>1, <2>2
<1> QED BY <1>3, <1>4 DEF Linked, u

(* Whole sequences put together are whole.                                   *)
LEMMA JoinWhole ==
    ASSUME NEW s, NEW t, Whole(s), Whole(t)
    PROVE  Whole(s \o t)
<1>1. s \in Seq(Op) /\ t \in Seq(Op) /\ Linked(s \o t) /\ Ends(s \o t)
  BY Join DEF Whole
<1>2. s \o t \in Seq(Op)
  BY <1>1
<1>3. Starts(s \o t)
  <2>1. CASE s = <<>>
    <3>1. s \o t = t
      BY <2>1, <1>1
    <3> QED BY <3>1 DEF Whole
  <2>2. CASE s # <<>>
    <3>1. (s \o t)[1] = s[1]
      BY <2>2, <1>1
    <3> QED BY <3>1, <2>2 DEF Whole, Starts
  <2> QED BY <2>1, <2>2
<1> QED BY <1>1, <1>2, <1>3 DEF Whole

(* What is left of todo when its head is gone.                               *)
LEMMA Pop ==
    ASSUME TodoInv, todo # <<>>
    PROVE  LET t == Tail(todo) IN
           /\ t \in Seq(Op) /\ Linked(t) /\ Ends(t)
           /\ t = <<>> <=> Len(todo) = 1
           /\ t # <<>> => t[1] = todo[2] /\ Link(Head(todo), t[1])
           /\ Head(todo)[1] \notin Leading => Starts(t)
           /\ Head(todo)[1] \in Opening => t # <<>>
           /\ Head(todo) \in Op /\ <<>> \o t = t
<1> DEFINE t == Tail(todo)
<1>1. /\ t \in Seq(Op) /\ Len(t) = Len(todo) - 1 /\ Len(todo) \in Nat /\ Len(todo) # 0
      /\ \A k \in 1 .. Len(todo) - 1 : t[k] = todo[k + 1]
      /\ Head(todo) = todo[1] /\ Head(todo) \in Op /\ <<>> \o t = t
      /\ t = <<>> <=> Len(t) = 0
  <2>1. todo \in Seq(Op)
    BY DEF TodoInv
  <2>2. /\ Len(todo) \in Nat /\ Len(todo) # 0 /\ DOMAIN todo = 1 .. Len(todo)
        /\ Head(todo) = todo[1]
    BY <2>1
  <2>3. t \in Seq(Op) /\ Len(t) = Len(todo) - 1 /\ \A k \in 1 .. Len(todo) - 1 : t[k] = todo[k + 1]
    BY <2>1, <2>2
  <2>4. Head(todo) \in Op
    <3> HIDE DEF Op
    <3> QED BY <2>1, <2>2
  <2> HIDE DEF t
  <2>5. <<>> \o t = t /\ (t = <<>> <=> Len(t) = 0)
    BY <2>3
  <2> QED BY <2>2, <2>3, <2>4, <2>5
<1> HIDE DEF t
<1>2. Linked(t)
  <2> SUFFICES ASSUME NEW k \in 1 .. Len(t) - 1 PROVE Link(t[k], t[k + 1])
    BY DEF Linked
  <2>1. t[k] = todo[k + 1] /\ t[k + 1] = todo[(k + 1) + 1] /\ k + 1 \in 1 .. Len(todo) - 1
    BY <1>1
  <2> QED BY <2>1 DEF TodoInv, Linked
<1>3. Ends(t)
  <2>1. t # <<>> => t[Len(t)] = todo[Len(todo)]
    BY <1>1
  <2> QED BY <2>1 DEF TodoInv, Ends
<1>4. t # <<>> => t[1] = todo[2] /\ Link(Head(todo), t[1])
  <2> SUFFICES ASSUME t # <<>> PROVE t[1] = todo[2] /\ Link(Head(todo), t[1])
    OBVIOUS
  <2>1. t[1] = todo[2] /\ 1 \in 1 .. Len(todo) - 1 /\ 1 + 1 = 2
    BY <1>1
  <2>2. Link(todo[1], todo[2])
    BY <2>1 DEF TodoInv, Linked
  <2> QED BY <2>1, <2>2, <1>1
<1>5. Head(todo)[1] \notin Leading => Starts(t)
  BY <1>4, LeadingLink DEF Starts
<1>6. Head(todo)[1] \in Opening => t # <<>>
  BY <1>1 DEF TodoInv, Ends
<1> QED BY <1>1, <1>2, <1>3, <1>4, <1>5, <1>6 DEF t

(* A step that puts a whole sequence where it was keeps the invariant, and   *)
(* so does one that only goes.                                               *)
LEMMA PushStep ==
    ASSUME TodoInv, todo # <<>>, Head(todo)[1] \notin Leading, NEW ops, Whole(ops), Then(ops),
           machine' = machine
    PROVE  TodoInv' /\ Starts(todo')
<1>1. Tail(todo) \in Seq(Op) /\ Linked(Tail(todo)) /\ Ends(Tail(todo)) /\ Starts(Tail(todo))
  BY Pop
<1>2. Whole(ops \o Tail(todo))
  BY <1>1, JoinWhole DEF Whole
<1>3. Op' = Op
  BY DEF Op, Fn, Arg, Driver
<1> QED BY <1>2, <1>3 DEF Then, Whole, TodoInv, Linked, Ends, Starts

(* What is left of todo when its head goes.                                  *)
LEMMA PopStep ==
    ASSUME TodoInv, todo # <<>>, Then(<<>>), machine' = machine
    PROVE  TodoInv' /\ todo' = Tail(todo)
<1>1. todo' = Tail(todo)
  BY Pop DEF Then
<1>2. Op' = Op
  BY DEF Op, Fn, Arg, Driver
<1> QED BY <1>1, <1>2, Pop DEF TodoInv, Linked, Ends
-------------------------------------------------------------------------------
(* The sequences that calls put on todo.                                     *)
LEMMA OpFacts ==
    /\ \A l \in One : \A f \in Fn : <<l, f>> \in Op
    /\ \A l \in Two : \A f \in Fn : \A i \in Arg : <<l, f, i>> \in Op
    /\ \A l \in Reg : \A f \in Fn : \A i \in Int : <<l, f, i>> \in Op
    /\ \A d \in Driver : <<"driver", d>> \in Op
    /\ \A f \in Fn : \A d \in Driver : <<"probe", f, d>> \in Op
    /\ <<"numa">> \in Op /\ <<"hostbridge">> \in Op /\ <<"pci_scan">> \in Op
BY DEF Op

(* The parameters that the steps carry, by kind.                             *)
LEMMA OpParts ==
    ASSUME NEW x \in Op
    PROVE  /\ x[1] \in One => x[2] \in Fn /\ x = <<x[1], x[2]>>
           /\ x[1] \in Two => x[2] \in Fn /\ x[3] \in Arg /\ x = <<x[1], x[2], x[3]>>
           /\ x[1] \in Reg => x[2] \in Fn /\ x[3] \in Int /\ x = <<x[1], x[2], x[3]>>
           /\ x[1] = "driver" => x[2] \in Driver /\ x = <<x[1], x[2]>>
           /\ x[1] = "probe" => x[2] \in Fn /\ x[3] \in Driver /\ x = <<x[1], x[2], x[3]>>
           /\ x[1] \in {"numa", "hostbridge", "pci_scan", "driver", "probe"} \cup One \cup Two \cup Reg
<1>1. CASE x \in {<<"numa">>, <<"hostbridge">>, <<"pci_scan">>}
  BY <1>1 DEF One, Two, Reg
<1>2. CASE x \in {"driver"} \X Driver
  BY <1>2 DEF One, Two, Reg
<1>3. CASE x \in One \X Fn
  BY <1>3 DEF One, Two, Reg
<1>4. CASE x \in Two \X Fn \X Arg
  BY <1>4 DEF One, Two, Reg
<1>5. CASE x \in {"probe"} \X Fn \X Driver
  BY <1>5 DEF One, Two, Reg
<1>6. CASE x \in Reg \X Fn \X Int
  BY <1>6 DEF One, Two, Reg
<1> QED BY <1>1, <1>2, <1>3, <1>4, <1>5, <1>6 DEF Op

(* Numbers and flags are parameters.                                         *)
LEMMA ArgFacts == Int \subseteq Arg /\ BOOLEAN \subseteq Arg /\ \A n \in Nat : 2^n \in Arg
BY DEF Arg

(* A sequence of unconstrained steps is whole.                               *)
LEMMA PlainWhole ==
    ASSUME NEW s \in Seq(Op), \A x \in Range(s) : x[1] \notin Opening \cup Closing
    PROVE  Whole(s)
<1>1. Len(s) \in Nat /\ DOMAIN s = 1 .. Len(s) /\ (s = <<>> <=> Len(s) = 0)
  OBVIOUS
<1>2. \A k \in 1 .. Len(s) : s[k][1] \notin Opening /\ s[k][1] \notin Closing
  BY <1>1 DEF Range
<1>3. ASSUME NEW k \in 1 .. Len(s) - 1 PROVE Link(s[k], s[k + 1])
  <2>1. k \in 1 .. Len(s) /\ k + 1 \in 1 .. Len(s)
    BY <1>1
  <2> QED BY <2>1, <1>2, FreeLink
<1>4. s # <<>> => 1 \in 1 .. Len(s) /\ Len(s) \in 1 .. Len(s)
  BY <1>1
<1> QED BY <1>2, <1>3, <1>4 DEF Whole, Linked, Ends, Starts

(* Nothing to do is whole.                                                   *)
LEMMA EmptyWhole == Whole(<<>>)
BY DEF Whole, Linked, Ends, Starts

(* One step that may stand anywhere.                                         *)
LEMMA OneWhole ==
    ASSUME NEW x \in Op, x[1] \notin Opening \cup Closing
    PROVE  Whole(<<x>>)
<1>1. <<x>> \in Seq(Op)
  OBVIOUS
<1>2. Range(<<x>>) = {x}
  BY DEF Range
<1> QED BY <1>1, <1>2, PlainWhole

(* Two neighbours that no constraint is about.                               *)
LEMMA NotLinked ==
    /\ \A l \in {"device_init", "command_back", "register", "enable", "master",
                 "msix", "msi", "reset", "dma_wait", "rx_init", "fill", "bar", "bar_end",
                 "msix_ctrl", "msix_entry", "msi_ctrl", "msi_entry", "msi_multiple", "numa",
                 "hostbridge", "pci_scan", "driver", "probe"} : l \notin Opening
    /\ \A l \in {"device_init", "command_off", "register", "enable", "master",
                 "msix", "msi", "reset", "reset_wait", "rx_init", "fill", "bar", "bar_end",
                 "msix_ctrl", "msix_entry", "msi_ctrl", "msi_entry", "msi_multiple", "numa",
                 "hostbridge", "pci_scan", "driver", "probe"} : l \notin Closing
BY DEF Opening, Closing

(* Sequences of the same length with the same elements are equal.            *)
LEMMA SameSeq ==
    ASSUME NEW S, NEW s \in Seq(S), NEW t \in Seq(S), Len(s) = Len(t),
           \A k \in 1 .. Len(s) : s[k] = t[k]
    PROVE  s = t
OBVIOUS

(* A sequence of four.                                                       *)
LEMMA Tuples4 ==
    ASSUME NEW a, NEW b, NEW c, NEW d
    PROVE  <<a, b, c>> \o <<>> \o <<d>> = <<a, b, c, d>>
<1> DEFINE S == {a, b, c, d}
           u == <<a, b, c>> \o <<>> \o <<d>>
           v == <<a, b, c, d>>
<1>1. u \in Seq(S) /\ v \in Seq(S) /\ Len(u) = 4 /\ Len(v) = 4
  OBVIOUS
<1>2. v[1] = a /\ v[2] = b /\ v[3] = c /\ v[4] = d
  OBVIOUS
<1>3. u[1] = a /\ u[2] = b /\ u[3] = c /\ u[4] = d
  OBVIOUS
<1>4. \A k \in 1 .. 4 : k \in {1, 2, 3, 4}
  OBVIOUS
<1> HIDE DEF u, v, S
<1>5. u = v
  BY <1>1, <1>2, <1>3, <1>4, SameSeq
<1> QED BY <1>5 DEF u, v

(* A sequence of six.                                                        *)
LEMMA Tuples6 ==
    ASSUME NEW a, NEW b, NEW c, NEW d, NEW e, NEW g
    PROVE  <<a, b, c>> \o <<d, e>> \o <<g>> = <<a, b, c, d, e, g>>
<1> DEFINE S == {a, b, c, d, e, g}
           u == <<a, b, c>> \o <<d, e>> \o <<g>>
           v == <<a, b, c, d, e, g>>
<1>1. u \in Seq(S) /\ v \in Seq(S) /\ Len(u) = 6 /\ Len(v) = 6
  OBVIOUS
<1>2. v[1] = a /\ v[2] = b /\ v[3] = c /\ v[4] = d /\ v[5] = e /\ v[6] = g
  OBVIOUS
<1>3. u[1] = a /\ u[2] = b /\ u[3] = c /\ u[4] = d /\ u[5] = e /\ u[6] = g
  OBVIOUS
<1>4. \A k \in 1 .. 6 : k \in {1, 2, 3, 4, 5, 6}
  OBVIOUS
<1> HIDE DEF u, v, S
<1>5. u = v
  BY <1>1, <1>2, <1>3, <1>4, SameSeq
<1> QED BY <1>5 DEF u, v

(* The accesses of pci_get_bar_size.                                         *)
LEMMA SizeWhole ==
    ASSUME NEW f \in Fn, NEW i \in Int
    PROVE  Whole(pci_get_bar_size(f, i))
<1>1. i + 1 \in Int
  OBVIOUS
<1> DEFINE s == <<<<"command_off", f>>, <<"ones", f, i>>, <<"back_lo", f, i>>, <<"command_back", f>>>>
           t == <<<<"command_off", f>>, <<"ones", f, i>>, <<"back_lo", f, i>>,
                  <<"ones", f, i + 1>>, <<"back_hi", f, i + 1>>, <<"command_back", f>>>>
<1>2. pci_get_bar_size(f, i) \in {s, t}
  <2>1. CASE bit(read_config(f, i), 2) = 1
    BY <2>1, Tuples6 DEF pci_get_bar_size
  <2>2. CASE bit(read_config(f, i), 2) # 1
    BY <2>2, Tuples4 DEF pci_get_bar_size
  <2> QED BY <2>1, <2>2
<1>3. /\ <<"command_off", f>> \in Op /\ <<"command_back", f>> \in Op
      /\ <<"ones", f, i>> \in Op /\ <<"back_lo", f, i>> \in Op
      /\ <<"ones", f, i + 1>> \in Op /\ <<"back_hi", f, i + 1>> \in Op
  <2> HIDE DEF Op, Arg
  <2> QED BY <1>1, OpFacts DEF One, Reg
<1>4. s \in Seq(Op) /\ t \in Seq(Op)
  BY <1>3
<1>5. Whole(s)
  <2>1. Linked(s)
    BY DEF Linked, Link, Backs
  <2>2. Ends(s) /\ Starts(s)
    BY DEF Ends, Starts, Opening, Closing
  <2> QED BY <1>4, <2>1, <2>2 DEF Whole
<1>6. Whole(t)
  <2>1. Linked(t)
    BY DEF Linked, Link, Backs
  <2>2. Ends(t) /\ Starts(t)
    BY DEF Ends, Starts, Opening, Closing
  <2> QED BY <1>4, <2>1, <2>2 DEF Whole
<1> QED BY <1>2, <1>5, <1>6

(* Sizing one register.                                                      *)
LEMMA BarWhole ==
    ASSUME NEW f \in Fn, NEW i \in Int
    PROVE  Whole(pci_get_bar_size(f, i) \o <<<<"bar_end", f, i>>>>)
<1>1. <<"bar_end", f, i>> \in Op
  BY OpFacts DEF Reg
<1>2. Whole(<<<<"bar_end", f, i>>>>)
  BY <1>1, OneWhole, NotLinked
<1> QED BY <1>2, SizeWhole, JoinWhole

(* pci_device_init, with any number of registers.                            *)
LEMMA DeviceWhole ==
    ASSUME NEW f \in Fn, NEW n \in Nat
    PROVE  Whole(FlattenSeq([i \in 1 .. n |-> <<<<"bar", f, i - 1>>>>])
                 \o <<<<"command_off", f>>, <<"ones", f, Rom>>, <<"back_lo", f, Rom>>,
                      <<"command_back", f>>, <<"register", f>>>>)
<1> DEFINE ss == [i \in 1 .. n |-> <<<<"bar", f, i - 1>>>>]
           t == <<<<"command_off", f>>, <<"ones", f, Rom>>, <<"back_lo", f, Rom>>,
                  <<"command_back", f>>, <<"register", f>>>>
<1>1. \A i \in 1 .. n : <<"bar", f, i - 1>> \in Op
  BY OpFacts DEF Reg
<1>2. ss \in Seq(Seq(Op)) /\ Len(ss) = n
  <2> HIDE DEF Op
  <2>1. \A i \in 1 .. n : <<<<"bar", f, i - 1>>>> \in Seq(Op)
    BY <1>1
  <2> QED BY <2>1
<1>3. \A j \in 1 .. n : \A x \in Range(ss[j]) : x[1] = "bar"
  BY DEF Range
<1>4. FlattenSeq(ss) \in Seq(Op) /\ \A x \in Range(FlattenSeq(ss)) : x[1] = "bar"
  <2> HIDE DEF ss, Op
  <2> QED BY <1>2, <1>3, FlattenElements
<1>5. Whole(FlattenSeq(ss))
  <2> HIDE DEF ss
  <2> QED BY <1>4, PlainWhole, NotLinked
<1>6. /\ <<"command_off", f>> \in Op /\ <<"command_back", f>> \in Op /\ <<"register", f>> \in Op
      /\ <<"ones", f, Rom>> \in Op /\ <<"back_lo", f, Rom>> \in Op
  BY OpFacts DEF One, Reg, Rom
<1>7. t \in Seq(Op)
  BY <1>6
<1>8. Linked(t)
  BY DEF Linked, Link, Backs
<1>9. Ends(t) /\ Starts(t)
  BY DEF Ends, Starts, Opening, Closing
<1>10. Whole(t)
  BY <1>7, <1>8, <1>9 DEF Whole
<1> HIDE DEF t, ss
<1>11. Whole(FlattenSeq(ss) \o t)
  BY <1>5, <1>10, JoinWhole
<1> QED BY <1>11 DEF t, ss

(* pci_scan, over the functions of a machine.                                *)
LEMMA ScanWhole ==
    ASSUME NEW n \in Nat, Fn = 1 .. n
    PROVE  LET ss == [f \in 1 .. n |-> IF Hw(f).bus <= end_bus_number THEN <<<<"device_init", f>>>> ELSE <<>>]
           IN  /\ Whole(FlattenSeq(ss))
               /\ \A x : x \in Range(FlattenSeq(ss))
                         <=> \E f \in 1 .. n : Hw(f).bus <= end_bus_number /\ x = <<"device_init", f>>
<1> DEFINE ss == [f \in 1 .. n |-> IF Hw(f).bus <= end_bus_number THEN <<<<"device_init", f>>>> ELSE <<>>]
<1>1. \A f \in 1 .. n : <<"device_init", f>> \in Op
  <2>1. \A f \in 1 .. n : f \in Fn
    OBVIOUS
  <2>2. "device_init" \in One
    BY DEF One
  <2> QED BY <2>1, <2>2, OpFacts, Zenon
<1>2. ss \in Seq(Seq(Op)) /\ Len(ss) = n
  <2> HIDE DEF Op
  <2>1. \A f \in 1 .. n : ss[f] \in Seq(Op)
    <3> TAKE f \in 1 .. n
    <3>1. <<<<"device_init", f>>>> \in Seq(Op) /\ <<>> \in Seq(Op)
      BY <1>1
    <3> QED BY <3>1
  <2> QED BY <2>1
<1>3. \A j \in 1 .. n : \A x : x \in Range(ss[j]) <=> Hw(j).bus <= end_bus_number /\ x = <<"device_init", j>>
  BY DEF Range
<1>4. /\ FlattenSeq(ss) \in Seq(Op)
      /\ \A x : x \in Range(FlattenSeq(ss)) <=> \E j \in 1 .. n : Hw(j).bus <= end_bus_number /\ x = <<"device_init", j>>
  <2> HIDE DEF ss, Op
  <2> QED BY <1>2, <1>3, FlattenElements
<1>5. Whole(FlattenSeq(ss))
  <2> HIDE DEF ss
  <2> QED BY <1>4, PlainWhole, NotLinked
<1> QED BY <1>4, <1>5

(* pci_enable_msix and pci_enable_msi.                                       *)
LEMMA MsixWhole ==
    ASSUME NEW f \in Fn, NEW n \in Int
    PROVE  Whole(IF n < 0 THEN <<<<"msi", f>>>>
                 ELSE <<<<"msix_ctrl", f, FALSE>>>> \o [k \in 1 .. n |-> <<"msix_entry", f, k - 1>>]
                      \o <<<<"msix_ctrl", f, TRUE>>>>)
<1>1. <<"msi", f>> \in Op
  BY OpFacts DEF One
<1>2. <<"msix_ctrl", f, FALSE>> \in Op /\ <<"msix_ctrl", f, TRUE>> \in Op
  BY OpFacts, ArgFacts DEF Two
<1>3. Whole(<<<<"msi", f>>>>) /\ Whole(<<<<"msix_ctrl", f, FALSE>>>>) /\ Whole(<<<<"msix_ctrl", f, TRUE>>>>)
  BY <1>1, <1>2, OneWhole, NotLinked
<1>4. ASSUME n >= 0
      PROVE  Whole([k \in 1 .. n |-> <<"msix_entry", f, k - 1>>])
  <2> DEFINE t == [k \in 1 .. n |-> <<"msix_entry", f, k - 1>>]
  <2>1. \A k \in 1 .. n : <<"msix_entry", f, k - 1>> \in Op
    BY OpFacts, ArgFacts DEF Two
  <2>2. t \in Seq(Op)
    <3> HIDE DEF Op
    <3> QED BY <2>1, <1>4
  <2>3. \A x \in Range(t) : x[1] = "msix_entry"
    BY DEF Range
  <2> HIDE DEF t
  <2>4. Whole(t)
    BY <2>2, <2>3, PlainWhole, NotLinked
  <2> QED BY <2>4 DEF t
<1>5. CASE n < 0
  BY <1>5, <1>3
<1>6. CASE n >= 0
  <2>1. Whole(<<<<"msix_ctrl", f, FALSE>>>> \o [k \in 1 .. n |-> <<"msix_entry", f, k - 1>>]
              \o <<<<"msix_ctrl", f, TRUE>>>>)
    BY <1>3, <1>4, <1>6, JoinWhole, Zenon
  <2> QED BY <2>1, <1>6
<1> QED BY <1>5, <1>6

(* Setting up MSI.                                                           *)
LEMMA MsiWhole ==
    ASSUME NEW f \in Fn, NEW n \in Arg
    PROVE  Whole(<<<<"msi_ctrl", f, FALSE>>, <<"msi_entry", f, n>>,
                   <<"msi_multiple", f, n>>, <<"msi_ctrl", f, TRUE>>>>)
<1> DEFINE t == <<<<"msi_ctrl", f, FALSE>>, <<"msi_entry", f, n>>,
                  <<"msi_multiple", f, n>>, <<"msi_ctrl", f, TRUE>>>>
<1>1. /\ <<"msi_ctrl", f, FALSE>> \in Op /\ <<"msi_ctrl", f, TRUE>> \in Op
      /\ <<"msi_entry", f, n>> \in Op /\ <<"msi_multiple", f, n>> \in Op
  BY OpFacts, ArgFacts DEF Two
<1>2. t \in Seq(Op)
  BY <1>1
<1>3. \A x \in Range(t) : x[1] \in {"msi_ctrl", "msi_entry", "msi_multiple"}
  BY DEF Range
<1>4. Whole(t)
  <2> HIDE DEF t
  <2> QED BY <1>2, <1>3, PlainWhole, NotLinked
<1> QED BY <1>4

(* The probes.                                                               *)
LEMMA ProbeWhole ==
    ASSUME NEW f \in Fn, NEW d \in Driver
    PROVE  Whole(Probe(d, f))
<1>1. d \in {"xhci", "nvidia", "x550"}
  BY DEF Driver, ids
<1>2. /\ <<"enable", f>> \in Op /\ <<"master", f>> \in Op /\ <<"msix", f>> \in Op /\ <<"msi", f>> \in Op
      /\ <<"reset", f>> \in Op /\ <<"rx_init", f>> \in Op /\ <<"tx_init", f>> \in Op
      /\ <<"unmask", f>> \in Op /\ <<"fill", f>> \in Op
  BY OpFacts DEF One
<1>3. Whole(<<<<"msix", f>>>>) /\ Whole(<<<<"msi", f>>>>)
  BY <1>2, OneWhole, NotLinked
<1>4. /\ Whole(pci_get_bar_size(f, 0)) /\ Whole(pci_get_bar_size(f, 1)) /\ Whole(pci_get_bar_size(f, 3))
  BY SizeWhole
<1>5. Whole(<<<<"enable", f>>, <<"master", f>>>>)
  <2>1. <<<<"enable", f>>, <<"master", f>>>> \in Seq(Op)
    BY <1>2
  <2>2. \A x \in Range(<<<<"enable", f>>, <<"master", f>>>>) : x[1] \in {"enable", "master"}
    BY DEF Range
  <2> QED BY <2>1, <2>2, PlainWhole, NotLinked
<1>6. Whole(<<<<"enable", f>>, <<"reset", f>>, <<"master", f>>, <<"msix", f>>,
              <<"rx_init", f>>, <<"tx_init", f>>, <<"unmask", f>>, <<"fill", f>>>>)
  <2> DEFINE t == <<<<"enable", f>>, <<"reset", f>>, <<"master", f>>, <<"msix", f>>,
                    <<"rx_init", f>>, <<"tx_init", f>>, <<"unmask", f>>, <<"fill", f>>>>
  <2>1. t \in Seq(Op)
    BY <1>2
  <2>2. Linked(t)
    BY DEF Linked, Link, Backs
  <2>3. Ends(t) /\ Starts(t)
    BY DEF Ends, Starts, Opening, Closing
  <2> QED BY <2>1, <2>2, <2>3 DEF Whole
<1>7. CASE d = "xhci"
  <2>1. Whole(<<<<"enable", f>>, <<"master", f>>>> \o pci_get_bar_size(f, 0)
              \o pci_get_bar_size(f, 0) \o <<<<"msix", f>>>>)
    BY <1>3, <1>4, <1>5, JoinWhole, Zenon
  <2> QED BY <1>7, <2>1 DEF Probe
<1>8. CASE d = "nvidia"
  <2>1. Whole(<<<<"enable", f>>, <<"master", f>>>> \o pci_get_bar_size(f, 0)
              \o <<<<"msi", f>>>> \o pci_get_bar_size(f, 1) \o pci_get_bar_size(f, 3))
    <3>1. Whole(<<<<"enable", f>>, <<"master", f>>>> \o pci_get_bar_size(f, 0) \o <<<<"msi", f>>>>)
      BY <1>3, <1>4, <1>5, JoinWhole, Zenon
    <3> QED BY <3>1, <1>4, JoinWhole, Zenon
  <2> QED BY <1>8, <2>1 DEF Probe
<1>9. CASE d = "x550"
  <2>1. Whole(pci_get_bar_size(f, 0)
              \o <<<<"enable", f>>, <<"reset", f>>, <<"master", f>>, <<"msix", f>>,
                   <<"rx_init", f>>, <<"tx_init", f>>, <<"unmask", f>>, <<"fill", f>>>>)
    BY <1>4, <1>6, JoinWhole, Zenon
  <2> QED BY <1>9, <2>1 DEF Probe
<1> QED BY <1>1, <1>7, <1>8, <1>9

(* The reset of the card.                                                    *)
LEMMA ResetWhole ==
    ASSUME NEW f \in Fn
    PROVE  Whole(<<<<"reset_wait", f>>, <<"eec_wait", f>>, <<"dma_wait", f>>>>)
<1> DEFINE t == <<<<"reset_wait", f>>, <<"eec_wait", f>>, <<"dma_wait", f>>>>
<1>1. <<"reset_wait", f>> \in Op /\ <<"eec_wait", f>> \in Op /\ <<"dma_wait", f>> \in Op
  BY OpFacts DEF One
<1>2. t \in Seq(Op)
  BY <1>1
<1>3. Linked(t)
  BY DEF Linked, Link, Backs
<1>4. Ends(t) /\ Starts(t)
  BY DEF Ends, Starts, Opening, Closing
<1> QED BY <1>2, <1>3, <1>4 DEF Whole

(* pci_register_driver, over the list of functions.                          *)
LEMMA DriverWhole ==
    ASSUME NEW d \in Driver, pci_device_list \in Seq(Fn)
    PROVE  LET inner(k) == [i \in DOMAIN ids[d] |->
                              IF ids[d][i] = Hw(pci_device_list[k]).id
                              THEN <<<<"probe", pci_device_list[k], d>>>> ELSE <<>>]
               ss == [k \in DOMAIN pci_device_list |-> FlattenSeq(inner(k))]
           IN  /\ Whole(FlattenSeq(ss))
               /\ \A x : x \in Range(FlattenSeq(ss))
                         <=> \E k \in 1 .. Len(pci_device_list) :
                                /\ Hw(pci_device_list[k]).id \in Range(ids[d])
                                /\ x = <<"probe", pci_device_list[k], d>>
<1> DEFINE inner(k) == [i \in DOMAIN ids[d] |->
                              IF ids[d][i] = Hw(pci_device_list[k]).id
                              THEN <<<<"probe", pci_device_list[k], d>>>> ELSE <<>>]
           ss == [k \in DOMAIN pci_device_list |-> FlattenSeq(inner(k))]
           list == pci_device_list
<1>1. PICK m \in Nat : DOMAIN ids[d] = 1 .. m
  <2>1. d \in {"xhci", "nvidia", "x550"}
    BY DEF Driver, ids
  <2>2. /\ ids["xhci"] = <<"xhci1", "xhci2", "xhci3", "zero">>
        /\ ids["nvidia"] = <<"gpu1", "gpu2", "zero">>
        /\ ids["x550"] = <<"x550", "zero">>
    BY DEF ids
  <2>3. /\ DOMAIN ids["xhci"] = 1 .. 4 /\ DOMAIN ids["nvidia"] = 1 .. 3
        /\ DOMAIN ids["x550"] = 1 .. 2
    BY <2>2
  <2> QED BY <2>1, <2>3
<1>2. Len(list) \in Nat /\ DOMAIN list = 1 .. Len(list) /\ \A k \in 1 .. Len(list) : list[k] \in Fn
  OBVIOUS
<1>3. \A k \in 1 .. Len(list) : <<"probe", list[k], d>> \in Op
  <2> QED BY <1>2, OpFacts, Zenon
<1>4. ASSUME NEW k \in 1 .. Len(list)
      PROVE  /\ FlattenSeq(inner(k)) \in Seq(Op)
             /\ \A x : x \in Range(FlattenSeq(inner(k)))
                       <=> Hw(list[k]).id \in Range(ids[d]) /\ x = <<"probe", list[k], d>>
  <2>1. /\ inner(k) \in Seq(Seq(Op)) /\ Len(inner(k)) = m
    <3>1. \A i \in 1 .. m : inner(k)[i] \in Seq(Op)
      <4> TAKE i \in 1 .. m
      <4>1. <<<<"probe", list[k], d>>>> \in Seq(Op) /\ <<>> \in Seq(Op)
        BY <1>3
      <4> QED BY <4>1, <1>1
    <3> QED BY <3>1, <1>1
  <2>2. \A j \in 1 .. m : \A x : x \in Range(inner(k)[j])
                                 <=> ids[d][j] = Hw(list[k]).id /\ x = <<"probe", list[k], d>>
    BY <1>1 DEF Range
  <2>3. Hw(list[k]).id \in Range(ids[d]) <=> \E j \in 1 .. m : ids[d][j] = Hw(list[k]).id
    BY <1>1 DEF Range
  <2> HIDE DEF inner
  <2>4. /\ FlattenSeq(inner(k)) \in Seq(Op)
        /\ \A x : x \in Range(FlattenSeq(inner(k))) <=> \E j \in 1 .. m : x \in Range(inner(k)[j])
    BY <2>1, FlattenElements
  <2>5. ASSUME NEW x
        PROVE  x \in Range(FlattenSeq(inner(k)))
               <=> Hw(list[k]).id \in Range(ids[d]) /\ x = <<"probe", list[k], d>>
    <3>1. x \in Range(FlattenSeq(inner(k))) <=> \E j \in 1 .. m : x \in Range(inner(k)[j])
      BY <2>4, Zenon
    <3>2. \A j \in 1 .. m : x \in Range(inner(k)[j])
                           <=> ids[d][j] = Hw(list[k]).id /\ x = <<"probe", list[k], d>>
      BY <2>2, Zenon
    <3> QED BY <3>1, <3>2, <2>3, Zenon
  <2> QED BY <2>4, <2>5
<1>5. /\ ss \in Seq(Seq(Op)) /\ Len(ss) = Len(list)
      /\ \A k \in 1 .. Len(list) : ss[k] = FlattenSeq(inner(k))
  <2> HIDE DEF inner
  <2> QED BY <1>2, <1>4
<1> HIDE DEF ss, inner
<1>6. /\ FlattenSeq(ss) \in Seq(Op)
      /\ \A x : x \in Range(FlattenSeq(ss)) <=> \E j \in 1 .. Len(list) : x \in Range(ss[j])
  BY <1>5, FlattenElements
<1>7. \A x : x \in Range(FlattenSeq(ss))
             <=> \E k \in 1 .. Len(list) : Hw(list[k]).id \in Range(ids[d]) /\ x = <<"probe", list[k], d>>
  BY <1>4, <1>5, <1>6
<1>8. Whole(FlattenSeq(ss))
  BY <1>6, <1>7, PlainWhole, NotLinked
<1> QED BY <1>7, <1>8 DEF ss, inner
-------------------------------------------------------------------------------
(* The types that every proof below uses: the machine is one of those given, *)
(* todo is made of linked steps and the functions found are the machine's.   *)
TypeInv == machine \in Machines /\ TodoInv /\ pci_device_list \in Seq(Fn)

(* An action that only takes the head of todo away, and those that leave     *)
(* todo alone.                                                               *)
Pops ==
    \/ CommandOff \/ Ones \/ Back \/ CommandBack \/ x86_pci_hostbridge_init \/ BarEnd
    \/ pci_enable_device \/ pci_set_master \/ pci_msix_clear_and_set_ctrl
    \/ pci_msi_set_enable \/ msix_entry_setup \/ msi_entry_setup \/ pci_msi_multiple_enable
    \/ ResetWait \/ EecWait \/ DmaWait \/ rx_init \/ tx_init \/ Unmask \/ Advance
    \/ RingTail \/ NumaInit
Beside == CardResets \/ (\E q \in Queue : Send(q)) \/ Receive \/ LinkChange \/ ixgbe_intr

(* What the actions that only take the head away have in common.             *)
LEMMA PopsFacts ==
    ASSUME Pops
    PROVE  /\ todo # <<>> /\ Then(<<>>) /\ machine' = machine
           /\ pci_device_list' = pci_device_list
<1>1. CASE CommandOff
  BY <1>1 DEF CommandOff, At
<1>2. CASE Ones
  BY <1>2 DEF Ones, At
<1>3. CASE Back
  BY <1>3 DEF Back, At
<1>4. CASE CommandBack
  BY <1>4 DEF CommandBack, At
<1>5. CASE x86_pci_hostbridge_init
  BY <1>5 DEF x86_pci_hostbridge_init, At
<1>6. CASE BarEnd
  BY <1>6 DEF BarEnd, At
<1>7. CASE pci_enable_device
  BY <1>7 DEF pci_enable_device, At
<1>8. CASE pci_set_master
  BY <1>8 DEF pci_set_master, At
<1>9. CASE pci_msix_clear_and_set_ctrl
  BY <1>9 DEF pci_msix_clear_and_set_ctrl, At
<1>10. CASE pci_msi_set_enable
  BY <1>10 DEF pci_msi_set_enable, At
<1>11. CASE msix_entry_setup
  BY <1>11 DEF msix_entry_setup, At
<1>12. CASE msi_entry_setup
  BY <1>12 DEF msi_entry_setup, At
<1>13. CASE pci_msi_multiple_enable
  BY <1>13 DEF pci_msi_multiple_enable, At
<1>14. CASE ResetWait
  BY <1>14 DEF ResetWait, Does, At
<1>15. CASE EecWait
  BY <1>15 DEF EecWait, Does, At
<1>16. CASE DmaWait
  BY <1>16 DEF DmaWait, Does, At
<1>17. CASE rx_init
  BY <1>17 DEF rx_init, Does, At
<1>18. CASE tx_init
  BY <1>18 DEF tx_init, Does, At
<1>19. CASE Unmask
  BY <1>19 DEF Unmask, Does, At
<1>20. CASE Advance
  BY <1>20 DEF Advance, Does, At
<1>21. CASE RingTail
  BY <1>21 DEF RingTail, Does, At
<1>22. CASE NumaInit
  BY <1>22 DEF NumaInit, At
<1> QED BY <1>1, <1>2, <1>3, <1>4, <1>5, <1>6, <1>7, <1>8, <1>9, <1>10, <1>11, <1>12, <1>13, <1>14, <1>15, <1>16, <1>17, <1>18, <1>19, <1>20, <1>21, <1>22 DEF Pops

(* The card and its handler leave the PCI state alone.                       *)
LEMMA BesideFacts ==
    ASSUME Beside
    PROVE  UNCHANGED pci_vars
BY DEF Beside, CardResets, Send, Receive, LinkChange, ixgbe_intr

(* The steps of the specification.                                           *)
LEMMA Steps ==
    ASSUME Next
    PROVE  \/ Pops \/ Beside
           \/ (pci_scan \/ pci_device_init \/ Bar \/ register_pci_device \/ pci_enable_msix
               \/ pci_enable_msi \/ pci_register_driver(ids) \/ pci_probe) /\ UNCHANGED nic_vars
           \/ ixgbe_reset \/ Fill
           \/ UNCHANGED <<pci_vars, nic_vars>>
<1>1. CASE NumaInit
  BY <1>1 DEF Pops
<1>2. CASE PciNext /\ UNCHANGED <<nic_vars, bring_vars>>
  BY <1>2, Zenon DEF PciNext, Pops
<1>3. CASE NicNext /\ UNCHANGED bring_vars
  BY <1>3, Zenon DEF NicNext, Pops, Beside
<1> QED BY <1>1, <1>2, <1>3, Zenon DEF Next, Execute

(* The parameters of the head of todo.                                       *)
LEMMA HeadFacts ==
    ASSUME TypeInv, todo # <<>>
    PROVE  /\ Head(todo) \in Op
           /\ Head(todo)[1] \in One => fn \in Fn
           /\ Head(todo)[1] \in Two => fn \in Fn /\ arg \in Arg
           /\ Head(todo)[1] \in Reg => fn \in Fn /\ arg \in Int
           /\ Head(todo)[1] = "driver" => fn \in Driver
           /\ Head(todo)[1] = "probe" => fn \in Fn /\ arg \in Driver
<1>1. Head(todo) \in Op
  BY Pop DEF TypeInv
<1> QED BY <1>1, OpParts DEF fn, arg

(* The functions of a machine are numbered.                                  *)
LEMMA FnFacts ==
    ASSUME machine \in Machines
    PROVE  /\ \E n \in Nat : Fn = 1 .. n
           /\ \A f \in Fn : NBar(f) \in Nat /\ Hw(f).msix_size \in Nat /\ Hw(f).msi_order \in Nat
BY MachinesAssumption DEF Fn, Hw, NBar

(* An action that replaces the head by a whole sequence keeps the types.     *)
LEMMA PushType ==
    ASSUME TypeInv, todo # <<>>, Head(todo)[1] \notin Leading, NEW ops, Whole(ops), Then(ops),
           machine' = machine, pci_device_list' = pci_device_list
    PROVE  TypeInv' /\ Starts(todo')
<1>1. Fn' = Fn
  BY DEF Fn
<1> QED BY <1>1, PushStep DEF TypeInv

(* Each of the steps keeps the types.                                        *)
LEMMA PopType == TypeInv /\ Pops => TypeInv'
<1> SUFFICES ASSUME TypeInv, Pops PROVE TypeInv'
  OBVIOUS
<1>1. Fn' = Fn
  BY PopsFacts DEF Fn
<1> QED BY <1>1, PopsFacts, PopStep DEF TypeInv

(* The calls that are replaced by the accesses they make.                    *)
LEMMA PushesType ==
    ASSUME TypeInv,
           pci_scan \/ pci_device_init \/ Bar \/ register_pci_device \/ pci_enable_msix
              \/ pci_enable_msi \/ pci_register_driver(ids) \/ pci_probe \/ ixgbe_reset
    PROVE  TypeInv' /\ Starts(todo')
<1>1. CASE pci_scan
  <2>1. PICK n \in Nat : Fn = 1 .. n
    BY FnFacts DEF TypeInv
  <2> DEFINE s == FlattenSeq([f \in 1 .. n |-> IF Hw(f).bus <= end_bus_number
                                               THEN <<<<"device_init", f>>>> ELSE <<>>])
  <2>2. /\ todo # <<>> /\ Head(todo)[1] = "pci_scan" /\ Then(s) /\ machine' = machine
        /\ pci_device_list' = <<>>
    BY <1>1, <2>1 DEF pci_scan, At
  <2>3. Whole(s)
    BY <2>1, ScanWhole
  <2>4. PICK ops : ops = s
    OBVIOUS
  <2> HIDE DEF s
  <2>5. Whole(ops) /\ Then(ops)
    BY <2>2, <2>3, <2>4
  <2>6. TodoInv' /\ Starts(todo')
    BY <2>2, <2>5, PushStep DEF TypeInv, Leading
  <2> QED BY <2>2, <2>6 DEF TypeInv
<1>2. CASE pci_device_init
  <2> DEFINE s == FlattenSeq([i \in 1 .. NBar(fn) |-> <<<<"bar", fn, i - 1>>>>])
                  \o <<<<"command_off", fn>>, <<"ones", fn, Rom>>, <<"back_lo", fn, Rom>>,
                       <<"command_back", fn>>, <<"register", fn>>>>
  <2>1. /\ todo # <<>> /\ Head(todo)[1] = "device_init" /\ Then(s) /\ machine' = machine
        /\ pci_device_list' = pci_device_list
    BY <1>2 DEF pci_device_init, At
  <2>2. fn \in Fn /\ NBar(fn) \in Nat
    BY <2>1, HeadFacts, FnFacts DEF One, TypeInv
  <2>3. Whole(s)
    <3>1. PICK f \in Fn : \E n \in Nat : f = fn /\ n = NBar(fn)
      BY <2>2
    <3> QED BY <3>1, DeviceWhole
  <2>4. PICK ops : ops = s
    OBVIOUS
  <2> HIDE DEF s
  <2> QED BY <2>1, <2>3, <2>4, PushType DEF Leading
<1>3. CASE Bar
  <2> DEFINE s == pci_get_bar_size(fn, arg) \o <<<<"bar_end", fn, arg>>>>
  <2>1. /\ todo # <<>> /\ Head(todo)[1] = "bar" /\ Then(s) /\ machine' = machine
        /\ pci_device_list' = pci_device_list
    BY <1>3 DEF Bar, At
  <2>2. fn \in Fn /\ arg \in Int
    BY <2>1, HeadFacts DEF Reg
  <2>3. Whole(s)
    <3>1. PICK f \in Fn : \E i \in Int : f = fn /\ i = arg
      BY <2>2
    <3> QED BY <3>1, BarWhole
  <2>4. PICK ops : ops = s
    OBVIOUS
  <2> HIDE DEF s
  <2> QED BY <2>1, <2>3, <2>4, PushType DEF Leading
<1>4. CASE register_pci_device
  <2>1. /\ todo # <<>> /\ Head(todo)[1] = "register" /\ Then(<<>>) /\ machine' = machine
        /\ pci_device_list' = Append(pci_device_list, fn)
    BY <1>4 DEF register_pci_device, At
  <2>2. fn \in Fn
    BY <2>1, HeadFacts DEF One
  <2>3. Append(pci_device_list, fn) \in Seq(Fn)
    BY <2>2 DEF TypeInv
  <2>4. Fn' = Fn
    BY <2>1 DEF Fn
  <2>5. TodoInv' /\ Starts(todo')
    BY <2>1, PopStep, Pop DEF TypeInv, Leading
  <2> QED BY <2>1, <2>3, <2>4, <2>5 DEF TypeInv
<1>5. CASE pci_enable_msix
  <2> DEFINE s == IF pci_msix_vec_count(fn) < 0 THEN <<<<"msi", fn>>>>
                  ELSE <<<<"msix_ctrl", fn, FALSE>>>>
                       \o [k \in 1 .. pci_msix_vec_count(fn) |-> <<"msix_entry", fn, k - 1>>]
                       \o <<<<"msix_ctrl", fn, TRUE>>>>
  <2>1. /\ todo # <<>> /\ Head(todo)[1] = "msix" /\ Then(s) /\ machine' = machine
        /\ pci_device_list' = pci_device_list
    BY <1>5 DEF pci_enable_msix, At
  <2>2. fn \in Fn /\ pci_msix_vec_count(fn) \in Int
    BY <2>1, HeadFacts, FnFacts DEF One, TypeInv, pci_msix_vec_count
  <2>3. Whole(s)
    <3>1. PICK f \in Fn : \E n \in Int : f = fn /\ n = pci_msix_vec_count(fn)
      BY <2>2
    <3> QED BY <3>1, MsixWhole
  <2>4. PICK ops : ops = s
    OBVIOUS
  <2> HIDE DEF s
  <2> QED BY <2>1, <2>3, <2>4, PushType DEF Leading
<1>6. CASE pci_enable_msi
  <2> DEFINE nvec == IF pci_msi_vec_count(fn) > 32 THEN 32 ELSE pci_msi_vec_count(fn)
             s == IF nvec < 1 THEN <<>>
                  ELSE <<<<"msi_ctrl", fn, FALSE>>, <<"msi_entry", fn, nvec>>,
                         <<"msi_multiple", fn, nvec>>, <<"msi_ctrl", fn, TRUE>>>>
  <2>1. /\ todo # <<>> /\ Head(todo)[1] = "msi" /\ Then(s) /\ machine' = machine
        /\ pci_device_list' = pci_device_list
    BY <1>6 DEF pci_enable_msi, At
  <2>2. fn \in Fn
    BY <2>1, HeadFacts DEF One
  <2>3. nvec \in Arg
    <3>1. pci_msi_vec_count(fn) \in Arg /\ 32 \in Arg
      BY <2>2, FnFacts, ArgFacts DEF pci_msi_vec_count, TypeInv
    <3> HIDE DEF Arg
    <3> QED BY <3>1
  <2>4. Whole(s)
    <3>1. PICK f \in Fn : \E n \in Arg : f = fn /\ n = nvec
      BY <2>2, <2>3
    <3> QED BY <3>1, MsiWhole, EmptyWhole
  <2>5. PICK ops : ops = s
    OBVIOUS
  <2> HIDE DEF s
  <2> QED BY <2>1, <2>4, <2>5, PushType DEF Leading
<1>7. CASE pci_register_driver(ids)
  <2> DEFINE s == FlattenSeq([k \in DOMAIN pci_device_list |->
                    FlattenSeq([i \in DOMAIN ids[fn] |->
                       IF ids[fn][i] = Hw(pci_device_list[k]).id
                       THEN <<<<"probe", pci_device_list[k], fn>>>> ELSE <<>>])])
  <2>1. /\ todo # <<>> /\ Head(todo)[1] = "driver" /\ Then(s) /\ machine' = machine
        /\ pci_device_list' = pci_device_list
    BY <1>7 DEF pci_register_driver, At
  <2>2. fn \in Driver
    BY <2>1, HeadFacts
  <2>3. Whole(s)
    <3>1. PICK d \in Driver : d = fn
      BY <2>2
    <3> QED BY <3>1, DriverWhole DEF TypeInv
  <2>4. PICK ops : ops = s
    OBVIOUS
  <2> HIDE DEF s
  <2> QED BY <2>1, <2>3, <2>4, PushType DEF Leading
<1>8. CASE pci_probe
  <2>1. /\ todo # <<>> /\ Head(todo)[1] = "probe" /\ Then(Probe(arg, fn)) /\ machine' = machine
        /\ pci_device_list' = pci_device_list
    BY <1>8 DEF pci_probe, At
  <2>2. PICK f \in Fn : \E d \in Driver : f = fn /\ d = arg
    BY <2>1, HeadFacts
  <2>3. Whole(Probe(arg, fn))
    BY <2>2, ProbeWhole
  <2>4. PICK ops : ops = Probe(arg, fn)
    OBVIOUS
  <2> QED BY <2>1, <2>3, <2>4, PushType DEF Leading
<1>9. CASE ixgbe_reset
  <2> DEFINE s == <<<<"reset_wait", fn>>, <<"eec_wait", fn>>, <<"dma_wait", fn>>>>
  <2>1. /\ todo # <<>> /\ Head(todo)[1] = "reset" /\ Then(s) /\ machine' = machine
        /\ pci_device_list' = pci_device_list
    BY <1>9 DEF ixgbe_reset, Does, At
  <2>2. fn \in Fn
    BY <2>1, HeadFacts DEF One
  <2>3. Whole(s)
    <3>1. PICK f \in Fn : f = fn
      BY <2>2
    <3> QED BY <3>1, ResetWhole
  <2>4. PICK ops : ops = s
    OBVIOUS
  <2> HIDE DEF s
  <2> QED BY <2>1, <2>3, <2>4, PushType DEF Leading
<1> QED BY <1>1, <1>2, <1>3, <1>4, <1>5, <1>6, <1>7, <1>8, <1>9

(* packet_transmit begins, and will be called again.                         *)
LEMMA FillType ==
    ASSUME TypeInv, Fill
    PROVE  /\ TypeInv' /\ todo # <<>> /\ Head(todo)[1] = "fill"
           /\ todo' # <<>> /\ Head(todo')[1] = "advance"
<1> DEFINE s == <<<<"advance", fn>>, <<"ring", fn>>, <<"fill", fn>>>>
<1>1. /\ todo # <<>> /\ Head(todo)[1] = "fill" /\ todo' = s \o Tail(todo) /\ machine' = machine
      /\ pci_device_list' = pci_device_list
  BY DEF Fill, Does, At, Then
<1>2. fn \in Fn
  BY <1>1, HeadFacts DEF One
<1>3. <<"advance", fn>> \in Op /\ <<"ring", fn>> \in Op /\ <<"fill", fn>> \in Op
  BY <1>2, OpFacts DEF One
<1>4. s \in Seq(Op) /\ s[1] = <<"advance", fn>> /\ s # <<>>
  BY <1>3
<1>5. Linked(s)
  BY DEF Linked, Link, Backs
<1>6. Ends(s)
  BY DEF Ends, Opening
<1> HIDE DEF s
<1>7. /\ Tail(todo) \in Seq(Op) /\ Linked(Tail(todo)) /\ Ends(Tail(todo)) /\ Starts(Tail(todo))
  BY <1>1, Pop DEF TypeInv, Leading
<1>8. Linked(todo') /\ Ends(todo')
  BY <1>1, <1>4, <1>5, <1>6, <1>7, Join
<1>9. todo' \in Seq(Op) /\ todo' # <<>> /\ Head(todo') = <<"advance", fn>>
  <2> HIDE DEF Op
  <2> QED BY <1>1, <1>4, <1>7
<1>10. Op' = Op /\ Fn' = Fn
  BY <1>1 DEF Op, Fn, Arg, Driver
<1> QED BY <1>1, <1>8, <1>9, <1>10, SMTT(30) DEF TypeInv, TodoInv, Linked, Ends

(* Where the PCI state stays, so do its types.                               *)
LEMMA BesideType ==
    ASSUME TypeInv, UNCHANGED pci_vars
    PROVE  TypeInv' /\ todo' = todo /\ Fn' = Fn
BY DEF TypeInv, TodoInv, pci_vars, Op, Fn, Arg, Driver, Linked, Ends

(* The boot processor starts with arch_numa_init and the init calls.         *)
LEMMA InitTodo ==
    ASSUME Init
    PROVE  \E o \in DriverOrders :
              todo = <<<<"numa">>, <<"hostbridge">>, <<"pci_scan">>, <<"driver", o[1]>>,
                       <<"driver", o[2]>>, <<"driver", o[3]>>>>
<1>1. PICK o \in DriverOrders : todo = <<<<"numa">>>> \o FlattenSeq(initcalls(o))
  BY DEF Init, do_init_call
<1> DEFINE h == <<"hostbridge">>
           p == <<"pci_scan">>
           d == [k \in 1 .. 3 |-> <<"driver", o[k]>>]
           ss == initcalls(o)
<1>2. o \in [1 .. 3 -> Driver]
  BY OrdersAssumption DEF Driver
<1>3. h \in Op /\ p \in Op /\ <<"numa">> \in Op /\ \A k \in 1 .. 3 : d[k] \in Op
  BY <1>2, OpFacts
<1>4. /\ DOMAIN ss = 1 .. 8 /\ ss[4] = <<h>> /\ ss[5] = <<p>> /\ ss[7] = d
      /\ ss[1] = <<>> /\ ss[2] = <<>> /\ ss[3] = <<>> /\ ss[6] = <<>> /\ ss[8] = <<>>
  BY <1>2 DEF initcalls
<1>5. <<h>> \in Seq(Op) /\ <<p>> \in Seq(Op) /\ d \in Seq(Op) /\ <<>> \in Seq(Op) /\ <<<<"numa">>>> \in Seq(Op)
  <2> HIDE DEF Op, h, p
  <2>1. <<h>> \in Seq(Op) /\ <<p>> \in Seq(Op) /\ <<>> \in Seq(Op) /\ <<<<"numa">>>> \in Seq(Op)
    BY <1>3
  <2>2. d \in Seq(Op)
    BY <1>3
  <2> QED BY <2>1, <2>2
<1>6. ss \in Seq(Seq(Op)) /\ Len(ss) = 8
  <2> HIDE DEF Op, h, p, d
  <2>1. \A l \in 1 .. 8 : ss[l] \in Seq(Op)
    <3>1. \A l \in 1 .. 8 : l \in {1, 2, 3, 4, 5, 6, 7, 8}
      OBVIOUS
    <3> HIDE DEF ss
    <3> QED BY <3>1, <1>4, <1>5
  <2>2. ss = [l \in 1 .. 8 |-> ss[l]]
    BY <1>4 DEF initcalls
  <2> HIDE DEF ss
  <2> QED BY <2>1, <2>2
<1>7. PICK F \in [0 .. Len(ss) -> Seq(Op)] : Partial(F, ss)
  BY <1>6, FlattenPartial
<1> HIDE DEF Op, ss
<1>8. /\ F[0] = <<>> /\ F[1] = F[0] \o ss[1] /\ F[2] = F[1] \o ss[2] /\ F[3] = F[2] \o ss[3]
      /\ F[4] = F[3] \o ss[4] /\ F[5] = F[4] \o ss[5] /\ F[6] = F[5] \o ss[6]
      /\ F[7] = F[6] \o ss[7] /\ F[8] = F[7] \o ss[8] /\ FlattenSeq(ss) = F[8]
  <2>1. \A i \in 1 .. 8 : F[i] = F[i - 1] \o ss[i]
    BY <1>6, <1>7 DEF Partial
  <2>2. F[0] = <<>> /\ FlattenSeq(ss) = F[8]
    BY <1>6, <1>7 DEF Partial
  <2>3. /\ 1 - 1 = 0 /\ 2 - 1 = 1 /\ 3 - 1 = 2 /\ 4 - 1 = 3 /\ 5 - 1 = 4 /\ 6 - 1 = 5
        /\ 7 - 1 = 6 /\ 8 - 1 = 7 /\ {1, 2, 3, 4, 5, 6, 7, 8} \subseteq 1 .. 8
    OBVIOUS
  <2> HIDE DEF h, p, d
  <2> QED BY <2>1, <2>2, <2>3
<1> HIDE DEF h, p, d
<1>9. \A s \in Seq(Op) : s \o <<>> = s /\ <<>> \o s = s
  OBVIOUS
<1>10. F[3] = <<>>
  BY <1>4, <1>5, <1>8, <1>9
<1>11. F[6] = <<h>> \o <<p>>
  <2>1. F[4] = <<h>>
    BY <1>4, <1>5, <1>8, <1>9, <1>10
  <2>2. F[5] = <<h>> \o <<p>> /\ <<h>> \o <<p>> \in Seq(Op)
    BY <2>1, <1>4, <1>5, <1>8
  <2> QED BY <2>2, <1>4, <1>8, <1>9
<1>12. FlattenSeq(ss) = (<<h>> \o <<p>>) \o d
  <2>1. F[7] = (<<h>> \o <<p>>) \o d /\ (<<h>> \o <<p>>) \o d \in Seq(Op)
    BY <1>11, <1>4, <1>5, <1>8
  <2> QED BY <2>1, <1>4, <1>8, <1>9
<1>13. todo = <<<<"numa">>>> \o ((<<h>> \o <<p>>) \o d)
  BY <1>1, <1>12 DEF ss
<1> DEFINE v == <<<<"numa">>, <<"hostbridge">>, <<"pci_scan">>, <<"driver", o[1]>>,
                  <<"driver", o[2]>>, <<"driver", o[3]>>>>
           w == <<h>> \o <<p>>
           u == w \o d
<1>14. w \in Seq(Op) /\ Len(w) = 2 /\ w[1] = h /\ w[2] = p
  BY <1>5
<1>15. Len(d) = 3 /\ d[1] = <<"driver", o[1]>> /\ d[2] = <<"driver", o[2]>> /\ d[3] = <<"driver", o[3]>>
  BY DEF d
<1> HIDE DEF w
<1>16. /\ u \in Seq(Op) /\ Len(u) = 5 /\ u[1] = h /\ u[2] = p
       /\ u[3] = d[1] /\ u[4] = d[2] /\ u[5] = d[3]
  <2>1. u \in Seq(Op) /\ Len(u) = 5
    BY <1>5, <1>14, <1>15
  <2>2. /\ \A k \in 1 .. Len(w) : u[k] = w[k]
        /\ \A k \in 1 .. Len(d) : u[Len(w) + k] = d[k]
    <3>1. w \in Seq(Op) /\ d \in Seq(Op)
      BY <1>5, <1>14
    <3> HIDE DEF Op
    <3> QED BY <3>1
  <2> HIDE DEF u
  <2>3. u[1] = w[1] /\ u[2] = w[2]
    BY <2>2, <1>14
  <2>4. u[2 + 1] = d[1] /\ u[2 + 2] = d[2] /\ u[2 + 3] = d[3]
    BY <2>2, <1>14, <1>15
  <2> QED BY <2>1, <2>3, <2>4, <1>14
<1> HIDE DEF u
<1>17. /\ todo \in Seq(Op) /\ Len(todo) = 6 /\ todo[1] = <<"numa">> /\ todo[2] = u[1] /\ todo[3] = u[2]
       /\ todo[4] = u[3] /\ todo[5] = u[4] /\ todo[6] = u[5]
  BY <1>5, <1>13, <1>16 DEF u, w
<1>18. v \in Seq(Op) /\ Len(v) = 6
  <2>1. /\ <<"driver", o[1]>> \in Op /\ <<"driver", o[2]>> \in Op /\ <<"driver", o[3]>> \in Op
        /\ <<"hostbridge">> \in Op /\ <<"pci_scan">> \in Op /\ <<"numa">> \in Op
    BY <1>2, OpFacts
  <2> QED BY <2>1
<1>19. \A k \in 1 .. 6 : todo[k] = v[k]
  <2>1. todo[1] = v[1] /\ todo[2] = v[2] /\ todo[3] = v[3] /\ todo[4] = v[4] /\ todo[5] = v[5] /\ todo[6] = v[6]
    BY <1>15, <1>16, <1>17 DEF h, p
  <2>2. \A k \in 1 .. 6 : k \in {1, 2, 3, 4, 5, 6}
    OBVIOUS
  <2> QED BY <2>1, <2>2
<1>20. todo = v
  <2> HIDE DEF v
  <2> QED BY <1>17, <1>18, <1>19, SameSeq
<1> QED BY <1>20

(* The boot begins with the types.                                           *)
LEMMA InitType == Init => TypeInv
<1> SUFFICES ASSUME Init PROVE TypeInv
  OBVIOUS
<1>1. PICK o \in DriverOrders :
         todo = <<<<"numa">>, <<"hostbridge">>, <<"pci_scan">>, <<"driver", o[1]>>,
                  <<"driver", o[2]>>, <<"driver", o[3]>>>>
  BY InitTodo
<1>2. o \in [1 .. 3 -> Driver]
  BY OrdersAssumption DEF Driver
<1>3. /\ <<"driver", o[1]>> \in Op /\ <<"driver", o[2]>> \in Op /\ <<"driver", o[3]>> \in Op
      /\ <<"hostbridge">> \in Op /\ <<"pci_scan">> \in Op /\ <<"numa">> \in Op
  BY <1>2, OpFacts
<1>4. todo \in Seq(Op)
  BY <1>1, <1>3
<1>5. \A x \in Range(todo) : x[1] \in {"numa", "hostbridge", "pci_scan", "driver"}
  BY <1>1 DEF Range
<1>6. Whole(todo)
  BY <1>4, <1>5, PlainWhole, NotLinked
<1>7. machine \in Machines /\ pci_device_list = <<>>
  BY DEF Init, PciInit
<1> QED BY <1>6, <1>7 DEF TypeInv, TodoInv, Whole
-------------------------------------------------------------------------------
(* Decoding.  A register differs from what the firmware gave it only while   *)
(* the head of todo is the step that writes it back; then, and before a      *)
(* register is written with ones, the function decodes nothing.              *)
Head1 == IF todo = <<>> THEN "none" ELSE Head(todo)[1]
CfgInv ==
    /\ DOMAIN cfg = Fn
    /\ \A f \in Fn : /\ {"decode", "master", "bar", "msi", "msix"} \subseteq DOMAIN cfg[f]
                     /\ DOMAIN cfg[f].bar = 0 .. Rom
    /\ {"cmd", "ori", "lo", "hi"} \subseteq DOMAIN local
Busy(f, i) == Head1 \in Backs /\ fn = f /\ arg = i
BarsInv == \A f \in Fn : \A i \in 0 .. Rom : Busy(f, i) \/ cfg[f].bar[i] = Hw(f).bar[i].at
OffInv == Head1 \in {"ones"} \cup Backs => cfg[fn].decode = FALSE
OriInv == (Head1 \in Backs /\ arg \in 0 .. Rom) => local.ori = Hw(fn).bar[arg].at
DecodeInv == CfgInv /\ BarsInv /\ OffInv /\ OriInv

(* The step that comes to the head when another goes.                        *)
LEMMA NextHead ==
    ASSUME TypeInv, todo # <<>>, Then(<<>>), machine' = machine
    PROVE  /\ todo' # <<>> => Link(Head(todo), Head(todo')) /\ Head(todo') \in Op
           /\ Head(todo)[1] \in Opening => todo' # <<>>
<1>1. /\ todo' = Tail(todo) /\ Tail(todo) \in Seq(Op)
      /\ Tail(todo) # <<>> => Link(Head(todo), Tail(todo)[1])
      /\ Head(todo)[1] \in Opening => Tail(todo) # <<>>
  BY Pop, PopStep DEF TypeInv
<1>2. Tail(todo) # <<>> => Head(Tail(todo)) = Tail(todo)[1] /\ Tail(todo)[1] \in Op
  <2> DEFINE t == Tail(todo)
  <2> HIDE DEF t, Op
  <2>1. t \in Seq(Op)
    BY <1>1 DEF t
  <2>2. t # <<>> => Head(t) = t[1] /\ t[1] \in Op
    BY <2>1
  <2> QED BY <2>2 DEF t
<1> QED BY <1>1, <1>2

(* A step that touches no register leaves the firmware's addresses in them.  *)
LEMMA QuietStep ==
    ASSUME DecodeInv, machine' = machine, CfgInv', \A f \in Fn : cfg'[f].bar = cfg[f].bar,
           Head1 \notin {"ones"} \cup Backs, Head1' \notin {"ones"} \cup Backs
    PROVE  DecodeInv'
<1>1. Fn' = Fn /\ \A f : Hw(f)' = Hw(f)
  BY DEF Fn, Hw
<1>2. BarsInv'
  BY <1>1 DEF DecodeInv, BarsInv, Busy
<1> QED BY <1>2 DEF DecodeInv, OffInv, OriInv

(* No call begins in the middle of the sizing of a register.                 *)
LEMMA StartsQuiet ==
    ASSUME TypeInv', Starts(todo')
    PROVE  Head1' \notin {"ones"} \cup Backs
<1>1. CASE todo' = <<>>
  BY <1>1 DEF Head1, Backs
<1>2. CASE todo' # <<>>
  <2>1. todo' \in Seq(Op')
    BY DEF TypeInv, TodoInv
  <2>2. Head(todo') = todo'[1]
    <3> HIDE DEF Op
    <3> QED BY <2>1, <1>2
  <2> QED BY <1>2, <2>2 DEF Starts, Head1, Backs, Closing
<1> QED BY <1>1, <1>2

(* An action that changes other registers than the address registers.        *)
LEMMA PopQuiet ==
    ASSUME TypeInv, DecodeInv, Pops, ~CommandOff, ~Ones, ~Back
    PROVE  /\ Head1 \notin {"command_off", "ones"} \cup Backs
           /\ CfgInv' /\ \A f \in Fn : cfg'[f].bar = cfg[f].bar
<1>1. CASE CommandBack
  BY <1>1 DEF CommandBack, At, Head1, Backs, DecodeInv, CfgInv, Fn
<1>2. CASE x86_pci_hostbridge_init
  BY <1>2 DEF x86_pci_hostbridge_init, At, Head1, Backs, DecodeInv, CfgInv, Fn
<1>3. CASE BarEnd
  BY <1>3 DEF BarEnd, At, Head1, Backs, DecodeInv, CfgInv, Fn
<1>4. CASE pci_enable_device
  BY <1>4 DEF pci_enable_device, At, Head1, Backs, DecodeInv, CfgInv, Fn
<1>5. CASE pci_set_master
  BY <1>5 DEF pci_set_master, At, Head1, Backs, DecodeInv, CfgInv, Fn
<1>6. CASE pci_msix_clear_and_set_ctrl
  BY <1>6 DEF pci_msix_clear_and_set_ctrl, At, Head1, Backs, DecodeInv, CfgInv, Fn
<1>7. CASE pci_msi_set_enable
  BY <1>7 DEF pci_msi_set_enable, At, Head1, Backs, DecodeInv, CfgInv, Fn
<1>8. CASE msix_entry_setup
  BY <1>8 DEF msix_entry_setup, At, Head1, Backs, DecodeInv, CfgInv, Fn
<1>9. CASE msi_entry_setup
  BY <1>9 DEF msi_entry_setup, At, Head1, Backs, DecodeInv, CfgInv, Fn
<1>10. CASE pci_msi_multiple_enable
  BY <1>10 DEF pci_msi_multiple_enable, At, Head1, Backs, DecodeInv, CfgInv, Fn
<1>11. CASE ResetWait
  BY <1>11 DEF ResetWait, Does, At, Head1, Backs, DecodeInv, CfgInv, Fn
<1>12. CASE EecWait
  BY <1>12 DEF EecWait, Does, At, Head1, Backs, DecodeInv, CfgInv, Fn
<1>13. CASE DmaWait
  BY <1>13 DEF DmaWait, Does, At, Head1, Backs, DecodeInv, CfgInv, Fn
<1>14. CASE rx_init
  BY <1>14 DEF rx_init, Does, At, Head1, Backs, DecodeInv, CfgInv, Fn
<1>15. CASE tx_init
  BY <1>15 DEF tx_init, Does, At, Head1, Backs, DecodeInv, CfgInv, Fn
<1>16. CASE Unmask
  BY <1>16 DEF Unmask, Does, At, Head1, Backs, DecodeInv, CfgInv, Fn
<1>17. CASE Advance
  BY <1>17 DEF Advance, Does, At, Head1, Backs, DecodeInv, CfgInv, Fn
<1>18. CASE RingTail
  BY <1>18 DEF RingTail, Does, At, Head1, Backs, DecodeInv, CfgInv, Fn
<1>19. CASE NumaInit
  BY <1>19 DEF NumaInit, At, Head1, Backs, DecodeInv, CfgInv, Fn
<1> QED BY <1>1, <1>2, <1>3, <1>4, <1>5, <1>6, <1>7, <1>8, <1>9, <1>10, <1>11, <1>12, <1>13, <1>14, <1>15, <1>16, <1>17, <1>18, <1>19, Zenon DEF Pops

(* Every step keeps the firmware's addresses where they are decoded.         *)
LEMMA DecodeStep ==
    ASSUME TypeInv, DecodeInv, Next
    PROVE  DecodeInv'
<1>1. CASE CommandOff
  <2>1. /\ todo # <<>> /\ Head1 = "command_off" /\ Then(<<>>) /\ machine' = machine
        /\ local' = [local EXCEPT !.cmd = cfg[fn].decode, !.hi = AllOnes]
        /\ cfg' = [cfg EXCEPT ![fn].decode = FALSE]
    BY <1>1 DEF CommandOff, At, Head1
  <2>2. fn \in Fn /\ Fn' = Fn /\ \A f : Hw(f)' = Hw(f)
    BY <2>1, HeadFacts DEF One, Head1, Fn, Hw
  <2>3. CfgInv'
    BY <2>1, <2>2 DEF DecodeInv, CfgInv
  <2>4. /\ \A f \in Fn : cfg'[f].bar = cfg[f].bar
        /\ cfg'[fn].decode = FALSE
    BY <2>1, <2>2 DEF DecodeInv, CfgInv
  <2>5. todo' # <<>> => Link(Head(todo), Head(todo'))
    BY <2>1, NextHead
  <2>6. BarsInv'
    BY <2>1, <2>2, <2>4 DEF DecodeInv, BarsInv, Busy, Backs
  <2>7. Head1' \notin Backs /\ (Head1' = "ones" => fn' = fn)
    BY <2>1, <2>5 DEF Link, Head1, fn, Backs
  <2> QED BY <2>3, <2>4, <2>6, <2>7 DEF DecodeInv, OffInv, OriInv
<1>2. CASE Ones
  <2>1. /\ todo # <<>> /\ Head1 = "ones" /\ Then(<<>>) /\ machine' = machine
        /\ local' = [local EXCEPT !.ori = cfg[fn].bar[arg]]
        /\ cfg' = [cfg EXCEPT ![fn].bar[arg] = Held(fn, arg, AllOnes)]
    BY <1>2 DEF Ones, At, Head1, read_config, write_config
  <2>2. fn \in Fn /\ Fn' = Fn /\ \A f : Hw(f)' = Hw(f)
    BY <2>1, HeadFacts DEF Reg, Head1, Fn, Hw
  <2>3. CfgInv'
    BY <2>1, <2>2 DEF DecodeInv, CfgInv
  <2>4. /\ \A f \in Fn : \A i \in 0 .. Rom : ~(f = fn /\ i = arg) => cfg'[f].bar[i] = cfg[f].bar[i]
        /\ cfg'[fn].decode = cfg[fn].decode /\ local'.ori = cfg[fn].bar[arg]
    BY <2>1, <2>2 DEF DecodeInv, CfgInv
  <2>5. todo' # <<>> /\ Link(Head(todo), Head(todo'))
    BY <2>1, NextHead DEF Head1, Opening
  <2>6. Head1' \in Backs /\ fn' = fn /\ arg' = arg
    BY <2>1, <2>5 DEF Link, Head1, fn, arg, Backs
  <2>7. \A f \in Fn : \A i \in 0 .. Rom : cfg[f].bar[i] = Hw(f).bar[i].at
    BY <2>1 DEF DecodeInv, BarsInv, Busy, Backs
  <2>8. BarsInv'
    BY <2>2, <2>4, <2>6, <2>7 DEF BarsInv, Busy
  <2>9. OffInv' /\ OriInv'
    BY <2>1, <2>2, <2>4, <2>6, <2>7 DEF DecodeInv, OffInv, OriInv
  <2> QED BY <2>3, <2>8, <2>9 DEF DecodeInv
<1>3. CASE Back
  <2>1. /\ todo # <<>> /\ Head1 \in Backs /\ Then(<<>>) /\ machine' = machine
        /\ cfg' = [cfg EXCEPT ![fn].bar[arg] = Held(fn, arg, local.ori)]
    BY <1>3 DEF Back, At, Head1, write_config, Backs
  <2>10. \/ local' = [local EXCEPT !.lo = [size |-> read_config(fn, arg), ori |-> local.ori]]
         \/ local' = [local EXCEPT !.hi = read_config(fn, arg)]
    BY <1>3 DEF Back
  <2>2. fn \in Fn /\ Fn' = Fn /\ \A f : Hw(f)' = Hw(f)
    BY <2>1, HeadFacts DEF Reg, Head1, Fn, Hw, Backs
  <2>3. CfgInv'
    <3>1. {"cmd", "ori", "lo", "hi"} \subseteq DOMAIN local'
      BY <2>10 DEF DecodeInv, CfgInv
    <3> QED BY <2>1, <2>2, <3>1 DEF DecodeInv, CfgInv
  <2>4. /\ \A f \in Fn : \A i \in 0 .. Rom : ~(f = fn /\ i = arg) => cfg'[f].bar[i] = cfg[f].bar[i]
        /\ cfg'[fn].decode = cfg[fn].decode
        /\ arg \in 0 .. Rom => cfg'[fn].bar[arg] = Held(fn, arg, local.ori)
    BY <2>1, <2>2 DEF DecodeInv, CfgInv
  <2>5. arg \in 0 .. Rom => Held(fn, arg, local.ori) = Hw(fn).bar[arg].at
    <3>1. arg \in 0 .. Rom => local.ori = Hw(fn).bar[arg].at
      BY <2>1 DEF DecodeInv, OriInv
    <3> QED BY <3>1, <2>2, MachinesAssumption DEF TypeInv, Held, Hw, Fn
  <2>6. \A f \in Fn : \A i \in 0 .. Rom : ~(f = fn /\ i = arg) => cfg[f].bar[i] = Hw(f).bar[i].at
    BY <2>1 DEF DecodeInv, BarsInv, Busy
  <2>7. BarsInv'
    BY <2>2, <2>4, <2>5, <2>6 DEF BarsInv
  <2>8. todo' # <<>> => Link(Head(todo), Head(todo'))
    BY <2>1, NextHead
  <2>9. Head1' \notin Backs /\ (Head1' = "ones" => fn' = fn)
    BY <2>1, <2>8 DEF Link, Head1, fn, Backs
  <2>11. cfg[fn].decode = FALSE
    BY <2>1 DEF DecodeInv, OffInv
  <2> QED BY <2>3, <2>4, <2>7, <2>9, <2>11 DEF DecodeInv, OffInv, OriInv
<1>4. CASE Pops /\ ~CommandOff /\ ~Ones /\ ~Back
  <2>1. /\ Head1 \notin {"command_off", "ones"} \cup Backs
        /\ CfgInv' /\ \A f \in Fn : cfg'[f].bar = cfg[f].bar
    BY <1>4, PopQuiet
  <2>2. todo # <<>> /\ Then(<<>>) /\ machine' = machine
    BY <1>4, PopsFacts
  <2>3. todo' # <<>> => Link(Head(todo), Head(todo'))
    BY <2>2, NextHead
  <2>4. Head1' \notin {"ones"} \cup Backs
    BY <2>1, <2>2, <2>3 DEF Head1, Link, Backs
  <2> QED BY <2>1, <2>2, <2>4, QuietStep
<1>5. CASE pci_scan \/ pci_device_init \/ Bar \/ register_pci_device \/ pci_enable_msix
           \/ pci_enable_msi \/ pci_register_driver(ids) \/ pci_probe \/ ixgbe_reset
  <2>1. Head1' \notin {"ones"} \cup Backs
    BY <1>5, PushesType, StartsQuiet
  <2>2. /\ Head1 \notin {"ones"} \cup Backs
        /\ UNCHANGED <<cfg, local, machine>>
    BY <1>5 DEF pci_scan, pci_device_init, Bar, register_pci_device, pci_enable_msix,
                pci_enable_msi, pci_register_driver, pci_probe, ixgbe_reset, Does, At, Head1, Backs
  <2>3. CfgInv' /\ \A f \in Fn : cfg'[f].bar = cfg[f].bar
    BY <2>2 DEF DecodeInv, CfgInv, Fn
  <2> QED BY <2>1, <2>2, <2>3, QuietStep
<1>6. CASE Fill
  <2>1. /\ Head1 = "fill" /\ Head1' = "advance"
    BY <1>6, FillType DEF Head1
  <2>2. UNCHANGED <<cfg, local, machine>>
    BY <1>6 DEF Fill, Does
  <2>3. CfgInv' /\ \A f \in Fn : cfg'[f].bar = cfg[f].bar
    BY <2>2 DEF DecodeInv, CfgInv, Fn
  <2> QED BY <2>1, <2>2, <2>3, QuietStep DEF Backs
<1>7. CASE UNCHANGED pci_vars
  BY <1>7 DEF pci_vars, DecodeInv, CfgInv, BarsInv, OffInv, OriInv, Busy, Head1, fn, arg, Fn, Hw
<1> QED BY <1>1, <1>2, <1>3, <1>4, <1>5, <1>6, <1>7, Steps, BesideFacts, Zenon

(* Init => TypeInv /\ DecodeInv, and every step keeps both.                  *)
LEMMA TypeStep == TypeInv /\ [Next]_vars => TypeInv'
<1> SUFFICES ASSUME TypeInv, [Next]_vars PROVE TypeInv'
  OBVIOUS
<1>1. CASE Next
  BY <1>1, Steps, PopType, PushesType, FillType, BesideFacts, BesideType, Zenon
<1>2. CASE UNCHANGED vars
  BY <1>2, BesideType DEF vars
<1> QED BY <1>1, <1>2

(* The boot begins with every address as the firmware has set it.            *)
LEMMA InitDecode == Init => DecodeInv
<1> SUFFICES ASSUME Init PROVE DecodeInv
  OBVIOUS
<1>1. PICK o \in DriverOrders :
         todo = <<<<"numa">>, <<"hostbridge">>, <<"pci_scan">>, <<"driver", o[1]>>,
                  <<"driver", o[2]>>, <<"driver", o[3]>>>>
  BY InitTodo
<1>2. Head1 = "numa"
  BY <1>1 DEF Head1
<1>3. PciInit(machine) /\ machine \in Machines
  BY DEF Init, PciInit
<1>4. CfgInv
  BY <1>3 DEF PciInit, CfgInv, Fn
<1>5. BarsInv
  BY <1>3 DEF PciInit, BarsInv, Fn, Hw
<1> QED BY <1>2, <1>4, <1>5 DEF DecodeInv, OffInv, OriInv, Backs

(* Steps and stuttering.                                                     *)
LEMMA NextDecode == TypeInv /\ DecodeInv /\ [Next]_vars => DecodeInv'
<1> SUFFICES ASSUME TypeInv, DecodeInv, [Next]_vars PROVE DecodeInv'
  OBVIOUS
<1>1. CASE UNCHANGED vars
  BY <1>1 DEF vars, pci_vars, DecodeInv, CfgInv, BarsInv, OffInv, OriInv, Busy, Head1, fn, arg, Fn, Hw
<1> QED BY <1>1, DecodeStep

(* DecodeSound: whatever the sizing of the address registers does, and       *)
(* whichever driver enables whichever function, a function that decodes      *)
(* decodes only the ranges the firmware has given it.                        *)
THEOREM DecodeTheorem == Spec => []DecodeSound
<1>1. Init => TypeInv /\ DecodeInv
  BY InitType, InitDecode
<1>2. TypeInv /\ DecodeInv /\ [Next]_vars => (TypeInv /\ DecodeInv)'
  BY TypeStep, NextDecode
<1>3. TypeInv /\ DecodeInv => DecodeSound
  <2> SUFFICES ASSUME TypeInv, DecodeInv, NEW f \in Fn, cfg[f].decode, NEW i \in 0 .. NBar(f) - 1
               PROVE  cfg[f].bar[i] = Hw(f).bar[i].at
    BY DEF DecodeSound
  <2>1. i \in 0 .. Rom
    BY DEF NBar, Rom
  <2>2. ~Busy(f, i)
    BY DEF Busy, DecodeInv, OffInv
  <2> QED BY <2>1, <2>2 DEF DecodeInv, BarsInv
<1> QED BY <1>1, <1>2, <1>3, PTL DEF Spec

-------------------------------------------------------------------------------
(* The network card.  Once the driver transmits it does nothing else, so the *)
(* rings are set up at most once before that.  Done(n): the descriptors of   *)
(* the first n packets have been written.                                    *)
Sending == Head1 \in {"fill", "advance", "ring"}
Waits == {"reset_wait", "eec_wait", "dma_wait"}
CardInv ==
    /\ card \in {"run", "reset", "eeprom", "dma"}
    /\ card # "run" => Head1 \in Waits
    /\ ready \subseteq {"rx", "tx"}
    /\ Head1 = "tx_init" => "rx" \in ready
    /\ Head1 = "unmask" => ready = {"rx", "tx"}
    /\ eims => Sending /\ ready = {"rx", "tx"} /\ card = "run"
Done(n) == \A i \in 0 .. Ring - 1 : i < n => i \in filled[free_queue]
SendInv ==
    /\ sent \in Nat /\ (~Sending => sent = 0)
    /\ tail \in [Queue -> Nat] /\ tdt \in [Queue -> Nat] /\ tdh \in [Queue -> Nat]
    /\ DOMAIN filled = Queue
    /\ tail[0] = 0 /\ tdt[0] = 0 /\ tdh[0] = 0
    /\ tdt[free_queue] = sent % Ring
    /\ tail[free_queue] = (IF Head1 = "ring" THEN sent + 1 ELSE sent) % Ring
    /\ Done(IF Head1 \in {"advance", "ring"} THEN sent + 1 ELSE sent)
    /\ tdh[free_queue] < Ring
    /\ sent < Ring => tdh[free_queue] <= sent
NicInv == CardInv /\ SendInv

(* Arithmetic modulo the size of a ring.                                     *)
LEMMA ModFacts ==
    ASSUME NEW R \in Nat \ {0}, NEW n \in Nat
    PROVE  /\ n % R \in 0 .. R - 1
           /\ ((n % R) + 1) % R = (n + 1) % R
           /\ n < R => n % R = n
           /\ \A x \in 0 .. R - 1 : x < R - 1 => (x + 1) % R = x + 1
           /\ (R - 1 + 1) % R = 0
<1>1. n % R \in 0 .. R - 1 /\ n \div R \in Nat /\ n = R * (n \div R) + (n % R)
  <2>1. n % R \in 0 .. R - 1 /\ n \div R \in Nat
    OBVIOUS
  <2>2. n = R * (n \div R) + (n % R)
    OBVIOUS
  <2> QED BY <2>1, <2>2
<1>2. ASSUME NEW q \in Nat, NEW x \in 0 .. R - 1 PROVE (R * q + x) % R = x
  <2> DEFINE y == R * q + x
             a == y \div R
             b == y % R
  <2>1. y \in Nat /\ a \in Nat /\ b \in 0 .. R - 1 /\ y = R * a + b
    <3>1. y \in Nat
      OBVIOUS
    <3> HIDE DEF y
    <3> QED BY <3>1
  <2>2. R * a + b = R * q + x
    BY <2>1
  <2> HIDE DEF a, b, y
  <2>3. ASSUME NEW u \in Nat, NEW v \in Nat, u >= v + 1
        PROVE  R * u >= R * v + R
    <3>1. R * (v + 1) = R * v + R
      OBVIOUS
    <3>2. R * u >= R * (v + 1)
      BY <2>3, Z3
    <3> QED BY <3>1, <3>2
  <2>4. R * a \in Nat /\ R * q \in Nat
    BY <2>1
  <2>5. ~(a >= q + 1) /\ ~(q >= a + 1)
    BY <2>1, <2>2, <2>3, <2>4
  <2>6. a = q
    BY <2>1, <2>5
  <2> QED BY <2>1, <2>2, <2>4, <2>6 DEF b, y
<1>3. \A x \in 0 .. R - 1 : x % R = x
  OBVIOUS
<1>4. ((n % R) + 1) % R = (n + 1) % R
  <2> DEFINE x == n % R
             q == n \div R
  <2>1. CASE x + 1 < R
    <3>1. (R * q + (x + 1)) % R = x + 1 /\ (x + 1) % R = x + 1
      <4>1. x + 1 \in 0 .. R - 1 /\ q \in Nat
        BY <1>1, <2>1
      <4> HIDE DEF x, q
      <4> QED BY <4>1, <1>2, <1>3
    <3>2. n + 1 = R * q + (x + 1)
      BY <1>1
    <3> QED BY <3>1, <3>2
  <2>2. CASE x + 1 = R
    <3>1. n + 1 = R * (q + 1) + 0
      <4> HIDE DEF x, q
      <4> QED BY <1>1, <2>2 DEF x, q
    <3>2. (R * (q + 1) + 0) % R = 0
      <4>1. q + 1 \in Nat /\ 0 \in 0 .. R - 1
        BY <1>1
      <4> HIDE DEF x, q
      <4> QED BY <4>1, <1>2
    <3>3. R % R = 0
      OBVIOUS
    <3> QED BY <3>1, <3>2, <3>3, <2>2
  <2> QED BY <2>1, <2>2, <1>1
<1> QED BY <1>1, <1>3, <1>4

(* The queue of packet_transmit is not the handler's.                        *)
LEMMA QueueFacts == Queue = {0, free_queue} /\ free_queue # 0
BY DEF Queue, free_queue
NicHeads == {"fill", "advance", "ring", "reset_wait", "eec_wait", "dma_wait", "rx_init", "tx_init",
             "unmask"}
Followers == {"advance", "ring", "eec_wait", "dma_wait", "tx_init", "unmask"}

(* What the driver of the card does not do leaves the card as it was.        *)
LEMMA NicQuiet ==
    ASSUME NicInv, UNCHANGED nic_vars, Head1 \notin NicHeads, Head1' \notin Followers
    PROVE  NicInv'
<1>1. UNCHANGED <<tail, tdt, tdh, filled, ready, card, eims, sent>>
  BY DEF nic_vars
<1>2. ~Sending /\ Head1 \notin Waits
  BY DEF NicHeads, Sending, Waits
<1>3. CardInv'
  BY <1>1, <1>2 DEF NicInv, CardInv, Followers
<1>4. SendInv'
  BY <1>1, <1>2 DEF NicInv, SendInv, Followers, NicHeads, Done
<1> QED BY <1>3, <1>4 DEF NicInv

(* What follows each of the driver's steps.                                  *)
LEMMA PopFollows ==
    ASSUME TypeInv, todo # <<>>, Then(<<>>), machine' = machine
    PROVE  /\ Head1 = Head(todo)[1]
           /\ Head1 \notin {"advance", "reset_wait", "eec_wait", "rx_init", "tx_init"}
                 => Head1' \notin Followers
           /\ Head1 = "advance" => Head1' = "ring"
           /\ Head1 = "ring" => Head1' = "fill"
           /\ Head1 = "unmask" => Head1' = "fill"
           /\ Head1 = "reset_wait" => Head1' = "eec_wait"
           /\ Head1 = "eec_wait" => Head1' = "dma_wait"
           /\ Head1 = "rx_init" => Head1' \notin Followers \ {"tx_init"}
           /\ Head1 = "tx_init" => Head1' \notin Followers \ {"unmask"}
<1>1. /\ Head1 = Head(todo)[1]
      /\ todo' # <<>> => Link(Head(todo), Head(todo'))
      /\ Head1 \in Opening => todo' # <<>>
  BY NextHead DEF Head1
<1>2. CASE todo' = <<>>
  BY <1>1, <1>2 DEF Head1, Followers, Opening
<1>3. CASE todo' # <<>>
  BY <1>1, <1>3 DEF Head1, Followers, Link, Backs
<1> QED BY <1>1, <1>2, <1>3

(* The PCI core, between two steps of the driver.                            *)
LEMMA PciQuiet ==
    ASSUME TypeInv, NicInv, UNCHANGED nic_vars,
           CommandOff \/ Ones \/ Back \/ CommandBack \/ x86_pci_hostbridge_init \/ BarEnd
              \/ pci_enable_device \/ pci_set_master \/ pci_msix_clear_and_set_ctrl
              \/ pci_msi_set_enable \/ msix_entry_setup \/ msi_entry_setup
              \/ pci_msi_multiple_enable \/ NumaInit
              \/ pci_scan \/ pci_device_init \/ Bar \/ register_pci_device \/ pci_enable_msix
              \/ pci_enable_msi \/ pci_register_driver(ids) \/ pci_probe
    PROVE  NicInv'
<1>1. CASE pci_scan \/ pci_device_init \/ Bar \/ register_pci_device \/ pci_enable_msix
           \/ pci_enable_msi \/ pci_register_driver(ids) \/ pci_probe
  <2>1. TypeInv' /\ Starts(todo')
    BY <1>1, PushesType
  <2>2. Head1' \notin Followers
    <3>1. todo' # <<>> => Head(todo') = todo'[1]
      OBVIOUS
    <3> QED BY <2>1, <3>1 DEF Starts, Head1, Followers, Closing
  <2>3. Head1 \notin NicHeads
    BY <1>1 DEF pci_scan, pci_device_init, Bar, register_pci_device, pci_enable_msix,
                pci_enable_msi, pci_register_driver, pci_probe, At, Head1, NicHeads
  <2> QED BY <2>2, <2>3, NicQuiet
<1>2. CASE CommandOff \/ Ones \/ Back \/ CommandBack \/ x86_pci_hostbridge_init \/ BarEnd
           \/ pci_enable_device \/ pci_set_master \/ pci_msix_clear_and_set_ctrl
           \/ pci_msi_set_enable \/ msix_entry_setup \/ msi_entry_setup
           \/ pci_msi_multiple_enable \/ NumaInit
  <2>1. todo # <<>> /\ Then(<<>>) /\ machine' = machine
    BY <1>2, PopsFacts, Zenon DEF Pops
  <2>2. Head1 \notin NicHeads
    BY <1>2 DEF CommandOff, Ones, Back, CommandBack, x86_pci_hostbridge_init, BarEnd,
                pci_enable_device, pci_set_master, pci_msix_clear_and_set_ctrl,
                pci_msi_set_enable, msix_entry_setup, msi_entry_setup,
                pci_msi_multiple_enable, NumaInit, At, Head1, NicHeads
  <2>3. Head1' \notin Followers
    BY <2>1, <2>2, PopFollows DEF NicHeads
  <2> QED BY <2>2, <2>3, NicQuiet
<1> QED BY <1>1, <1>2

(* The driver's own steps.                                                   *)
LEMMA ResetNic ==
    ASSUME TypeInv, NicInv, ixgbe_reset
    PROVE  NicInv'
<1> DEFINE s == <<<<"reset_wait", fn>>, <<"eec_wait", fn>>, <<"dma_wait", fn>>>>
<1>1. /\ Head1 = "reset" /\ todo' = s \o Tail(todo) /\ todo # <<>> /\ card' = "reset" /\ eims' = FALSE
      /\ UNCHANGED <<tail, tdt, tdh, filled, ready, sent>>
  BY DEF ixgbe_reset, Does, At, Then, Head1, ring_vars
<1>2. Head1' = "reset_wait"
  <2>1. s \in Seq({s[1], s[2], s[3]}) /\ s # <<>> /\ Head(s)[1] = "reset_wait" /\ Head(s) = s[1]
    OBVIOUS
  <2>2. Tail(todo) \in Seq(Op)
    BY <1>1, Pop DEF TypeInv
  <2>3. todo' # <<>> /\ Head(todo') = s[1]
    <3> HIDE DEF Op
    <3>1. PICK t \in Seq(Op) : t = Tail(todo)
      BY <2>2
    <3>2. s \o t # <<>> /\ Head(s \o t) = s[1]
      <4> HIDE DEF s
      <4>1. Len(s) # 0 /\ s \in Seq({s[1], s[2], s[3]})
        BY <2>1
      <4> QED BY <4>1, ConcatFacts
    <3> QED BY <3>1, <3>2, <1>1
  <2> QED BY <2>1, <2>3 DEF Head1
<1>3. CardInv'
  BY <1>1, <1>2 DEF NicInv, CardInv, Waits
<1>4. SendInv'
  BY <1>1, <1>2 DEF NicInv, SendInv, Sending, Done
<1> QED BY <1>3, <1>4 DEF NicInv

(* The waits of the reset: the last one is over only when the card runs.     *)
LEMMA WaitNic ==
    ASSUME TypeInv, NicInv, ResetWait \/ EecWait \/ DmaWait
    PROVE  NicInv'
<1>1. /\ UNCHANGED <<tail, tdt, tdh, filled, ready, card, eims, sent>>
      /\ todo # <<>> /\ Then(<<>>) /\ machine' = machine
  BY DEF ResetWait, EecWait, DmaWait, Does, At, nic_vars
<1>2. Head1 \in Waits /\ (Head1 = "dma_wait" => card = "run")
  BY DEF ResetWait, EecWait, DmaWait, Does, At, Head1, Waits
<1>3. Head1' \in Waits \/ (Head1' \notin Followers /\ card = "run")
  BY <1>1, <1>2, PopFollows DEF Waits, Followers
<1>4. CardInv'
  BY <1>1, <1>2, <1>3 DEF NicInv, CardInv, Followers, Waits, Sending
<1>5. SendInv'
  BY <1>1, <1>2, <1>3 DEF NicInv, SendInv, Followers, Waits, Sending, Done
<1> QED BY <1>4, <1>5 DEF NicInv

(* The receive ring exists.                                                  *)
LEMMA RxNic ==
    ASSUME TypeInv, NicInv, rx_init
    PROVE  NicInv'
<1>1. /\ UNCHANGED <<tail, tdt, tdh, filled, card, eims, sent>> /\ ready' = ready \cup {"rx"}
      /\ todo # <<>> /\ Then(<<>>) /\ machine' = machine /\ Head1 = "rx_init"
  BY DEF rx_init, Does, At, Head1
<1>2. Head1' \notin Followers \ {"tx_init"}
  BY <1>1, PopFollows
<1>3. CardInv'
  BY <1>1, <1>2 DEF NicInv, CardInv, Followers, Waits, Sending
<1>4. SendInv'
  BY <1>1, <1>2 DEF NicInv, SendInv, Followers, Sending, Done
<1> QED BY <1>3, <1>4 DEF NicInv

(* The transmit rings exist, and are empty.                                  *)
LEMMA TxNic ==
    ASSUME TypeInv, NicInv, tx_init
    PROVE  NicInv'
<1>1. /\ UNCHANGED <<card, eims, sent>> /\ ready' = ready \cup {"tx"}
      /\ todo # <<>> /\ Then(<<>>) /\ machine' = machine /\ Head1 = "tx_init"
  BY DEF tx_init, Does, At, Head1
<1>2. /\ tail' = [q \in Queue |-> 0] /\ tdt' = [q \in Queue |-> 0]
      /\ tdh' = [q \in Queue |-> 0] /\ filled' = [q \in Queue |-> {}]
  BY DEF tx_init
<1>3. Head1' \notin Followers \ {"unmask"}
  BY <1>1, PopFollows
<1>4. CardInv'
  BY <1>1, <1>3 DEF NicInv, CardInv, Followers, Waits, Sending
<1>5. sent = 0
  BY <1>1 DEF NicInv, SendInv, Sending
<1>6. 0 % Ring = 0 /\ Ring > 0
  BY RingAssumption
<1>7. SendInv'
  <2>1. Head1' \notin {"advance", "ring"}
    BY <1>3 DEF Followers
  <2>2. Done(0)'
    BY RingAssumption DEF Done
  <2>3. sent' = 0
    BY <1>1, <1>5
  <2> QED BY <2>1, <2>2, <2>3, <1>2, <1>6, QueueFacts DEF SendInv
<1> QED BY <1>4, <1>7 DEF NicInv

(* Both rings exist when the interrupts are unmasked.                        *)
LEMMA UnmaskNic ==
    ASSUME TypeInv, NicInv, Unmask
    PROVE  NicInv'
<1>1. /\ UNCHANGED <<tail, tdt, tdh, filled, ready, card, sent>>
      /\ todo # <<>> /\ Then(<<>>) /\ machine' = machine /\ Head1 = "unmask"
  BY DEF Unmask, Does, At, Head1, ring_vars
<1>2. Head1' = "fill"
  BY <1>1, PopFollows
<1>3. CardInv'
  BY <1>1, <1>2 DEF NicInv, CardInv, Waits, Sending
<1>4. SendInv'
  BY <1>1, <1>2 DEF NicInv, SendInv, Sending, Done
<1> QED BY <1>3, <1>4 DEF NicInv

(* packet_transmit.                                                          *)
LEMMA FillNic ==
    ASSUME TypeInv, NicInv, Fill
    PROVE  NicInv'
<1>1. /\ UNCHANGED <<tail, tdt, tdh, ready, card, eims, sent>> /\ Head1 = "fill" /\ Head1' = "advance"
      /\ filled' = [filled EXCEPT ![free_queue] = @ \cup {tail[free_queue]}]
  BY FillType DEF Fill, Head1
<1>2. CardInv'
  BY <1>1 DEF NicInv, CardInv, Waits, Sending
<1>3. sent \in Nat /\ DOMAIN filled = Queue /\ free_queue \in Queue /\ tail[free_queue] = sent % Ring
  BY <1>1, QueueFacts DEF NicInv, SendInv
<1>4. filled'[free_queue] = filled[free_queue] \cup {sent % Ring} /\ DOMAIN filled' = Queue
  BY <1>1, <1>3
<1>5. Done(sent + 1)'
  <2> SUFFICES ASSUME NEW i \in 0 .. Ring - 1, i < sent + 1 PROVE i \in filled'[free_queue]
    BY <1>1 DEF Done
  <2>1. CASE i < sent
    BY <2>1, <1>1, <1>4 DEF NicInv, SendInv, Done
  <2>2. CASE i = sent
    <3>1. sent % Ring = i
      BY <2>2, RingAssumption
    <3> QED BY <3>1, <1>4
  <2> QED BY <2>1, <2>2, <1>3, RingAssumption
<1>6. SendInv'
  BY <1>1, <1>3, <1>4, <1>5 DEF NicInv, SendInv, Sending
<1> QED BY <1>2, <1>6 DEF NicInv

(* The driver's copy of the tail is one ahead of the register.               *)
LEMMA AdvanceNic ==
    ASSUME TypeInv, NicInv, Advance
    PROVE  NicInv'
<1>1. /\ UNCHANGED <<tdt, tdh, filled, ready, card, eims, sent>> /\ Head1 = "advance"
      /\ tail' = [tail EXCEPT ![free_queue] = (@ + 1) % Ring]
      /\ todo # <<>> /\ Then(<<>>) /\ machine' = machine
  BY DEF Advance, Does, At, Head1
<1>2. Head1' = "ring"
  BY <1>1, PopFollows
<1>3. CardInv'
  BY <1>1, <1>2 DEF NicInv, CardInv, Waits, Sending
<1>4. sent \in Nat /\ tail \in [Queue -> Nat] /\ tail[0] = 0 /\ tail[free_queue] = sent % Ring
  BY <1>1 DEF NicInv, SendInv
<1>5. ((sent % Ring) + 1) % Ring = (sent + 1) % Ring /\ (sent + 1) % Ring \in Nat
  <2>1. PICK n \in Nat : n = sent
    BY <1>4
  <2>2. n + 1 \in Nat
    OBVIOUS
  <2>3. ((n % Ring) + 1) % Ring = (n + 1) % Ring
    BY ModFacts, RingAssumption
  <2>4. (n + 1) % Ring \in Nat
    <3>1. (n + 1) % Ring \in 0 .. Ring - 1
      BY <2>2, ModFacts, RingAssumption
    <3> QED BY <3>1, RingAssumption
  <2> QED BY <2>1, <2>3, <2>4
<1>6. tail' \in [Queue -> Nat] /\ tail'[0] = 0 /\ tail'[free_queue] = (sent + 1) % Ring
  BY <1>1, <1>4, <1>5, QueueFacts
<1>7. SendInv'
  BY <1>1, <1>2, <1>6 DEF NicInv, SendInv, Sending, Done
<1> QED BY <1>3, <1>7 DEF NicInv

(* The register catches up, and the packet is sent.                          *)
LEMMA RingNic ==
    ASSUME TypeInv, NicInv, RingTail
    PROVE  NicInv'
<1>1. /\ UNCHANGED <<tail, tdh, filled, ready, card, eims>> /\ Head1 = "ring" /\ sent' = sent + 1
      /\ tdt' = [tdt EXCEPT ![free_queue] = tail[free_queue]]
      /\ todo # <<>> /\ Then(<<>>) /\ machine' = machine
  BY DEF RingTail, Does, At, Head1
<1>2. Head1' = "fill"
  BY <1>1, PopFollows
<1>3. CardInv'
  BY <1>1, <1>2 DEF NicInv, CardInv, Waits, Sending
<1>4. sent \in Nat /\ tdt \in [Queue -> Nat] /\ tdt[0] = 0 /\ tail \in [Queue -> Nat]
      /\ tail[free_queue] = (sent + 1) % Ring
  BY <1>1 DEF NicInv, SendInv
<1>5. tdt' \in [Queue -> Nat] /\ tdt'[0] = 0 /\ tdt'[free_queue] = (sent + 1) % Ring
  BY <1>1, <1>4, QueueFacts
<1>6. tdh[free_queue] \in Nat /\ (sent < Ring => tdh[free_queue] <= sent)
  BY QueueFacts DEF NicInv, SendInv
<1>7. (sent' \in Nat) /\ (sent' < Ring => tdh'[free_queue] <= sent')
  BY <1>1, <1>4, <1>6, RingAssumption
<1>8. Done(sent)' /\ Sending'
  BY <1>1, <1>2 DEF NicInv, SendInv, Sending, Done
<1>9. SendInv'
  BY <1>1, <1>2, <1>4, <1>5, <1>6, <1>7, <1>8 DEF NicInv, SendInv
<1> QED BY <1>3, <1>9 DEF NicInv

(* What the card and the handler do meanwhile.                               *)
LEMMA BesideNic ==
    ASSUME TypeInv, NicInv, Beside
    PROVE  NicInv'
<1>1. UNCHANGED pci_vars /\ Head1' = Head1
  BY BesideFacts DEF pci_vars, Head1
<1>2. CASE CardResets
  <2>1. UNCHANGED <<tail, tdt, tdh, filled, ready, eims, sent>> /\ card # "run"
        /\ card' \in {"eeprom", "dma", "run"}
    BY <1>2 DEF CardResets, ring_vars, NicInv, CardInv
  <2> QED BY <2>1, <1>1 DEF NicInv, CardInv, SendInv, Sending, Done
<1>3. ASSUME NEW q \in Queue, Send(q) PROVE NicInv'
  <2>1. /\ UNCHANGED <<tail, tdt, filled, ready, eims, card, sent>> /\ tdh[q] # tdt[q]
        /\ tdh' = [tdh EXCEPT ![q] = (@ + 1) % Ring]
    BY <1>3 DEF Send
  <2>2. q = free_queue
    BY <2>1, QueueFacts DEF NicInv, SendInv
  <2>3. /\ sent \in Nat /\ tdh \in [Queue -> Nat] /\ tdh[free_queue] < Ring /\ tdh[0] = 0
        /\ tdh[free_queue] # sent % Ring /\ (sent < Ring => tdh[free_queue] <= sent)
    BY <2>1, <2>2 DEF NicInv, SendInv
  <2>4. PICK h \in 0 .. Ring - 1 : h = tdh[free_queue]
    BY <2>3, QueueFacts, RingAssumption
  <2>5. PICK n \in Nat : n = sent
    BY <2>3
  <2>6. /\ (h + 1) % Ring \in 0 .. Ring - 1
        /\ n < Ring => n % Ring = n
        /\ h < Ring - 1 => (h + 1) % Ring = h + 1
        /\ (Ring - 1 + 1) % Ring = 0
    <3>1. h + 1 \in Nat
      BY RingAssumption
    <3>2. (h + 1) % Ring \in 0 .. Ring - 1
      BY <3>1, ModFacts, RingAssumption
    <3> QED BY <3>2, ModFacts, RingAssumption
  <2>7. n < Ring => (h + 1) % Ring <= n
    <3>1. n < Ring => h + 1 <= n
      BY <2>3, <2>4, <2>5, <2>6
    <3>2. CASE h < Ring - 1
      BY <3>1, <3>2, <2>6
    <3>3. CASE h = Ring - 1
      BY <3>3, <2>6
    <3> QED BY <3>2, <3>3, RingAssumption
  <2>8. tdh' \in [Queue -> Nat] /\ tdh'[0] = 0 /\ tdh'[free_queue] = (h + 1) % Ring
    BY <2>1, <2>2, <2>3, <2>4, <2>6, QueueFacts
  <2>9. SendInv'
    BY <1>1, <2>1, <2>5, <2>6, <2>7, <2>8, RingAssumption DEF NicInv, SendInv, Sending, Done
  <2>10. CardInv'
    BY <1>1, <2>1 DEF NicInv, CardInv, Sending
  <2> QED BY <2>9, <2>10 DEF NicInv
<1>4. CASE Receive \/ LinkChange
  <2>1. UNCHANGED <<tail, tdt, tdh, filled, ready, eims, card, sent>>
    BY <1>4 DEF Receive, LinkChange, ring_vars
  <2> QED BY <2>1, <1>1 DEF NicInv, CardInv, SendInv, Sending, Done
<1>5. CASE ixgbe_intr
  <2>1. UNCHANGED <<tdt, tdh, filled, ready, eims, card, sent>>
    BY <1>5 DEF ixgbe_intr
  <2>2. tail' = tail
    <3>1. CASE "queue" \in cause
      <4>1. tail' = [tail EXCEPT ![0] = tdt[0]]
        BY <3>1, <1>5 DEF ixgbe_intr
      <4> QED BY <4>1 DEF NicInv, SendInv
    <3>2. CASE "queue" \notin cause
      BY <3>2, <1>5 DEF ixgbe_intr
    <3> QED BY <3>1, <3>2
  <2> QED BY <2>1, <2>2, <1>1 DEF NicInv, CardInv, SendInv, Sending, Done
<1> QED BY <1>2, <1>3, <1>4, <1>5 DEF Beside

(* NicInv holds at first, and every step of the boot keeps it.               *)
LEMMA NicStart == Init => NicInv
<1> SUFFICES ASSUME Init PROVE NicInv
  OBVIOUS
<1>1. PICK o \in DriverOrders :
         todo = <<<<"numa">>, <<"hostbridge">>, <<"pci_scan">>, <<"driver", o[1]>>,
                  <<"driver", o[2]>>, <<"driver", o[3]>>>>
  BY InitTodo
<1>2. Head1 = "numa"
  BY <1>1 DEF Head1
<1>3. NicInit
  BY DEF Init
<1>4. CardInv
  BY <1>2, <1>3 DEF NicInit, CardInv, Waits, Sending
<1>5. 0 % Ring = 0
  BY RingAssumption
<1>6. SendInv
  BY <1>2, <1>3, <1>5, RingAssumption, QueueFacts DEF NicInit, SendInv, Sending, Done
<1> QED BY <1>4, <1>6 DEF NicInv

(* Every step of the boot keeps NicInv.                                      *)
LEMMA NicStep ==
    ASSUME TypeInv, NicInv, [Next]_vars
    PROVE  NicInv'
<1>1. CASE UNCHANGED <<pci_vars, nic_vars>>
  BY <1>1 DEF pci_vars, nic_vars, NicInv, CardInv, SendInv, Head1, Sending, Done
<1>2. CASE NumaInit
  <2>1. UNCHANGED nic_vars
    BY <1>2 DEF NumaInit
  <2> QED BY <1>2, <2>1, PciQuiet
<1>3. CASE PciNext /\ UNCHANGED <<nic_vars, bring_vars>>
  <2>1. UNCHANGED nic_vars
    BY <1>3
  <2>2. CommandOff \/ Ones \/ Back \/ CommandBack \/ x86_pci_hostbridge_init \/ BarEnd
           \/ pci_enable_device \/ pci_set_master \/ pci_msix_clear_and_set_ctrl
           \/ pci_msi_set_enable \/ msix_entry_setup \/ msi_entry_setup
           \/ pci_msi_multiple_enable \/ NumaInit
           \/ pci_scan \/ pci_device_init \/ Bar \/ register_pci_device \/ pci_enable_msix
           \/ pci_enable_msi \/ pci_register_driver(ids) \/ pci_probe
    BY <1>3, Zenon DEF PciNext
  <2> QED BY <2>1, <2>2, PciQuiet
<1>4. CASE NicNext /\ UNCHANGED bring_vars
  BY <1>4, ResetNic, WaitNic, RxNic, TxNic, UnmaskNic, FillNic, AdvanceNic, RingNic, BesideNic, Zenon
     DEF NicNext, Beside
<1>5. UNCHANGED vars => UNCHANGED <<pci_vars, nic_vars>>
  BY DEF vars
<1> QED BY <1>1, <1>2, <1>3, <1>4, <1>5, Zenon DEF Next, Execute

(* TransmitSound: whatever the handler and the card do in between, the tail  *)
(* register counts the packets, and the card is only given descriptors that  *)
(* have been written.  While the ring has never been full these are          *)
(* tdh .. tdt - 1, below sent; later all of them have been written.          *)
LEMMA PendingFilled == NicInv => TransmitSound
<1> SUFFICES ASSUME NicInv PROVE TransmitSound
  OBVIOUS
<1>1. At("fill") => tdt[free_queue] = sent % Ring
  BY DEF NicInv, SendInv
<1>2. Pending(0) = {}
  <2>1. tdh[0] = 0 /\ tdt[0] = 0
    BY DEF NicInv, SendInv
  <2> SUFFICES ASSUME NEW i \in 0 .. Ring - 1, (i - 0) % Ring < (0 - 0) % Ring PROVE FALSE
    BY <2>1 DEF Pending
  <2>2. i % Ring \in 0 .. Ring - 1 /\ 0 % Ring = 0 /\ i - 0 = i /\ 0 - 0 = 0
    BY ModFacts, RingAssumption
  <2> QED BY <2>2, RingAssumption
<1>3. ASSUME NEW i \in Pending(free_queue) PROVE i \in filled[free_queue]
  <2>1. /\ i \in 0 .. Ring - 1
        /\ (i - tdh[free_queue]) % Ring < (tdt[free_queue] - tdh[free_queue]) % Ring
    BY <1>3 DEF Pending
  <2>2. /\ sent \in Nat /\ tdh[free_queue] \in 0 .. Ring - 1 /\ tdt[free_queue] = sent % Ring
        /\ \A j \in 0 .. Ring - 1 : j < sent => j \in filled[free_queue]
    BY QueueFacts, RingAssumption DEF NicInv, SendInv, Done
  <2>3. PICK n \in Nat : n = sent
    BY <2>2
  <2>4. PICK h \in 0 .. Ring - 1 : h = tdh[free_queue]
    BY <2>2
  <2>5. CASE n < Ring
    <3>1. h <= n /\ n % Ring = n
      BY <2>3, <2>4, <2>5, ModFacts, RingAssumption DEF NicInv, SendInv
    <3>2. (i - h) % Ring < (n - h) % Ring
      BY <2>1, <2>2, <2>3, <2>4, <3>1
    <3>3. (n - h) % Ring = n - h
      <4>1. n - h \in Nat /\ n - h < Ring
        BY <3>1, <2>5, RingAssumption
      <4> QED BY <4>1, ModFacts, RingAssumption
    <3>4. CASE i >= h
      <4>1. i - h \in Nat /\ i - h < Ring
        BY <3>4, <2>1, RingAssumption
      <4>2. (i - h) % Ring = i - h
        BY <4>1, ModFacts, RingAssumption
      <4>3. i < n
        BY <3>2, <3>3, <4>2, <2>1
      <4> QED BY <4>3, <2>2, <2>3, <2>1
    <3>5. CASE i < h
      BY <3>1, <3>5, <2>1, <2>2, <2>3
    <3> QED BY <3>4, <3>5, <2>1
  <2>6. CASE n >= Ring
    BY <2>6, <2>1, <2>2, <2>3, RingAssumption
  <2> QED BY <2>5, <2>6, RingAssumption
<1> QED BY <1>1, <1>2, <1>3, QueueFacts DEF TransmitSound

(* TransmitSound: packets are announced in order, and written before sent.   *)
THEOREM TransmitTheorem == Spec => []TransmitSound
<1>1. Init => TypeInv /\ NicInv
  BY InitType, NicStart
<1>2. TypeInv /\ NicInv /\ [Next]_vars => (TypeInv /\ NicInv)'
  BY TypeStep, NicStep
<1> QED BY <1>1, <1>2, PendingFilled, PTL DEF Spec

(* HandlerReady, the part of BootSound about the network card: its interrupt *)
(* handler runs only when the reset is over and both rings exist.            *)
THEOREM HandlerTheorem == Spec => []HandlerReady
<1>1. Init => TypeInv /\ NicInv
  BY InitType, NicStart
<1>2. TypeInv /\ NicInv /\ [Next]_vars => (TypeInv /\ NicInv)'
  BY TypeStep, NicStep
<1>3. NicInv => HandlerReady
  BY DEF NicInv, CardInv, HandlerReady
<1> QED BY <1>1, <1>2, <1>3, PTL DEF Spec
===============================================================================
