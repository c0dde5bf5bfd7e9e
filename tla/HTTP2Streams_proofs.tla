------------------------- MODULE HTTP2Streams_proofs -------------------------
(***************************************************************************)
(* Proofs about HTTP2Streams, for every number of streams and all limits.  *)
(*                                                                         *)
(* The module has three layers.  Sums: what a budget counts is a sum over  *)
(* streams, and lemmas about sums take the place of induction.  Tables:    *)
(* Good(p) says of the tables alone that they agree, that the request      *)
(* budget is exactly what they hold and the output budget at least that;   *)
(* one lemma per operation on the tables shows that it keeps Good, and     *)
(* what it gives back.  Flow: IInv adds where a stream may be on its way   *)
(* from the wire over a handler to the writer, with one lemma per action   *)
(* of Next.  The theorems are at the end.                                  *)
(***************************************************************************)
EXTENDS HTTP2Streams, FiniteSetTheorems, WellFoundedInduction, TLAPS

-----------------------------------------------------------------------------
(* Sums. *)

(* Induction up to a bound, over a set: the step form of well-foundedness. *)
LEMMA CountUp ==
    ASSUME NEW N \in Nat, NEW S, 0 \in S, \A i \in 1..N : i - 1 \in S => i \in S
    PROVE  \A i \in 0..N : i \in S
<1> SUFFICES ASSUME NEW k \in 0..N, k \notin S PROVE FALSE
  OBVIOUS
<1> DEFINE R == {ss \in Nat \X Nat : ss[1] < ss[2]}
           T == {i \in 0..N : i \notin S}
<1>1. IsWellFoundedOn(R, Nat)
  BY NatLessThanWellFounded DEF OpToRel
<1>2. PICK x \in T : \A y \in T : ~(<<y, x>> \in R)
  <2>1. T \in SUBSET Nat /\ T # {}
    OBVIOUS
  <2> HIDE DEF R, T
  <2> QED
    BY WFMin, <1>1, <2>1
<1>3. x \in 1..N /\ x - 1 \in T
  BY <1>2
<1>4. <<x - 1, x>> \in R
  <2> DEFINE p == <<x - 1, x>>
  <2>1. p \in Nat \X Nat /\ p[1] < p[2]
    BY <1>3
  <2> HIDE DEF p
  <2>2. p \in R
    BY <2>1
  <2> QED
    BY <2>2 DEF p
<1> HIDE DEF R, T
<1> QED
  BY <1>2, <1>3, <1>4

(* A sum exists, and satisfies its recursion.                              *)
LEMMA SumSteps ==
    ASSUME NEW N \in Nat, NEW f, \A i \in 1..N : f[i] \in Int
    PROVE  /\ Sum(f, 0) = 0 /\ Sum(f, N) \in Int
           /\ \A n \in 1..N : Sum(f, n) = Sum(f, n - 1) + f[n]
           /\ \A n \in 0..N : Sum(f, n) \in Int
<1> DEFINE Sums(g, m) == g[0] = 0 /\ \A i \in 1..m : g[i] = g[i - 1] + f[i]
           P == {m \in 0..N : \E g \in [0..m -> Int] : Sums(g, m)}
<1>1. \A i \in 0..N : i \in P
  <2>1. 0 \in P
    <3> DEFINE g == [i \in 0..0 |-> 0]
    <3>1. g \in [0..0 -> Int] /\ Sums(g, 0)
      OBVIOUS
    <3> HIDE DEF g
    <3> QED
      BY <3>1
  <2>2. ASSUME NEW m \in 1..N, m - 1 \in P PROVE m \in P
    <3>1. PICK g \in [0..(m - 1) -> Int] : Sums(g, m - 1)
      BY <2>2
    <3> DEFINE e == [i \in 0..m |-> IF i = m THEN g[m - 1] + f[m] ELSE g[i]]
    <3>2. e \in [0..m -> Int]
      <4>1. m - 1 \in 0..(m - 1) /\ \A i \in 0..m : i # m => i \in 0..(m - 1)
        OBVIOUS
      <4>2. g[m - 1] + f[m] \in Int
        BY <4>1
      <4> QED
        BY <4>1, <4>2
    <3>3. e[0] = 0
      BY <3>1
    <3>4. \A i \in 1..m : e[i] = e[i - 1] + f[i]
      BY <3>1
    <3> HIDE DEF e
    <3> QED
      BY <3>2, <3>3, <3>4
  <2> HIDE DEF P
  <2> QED
    BY <2>1, <2>2, CountUp
<1>2. PICK g \in [0..N -> Int] : Sums(g, N)
  <2>1. N \in 0..N
    OBVIOUS
  <2>2. N \in P
    BY <1>1, <2>1
  <2> HIDE DEF Sums
  <2> QED
    BY <2>2
<1>3. ASSUME NEW n \in 0..N PROVE Sum(f, n) = g[n]
  <2> DEFINE Upto(u) == u = [i \in 0..n |-> IF i = 0 THEN 0 ELSE u[i - 1] + f[i]]
             u == CHOOSE x : Upto(x)
             r == [i \in 0..n |-> g[i]]
  <2>1. Upto(r)
    BY <1>2
  <2>2. Upto(u)
    <3> HIDE DEF Upto, r
    <3> QED
      BY <2>1
  <2>3. Sum(f, n) = u[n]
    BY DEF Sum
  <2> HIDE DEF u
  <2> DEFINE S == {i \in 0..n : u[i] = g[i]}
  <2>4. 0 \in S
    BY <2>2, <1>2
  <2>5. ASSUME NEW i \in 1..n, i - 1 \in S PROVE i \in S
    <3>1. u[i] = u[i - 1] + f[i]
      BY <2>2
    <3>2. g[i] = g[i - 1] + f[i]
      BY <1>2
    <3> QED
      BY <3>1, <3>2, <2>5
  <2>6. n \in S
    <3>1. n \in Nat /\ n \in 0..n
      OBVIOUS
    <3> HIDE DEF S
    <3> QED
      BY <2>4, <2>5, <3>1, CountUp
  <2> QED
    BY <2>3, <2>6
<1>4. /\ g[0] = 0
      /\ \A i \in 1..N : g[i] = g[i - 1] + f[i]
      /\ \A n \in 0..N : Sum(f, n) = g[n]
  BY <1>2, <1>3
<1> QED
  BY <1>4

(* Sums add up. *)
LEMMA SumAdds ==
    ASSUME NEW N \in Nat, NEW f, NEW g, NEW k,
           \A i \in 1..N : g[i] \in Int /\ k[i] \in Int /\ f[i] = g[i] + k[i]
    PROVE  Sum(f, N) = Sum(g, N) + Sum(k, N)
<1> DEFINE F(n) == Sum(f, n)
           G(n) == Sum(g, n)
           K(n) == Sum(k, n)
           S == {i \in 0..N : F(i) = G(i) + K(i)}
<1>1. /\ F(0) = 0 /\ \A n \in 1..N : F(n) = F(n - 1) + f[n]
      /\ \A n \in 0..N : F(n) \in Int
  BY SumSteps
<1>2. /\ G(0) = 0 /\ \A n \in 1..N : G(n) = G(n - 1) + g[n]
      /\ \A n \in 0..N : G(n) \in Int
  BY SumSteps
<1>3. /\ K(0) = 0 /\ \A n \in 1..N : K(n) = K(n - 1) + k[n]
      /\ \A n \in 0..N : K(n) \in Int
  BY SumSteps
<1> HIDE DEF F, G, K
<1>4. 0 \in S
  BY <1>1, <1>2, <1>3
<1>5. \A i \in 1..N : i - 1 \in S => i \in S
  BY <1>1, <1>2, <1>3
<1>6. N \in S
  <2> HIDE DEF S
  <2> QED
    BY <1>4, <1>5, CountUp
<1> QED
  BY <1>6 DEF F, G, K

(* A sum with at most one term that is not 0. *)
LEMMA SumIsOne ==
    ASSUME NEW N \in Nat, NEW f, NEW j \in 1..N, f[j] \in Int,
           \A i \in 1..N : i # j => f[i] = 0
    PROVE  Sum(f, N) = f[j]
<1> DEFINE F(n) == Sum(f, n)
           S == {i \in 0..N : F(i) = IF i < j THEN 0 ELSE f[j]}
<1>1. /\ F(0) = 0 /\ \A n \in 1..N : F(n) = F(n - 1) + f[n]
      /\ \A n \in 0..N : F(n) \in Int
  BY SumSteps
<1> HIDE DEF F
<1>2. 0 \in S
  BY <1>1
<1>3. \A i \in 1..N : i - 1 \in S => i \in S
  BY <1>1
<1>4. N \in S
  <2> HIDE DEF S
  <2> QED
    BY <1>2, <1>3, CountUp
<1> QED
  BY <1>4 DEF F

LEMMA SumIsZero ==
    ASSUME NEW N \in Nat, NEW f, \A i \in 1..N : f[i] = 0
    PROVE  Sum(f, N) = 0
<1>1. CASE N = 0
  BY <1>1, SumSteps
<1>2. CASE N # 0
  <2>1. N \in 1..N
    BY <1>2
  <2>2. Sum(f, N) = f[N]
    BY <2>1, SumIsOne
  <2> QED
    BY <2>1, <2>2
<1> QED
  BY <1>1, <1>2

LEMMA SumIsNat ==
    ASSUME NEW N \in Nat, NEW f, \A i \in 1..N : f[i] \in Nat
    PROVE  Sum(f, N) \in Nat
<1> DEFINE F(n) == Sum(f, n)
           S == {i \in 0..N : F(i) \in Nat}
<1>1. /\ F(0) = 0 /\ \A n \in 1..N : F(n) = F(n - 1) + f[n]
      /\ \A n \in 0..N : F(n) \in Int
  BY SumSteps
<1> HIDE DEF F
<1>2. 0 \in S
  BY <1>1
<1>3. \A i \in 1..N : i - 1 \in S => i \in S
  BY <1>1
<1>4. N \in S
  <2> HIDE DEF S
  <2> QED
    BY <1>2, <1>3, CountUp
<1> QED
  BY <1>4 DEF F
-----------------------------------------------------------------------------
(* The commands that wait for the writer. *)

Command == [op : {"response", "reset"}, s : Stream, len : 0..(MaxResponse + 1)]
OneEach(C) == C \in Seq(Command) /\ \A i, j \in DOMAIN C : C[i].s = C[j].s => i = j

(* With one command for each stream a stream waits for one response.       *)
LEMMA WaitingIs ==
    ASSUME NEW C, OneEach(C), NEW s
    PROVE  /\ \A c \in Range(C) : Answers(c, {s}) => Waiting(C, s) = c.len
           /\ (\A c \in Range(C) : ~Answers(c, {s})) => Waiting(C, s) = 0
<1> DEFINE n == Len(C)
           f == [i \in DOMAIN C |-> IF Answers(C[i], {s}) THEN C[i].len ELSE 0]
<1>1. n \in Nat /\ DOMAIN C = 1..n /\ \A i \in 1..n : C[i] \in Command /\ C[i] \in Range(C)
  BY DEF OneEach, Range
<1>2. Waiting(C, s) = Sum(f, n)
  BY DEF Waiting
<1>3. ASSUME NEW c \in Range(C), Answers(c, {s}) PROVE Sum(f, n) = c.len
  <2>1. PICK j \in 1..n : c = C[j]
    BY <1>1 DEF Range
  <2>2. f[j] = c.len /\ f[j] \in Int
    BY <1>1, <1>3, <2>1 DEF Command
  <2>3. \A i \in 1..n : i # j => f[i] = 0
    BY <1>1, <1>3, <2>1 DEF OneEach, Answers
  <2> HIDE DEF f, n
  <2> QED
    BY <1>1, <2>2, <2>3, SumIsOne
<1>4. ASSUME \A c \in Range(C) : ~Answers(c, {s}) PROVE Sum(f, n) = 0
  <2>1. \A i \in 1..n : f[i] = 0
    BY <1>1, <1>4
  <2> HIDE DEF f, n
  <2> QED
    BY <1>1, <2>1, SumIsZero
<1> QED
  BY <1>2, <1>3, <1>4

(* drop_stream keeps exactly the commands it should, in a list of its own. *)
LEMMA KeptIs ==
    ASSUME NEW C, OneEach(C), NEW S
    PROVE  /\ OneEach(KeptCommands(C, S))
           /\ Range(KeptCommands(C, S)) = {c \in Range(C) : ~Answers(c, S)}
<1> DEFINE n == Len(C)
           Then(x, i) == IF Answers(C[i], S) THEN x ELSE Append(x, C[i])
           none == <<>>
           Keeps(g, m) == g[0] = none /\ \A i \in 1..m : g[i] = Then(g[i - 1], i)
           P == {m \in 0..n : \E g \in [0..m -> Seq(Command)] : Keeps(g, m)}
<1>1. /\ n \in Nat /\ DOMAIN C = 1..n /\ \A i \in 1..n : C[i] \in Command
      /\ \A i, j \in 1..n : C[i].s = C[j].s => i = j
  BY DEF OneEach
<1>0. none \in Seq(Command) /\ \A x \in Seq(Command), i \in 1..n : Then(x, i) \in Seq(Command)
  BY <1>1
<1> HIDE DEF n, none, Then
<1>2. n \in P
  <2>1. 0 \in P
    <3> DEFINE g == [i \in 0..0 |-> none]
    <3>1. g \in [0..0 -> Seq(Command)] /\ Keeps(g, 0)
      BY <1>0
    <3> HIDE DEF g
    <3> QED
      BY <1>1, <3>1
  <2>2. ASSUME NEW m \in 1..n, m - 1 \in P PROVE m \in P
    <3>1. PICK g \in [0..(m - 1) -> Seq(Command)] : Keeps(g, m - 1)
      BY <2>2
    <3> DEFINE v == Then(g[m - 1], m)
               e == [i \in 0..m |-> IF i = m THEN v ELSE g[i]]
    <3>2. e \in [0..m -> Seq(Command)]
      <4>1. m - 1 \in 0..(m - 1) /\ \A i \in 0..m : i # m => i \in 0..(m - 1)
        BY <1>1
      <4>2. v \in Seq(Command)
        BY <1>0, <1>1, <4>1
      <4> HIDE DEF v
      <4> QED
        BY <4>1, <4>2
    <3>3. e[0] = none
      BY <1>1, <3>1
    <3>4. \A i \in 1..m : e[i] = Then(e[i - 1], i)
      <4>1. ASSUME NEW i \in 1..m PROVE e[i - 1] = g[i - 1] /\ (i # m => e[i] = g[i])
        BY <1>1
      <4>2. e[m] = v /\ \A i \in 1..m : i # m => g[i] = Then(g[i - 1], i)
        BY <1>1, <3>1
      <4> HIDE DEF e
      <4> QED
        BY <4>1, <4>2
    <3> HIDE DEF e
    <3> QED
      <4>1. Keeps(e, m) /\ m \in 0..n
        BY <1>1, <3>3, <3>4
      <4> HIDE DEF Keeps
      <4> QED
        BY <3>2, <4>1
  <2> HIDE DEF P
  <2>3. n \in 0..n
    BY <1>1
  <2> QED
    BY <1>1, <2>1, <2>2, <2>3, CountUp
<1>3. PICK g \in [0..n -> Seq(Command)] : Keeps(g, n)
  BY <1>2
<1> DEFINE Upto(u) == u = [i \in 0..n |-> IF i = 0 THEN none ELSE Then(u[i - 1], i)]
           k == CHOOSE x : Upto(x)
<1>4. Upto(k)
  <2> DEFINE r == [i \in 0..n |-> g[i]]
  <2>1. Upto(r)
    BY <1>1, <1>3
  <2> HIDE DEF Upto, r
  <2> QED
    BY <2>1
<1>5. KeptCommands(C, S) = k[n]
  BY DEF KeptCommands, n, none, Then
<1> HIDE DEF k
<1>6. k[0] = none /\ \A i \in 1..n : k[i] = Then(k[i - 1], i)
  BY <1>1, <1>4
<1> DEFINE From(i) == {c \in {C[j] : j \in 1..i} : ~Answers(c, S)}
           Holds(i) == k[i] \in Seq(Command) /\ OneEach(k[i]) /\ Range(k[i]) = From(i)
           T == {i \in 0..n : Holds(i)}
<1>7. 0 \in T
  <2>1. From(0) = {} /\ Range(none) = {} /\ OneEach(none)
    BY DEF Range, OneEach, none
  <2> QED
    BY <1>0, <1>1, <1>6, <2>1
<1>8. ASSUME NEW i \in 1..n, i - 1 \in T PROVE i \in T
  <2>0. i - 1 \in 0..n /\ i \in 0..n /\ Holds(i - 1) /\ k[i] = Then(k[i - 1], i)
    <3> HIDE DEF Holds
    <3> QED
      BY <1>1, <1>6, <1>8
  <2>1. {C[j] : j \in 1..i} = {C[j] : j \in 1..(i - 1)} \union {C[i]}
    BY <1>1
  <2>2. CASE Answers(C[i], S)
    <3>1. k[i] = k[i - 1] /\ From(i) = From(i - 1)
      BY <2>0, <2>1, <2>2 DEF Then
    <3> QED
      BY <2>0, <3>1
  <2>3. CASE ~Answers(C[i], S)
    <3> DEFINE a == k[i - 1]
               b == Append(a, C[i])
               w == Len(a) + 1
    <3>1. k[i] = b /\ From(i) = From(i - 1) \union {C[i]}
      BY <2>0, <2>1, <2>3 DEF Then
    <3>2. a \in Seq(Command) /\ C[i] \in Command
      BY <1>1, <2>0
    <3>3. /\ b \in Seq(Command) /\ DOMAIN b = DOMAIN a \union {w} /\ b[w] = C[i]
          /\ w \notin DOMAIN a /\ \A j \in DOMAIN a : b[j] = a[j]
      BY <3>2
    <3>4. Range(b) = Range(a) \union {C[i]}
      BY <3>3 DEF Range
    <3>5. \A j \in DOMAIN a : a[j].s # C[i].s
      <4>1. ASSUME NEW j \in DOMAIN a PROVE \E l \in 1..(i - 1) : a[j] = C[l]
        BY <2>0 DEF Range
      <4>2. \A l \in 1..(i - 1) : C[l].s # C[i].s
        BY <1>1
      <4> QED
        BY <4>1, <4>2
    <3>6. OneEach(b)
      <4>1. OneEach(a)
        BY <2>0
      <4> HIDE DEF a, b, w
      <4> QED
        BY <3>3, <3>5, <4>1 DEF OneEach
    <3>7. Holds(i)
      <4> HIDE DEF b
      <4> QED
        BY <2>0, <3>1, <3>3, <3>4, <3>6
    <3> HIDE DEF Holds
    <3> QED
      BY <2>0, <3>7
  <2> QED
    BY <2>2, <2>3
<1>9. n \in T
  <2>1. n \in 0..n
    BY <1>1
  <2> HIDE DEF T
  <2> QED
    BY <1>1, <1>7, <1>8, <2>1, CountUp
<1>10. {C[j] : j \in 1..n} = Range(C)
  BY <1>1 DEF Range
<1> QED
  BY <1>5, <1>9, <1>10

-----------------------------------------------------------------------------
(* The tables and the budgets. *)

Request == [len : 0..MaxBody, want : {Unknown} \union 0..MaxBody, whole : BOOLEAN]

IsTables(p) ==
    p = [inbound |-> p.inbound, active |-> p.active, outbound |-> p.outbound,
         commands |-> p.commands, buffered |-> p.buffered, pending |-> p.pending,
         ready |-> p.ready]

Slots(p) == p.active \subseteq Stream /\ Cardinality(p.active) <= MaxStreams

Tables(p) ==
    /\ IsTables(p) /\ Slots(p)
    /\ p.inbound \in [DOMAIN p.inbound -> Request] /\ DOMAIN p.inbound \subseteq p.active
    /\ p.outbound \in [DOMAIN p.outbound -> 1..MaxResponse]
    /\ DOMAIN p.outbound \subseteq p.active /\ DOMAIN p.inbound \cap DOMAIN p.outbound = {}
    /\ p.ready \subseteq DOMAIN p.inbound
    /\ OneEach(p.commands)
    /\ \A c \in Range(p.commands) :
         /\ c.s \notin DOMAIN p.inbound /\ c.s \notin DOMAIN p.outbound
         /\ c.op = "response" => c.s \in p.active /\ c.len <= MaxResponse

Asked(p) == {c.s : c \in Range(p.commands)}

(* Bytes charged to pending that no stream owes any more.                  *)
Lost(p) == p.pending - Total(Owed(p))

Budgets(p) ==
    /\ p.buffered = Total(Body(p)) /\ p.buffered <= MaxBuffer
    /\ p.pending \in Nat /\ Lost(p) \in Nat

Good(p) == Tables(p) /\ Budgets(p)

LEMMA CommandsAre ==
    ASSUME NEW p, Tables(p)
    PROVE  \A c \in Range(p.commands) : c \in Command /\ c.op \in {"response", "reset"}
<1>1. \A c \in Range(p.commands) : c \in Command
  BY DEF Tables, OneEach, Range
<1>2. \A c \in Command : c.op \in {"response", "reset"}
  BY DEF Command
<1> QED
  BY <1>1, <1>2

LEMMA FlowsInStream ==
    ASSUME NEW p, Good(p)
    PROVE  /\ p.active \subseteq Stream /\ p.ready \subseteq Stream
           /\ DOMAIN p.outbound \subseteq Stream /\ Asked(p) \subseteq Stream
<1>1. p.active \subseteq Stream /\ p.ready \subseteq Stream /\ DOMAIN p.outbound \subseteq Stream
  BY DEF Good, Tables, Slots
<1>2. \A c \in Range(p.commands) : c \in Command
  BY DEF Good, Tables, OneEach, Range
<1>3. Asked(p) \subseteq Stream
  BY <1>2 DEF Asked, Command
<1> QED
  BY <1>1, <1>3

LEMMA TotalAdds ==
    ASSUME NEW f, NEW g, NEW k,
           \A s \in Stream : g[s] \in Int /\ k[s] \in Int /\ f[s] = g[s] + k[s]
    PROVE  Total(f) = Total(g) + Total(k)
<1>1. NStreams \in Nat
  BY StreamsAssumption DEF StreamsAssumption
<1> QED
  BY <1>1, SumAdds DEF Total, Stream

LEMMA TotalIsNat ==
    ASSUME NEW f, \A s \in Stream : f[s] \in Nat
    PROVE  Total(f) \in Nat
<1>1. NStreams \in Nat
  BY StreamsAssumption DEF StreamsAssumption
<1> QED
  BY <1>1, SumIsNat DEF Total, Stream

LEMMA TotalIsOne ==
    ASSUME NEW f, NEW s \in Stream, f[s] \in Int, \A t \in Stream : t # s => f[t] = 0
    PROVE  Total(f) = f[s]
<1>1. NStreams \in Nat
  BY StreamsAssumption DEF StreamsAssumption
<1> QED
  BY <1>1, SumIsOne DEF Total, Stream

LEMMA SlotsKept ==
    ASSUME NEW p, Slots(p)
    PROVE  /\ \A S : Cardinality(p.active \ S) <= MaxStreams
           /\ \A s \in Stream : MayOpen(p) => Cardinality(p.active \union {s}) <= MaxStreams
<1>1. IsFiniteSet(Stream) /\ MaxStreams \in Nat
  BY StreamsAssumption, FS_Interval DEF StreamsAssumption, Stream
<1>2. IsFiniteSet(p.active) /\ Cardinality(p.active) \in Nat
  BY <1>1, FS_Subset, FS_CardinalityType DEF Slots
<1>3. ASSUME NEW S PROVE Cardinality(p.active \ S) <= MaxStreams
  <2>1. p.active \ S \subseteq p.active
    OBVIOUS
  <2>2. IsFiniteSet(p.active \ S) /\ Cardinality(p.active \ S) <= Cardinality(p.active)
    BY <1>2, <2>1, FS_Subset
  <2>3. Cardinality(p.active \ S) \in Nat
    BY <2>2, FS_CardinalityType
  <2> QED
    BY <1>1, <1>2, <2>2, <2>3 DEF Slots
<1>4. ASSUME NEW s \in Stream, MayOpen(p)
      PROVE  Cardinality(p.active \union {s}) <= MaxStreams
  <2>1. Cardinality(p.active \union {s}) \in {Cardinality(p.active), Cardinality(p.active) + 1}
    BY <1>2, FS_AddElement
  <2> QED
    BY <1>1, <1>2, <1>4, <2>1 DEF MayOpen
<1> QED
  BY <1>3, <1>4

(* What a stream owes: its body, or its waiting response, never both.      *)
LEMMA OwedIs ==
    ASSUME NEW p, Tables(p)
    PROVE  /\ \A s \in Stream : Owed(p)[s] \in 0..MaxResponse
           /\ \A s \in DOMAIN p.outbound : Owed(p)[s] = p.outbound[s]
           /\ \A c \in Range(p.commands) : c.op = "response" => Owed(p)[c.s] = c.len
           /\ \A s \in Stream \ Sending(p) : Owed(p)[s] = 0
<1>0. MaxResponse \in Nat /\ \A c \in Range(p.commands) : c \in Command
  BY StreamsAssumption DEF StreamsAssumption, Tables, OneEach, Range
<1>1. \A s \in Stream : Owed(p)[s] = Rest(p, s) + Waiting(p.commands, s)
  BY DEF Owed
<1>2. DOMAIN p.outbound \subseteq Stream
  BY DEF Tables, Slots
<1>3. ASSUME NEW s \in DOMAIN p.outbound
      PROVE  Owed(p)[s] = p.outbound[s] /\ p.outbound[s] \in 1..MaxResponse
  <2>1. Rest(p, s) = p.outbound[s] /\ p.outbound[s] \in 1..MaxResponse
    BY DEF Rest, Tables
  <2>2. \A c \in Range(p.commands) : ~Answers(c, {s})
    BY DEF Answers, Tables
  <2>3. Waiting(p.commands, s) = 0
    BY <2>2, WaitingIs DEF Tables
  <2> QED
    BY <1>1, <1>2, <2>1, <2>3
<1>4. ASSUME NEW c \in Range(p.commands), c.op = "response"
      PROVE  Owed(p)[c.s] = c.len /\ c.s \in Stream /\ c.len \in 0..MaxResponse
  <2>1. Rest(p, c.s) = 0
    BY DEF Rest, Tables
  <2>2. Answers(c, {c.s})
    BY <1>4 DEF Answers
  <2>3. Waiting(p.commands, c.s) = c.len
    BY <2>2, WaitingIs DEF Tables
  <2>4. c.s \in Stream /\ c.len \in 0..MaxResponse
    BY <1>0, <1>4 DEF Tables, Command
  <2> QED
    BY <1>1, <2>1, <2>3, <2>4
<1>5. ASSUME NEW s \in Stream \ Sending(p) PROVE Owed(p)[s] = 0
  <2>1. Rest(p, s) = 0
    BY DEF Rest, Sending
  <2>2. \A c \in Range(p.commands) : ~Answers(c, {s})
    BY DEF Answers, Sending, CommandsTo
  <2>3. Waiting(p.commands, s) = 0
    BY <2>2, WaitingIs DEF Tables
  <2> QED
    BY <1>1, <2>1, <2>3
<1>6. ASSUME NEW s \in Stream PROVE Owed(p)[s] \in 0..MaxResponse
  <2>1. CASE s \in Sending(p)
    BY <1>0, <1>3, <1>4, <2>1 DEF Sending, CommandsTo
  <2>2. CASE s \notin Sending(p)
    BY <1>0, <1>5, <2>2
  <2> QED
    BY <2>1, <2>2
<1> QED
  BY <1>3, <1>4, <1>5, <1>6

(* The fields after drop_stream.                                           *)
LEMMA DropIs ==
    ASSUME NEW p, IsTables(p), NEW S
    PROVE  LET q == Drop(p, S) IN
           /\ IsTables(q)
           /\ q.inbound = Without(p.inbound, S) /\ q.outbound = Without(p.outbound, S)
           /\ q.active = p.active \ S /\ q.ready = p.ready \ S
           /\ q.commands = KeptCommands(p.commands, S)
           /\ q.buffered = p.buffered - Total(Of(Body(p), S))
           /\ q.pending = p.pending - Total(Of(Owed(p), S))
<1> DEFINE b == p.buffered - Total(Of(Body(p), S))
           w == Total(Of(Owed(p), S))
           in == Without(p.inbound, S)
           r == ReleaseInbound(p, S)
           q == [inbound |-> in, active |-> p.active \ S, outbound |-> Without(p.outbound, S),
                 commands |-> KeptCommands(p.commands, S), buffered |-> b,
                 pending |-> p.pending - w, ready |-> p.ready \ S]
<1>1. r = [p EXCEPT !.inbound = in, !.buffered = b]
  BY DEF ReleaseInbound
<1>2. Drop(p, S) = [r EXCEPT !.ready = @ \ S, !.outbound = Without(@, S), !.active = @ \ S,
                             !.commands = KeptCommands(@, S), !.pending = @ - w]
  BY DEF Drop
<1> HIDE DEF b, w, in, r
<1>3. r = [inbound |-> in, active |-> p.active, outbound |-> p.outbound,
           commands |-> p.commands, buffered |-> b, pending |-> p.pending,
           ready |-> p.ready]
  BY <1>1 DEF IsTables
<1>4. Drop(p, S) = q
  BY <1>2, <1>3
<1> QED
  BY <1>4 DEF IsTables, b, w, in

LEMMA ReleaseIs ==
    ASSUME NEW p, IsTables(p), NEW S
    PROVE  LET q == ReleaseInbound(p, S) IN
           /\ IsTables(q)
           /\ q.inbound = Without(p.inbound, S) /\ q.outbound = p.outbound
           /\ q.active = p.active /\ q.ready = p.ready /\ q.commands = p.commands
           /\ q.buffered = p.buffered - Total(Of(Body(p), S)) /\ q.pending = p.pending
<1> DEFINE b == p.buffered - Total(Of(Body(p), S))
           in == Without(p.inbound, S)
<1>1. ReleaseInbound(p, S) = [p EXCEPT !.inbound = in, !.buffered = b]
  BY DEF ReleaseInbound
<1> HIDE DEF b, in
<1>2. ReleaseInbound(p, S) =
        [inbound |-> in, active |-> p.active, outbound |-> p.outbound, commands |-> p.commands,
         buffered |-> b, pending |-> p.pending, ready |-> p.ready]
  BY <1>1 DEF IsTables
<1> QED
  BY <1>2 DEF IsTables, b, in

(* Requests that are forgotten give back what they were charged.           *)
LEMMA BodiesReleased ==
    ASSUME NEW p, Tables(p), p.buffered = Total(Body(p)), p.buffered <= MaxBuffer,
           NEW S, NEW q, q.inbound = Without(p.inbound, S),
           q.buffered = p.buffered - Total(Of(Body(p), S))
    PROVE  q.buffered = Total(Body(q)) /\ q.buffered <= MaxBuffer
<1> DEFINE f == Body(p)
           g == Body(q)
           k == Of(f, S)
<1>1. MaxBody \in Nat /\ MaxBuffer \in Nat
  BY StreamsAssumption DEF StreamsAssumption
<1>2. \A s \in Stream : f[s] = IF s \in DOMAIN p.inbound THEN p.inbound[s].len ELSE 0
  BY DEF Body
<1>3. \A s \in Stream : g[s] = IF s \in DOMAIN p.inbound \ S THEN p.inbound[s].len ELSE 0
  BY DEF Body, Without
<1>4. \A s \in Stream : k[s] = IF s \in S THEN f[s] ELSE 0
  BY DEF Of
<1>5. \A s \in DOMAIN p.inbound : p.inbound[s].len \in Nat
  BY <1>1 DEF Tables, Request
<1> HIDE DEF f, g, k
<1>6. \A s \in Stream : f[s] \in Nat /\ g[s] \in Nat /\ k[s] \in Nat /\ f[s] = g[s] + k[s]
  BY <1>2, <1>3, <1>4, <1>5
<1>7. Total(f) = Total(g) + Total(k)
  BY <1>6, TotalAdds
<1>8. Total(f) \in Nat /\ Total(g) \in Nat /\ Total(k) \in Nat
  BY <1>6, TotalIsNat
<1>9. p.buffered = Total(f) /\ q.buffered = p.buffered - Total(k)
  BY DEF f, k
<1>10. q.buffered = Total(g) /\ q.buffered <= MaxBuffer
  BY <1>1, <1>7, <1>8, <1>9
<1> QED
  BY <1>10 DEF g

(* What is owed is a number of bytes.                                      *)
LEMMA OwedIsNat ==
    ASSUME NEW p, Tables(p)
    PROVE  Total(Owed(p)) \in Nat /\ \A s \in Stream : Owed(p)[s] \in Nat
<1>1. \A s \in Stream : Owed(p)[s] \in Nat
  BY OwedIs, StreamsAssumption DEF StreamsAssumption
<1> QED
  BY <1>1, TotalIsNat

LEMMA ReleaseKeeps ==
    ASSUME NEW p, Good(p), NEW S, p.ready \cap S = {}
    PROVE  LET q == ReleaseInbound(p, S) IN
           /\ Good(q) /\ Lost(q) = Lost(p) /\ q.pending = p.pending
           /\ q.inbound = Without(p.inbound, S) /\ q.outbound = p.outbound
           /\ q.active = p.active /\ q.ready = p.ready /\ q.commands = p.commands
<1> DEFINE q == ReleaseInbound(p, S)
<1>1. /\ IsTables(q)
      /\ q.inbound = Without(p.inbound, S) /\ q.outbound = p.outbound
      /\ q.active = p.active /\ q.ready = p.ready /\ q.commands = p.commands
      /\ q.buffered = p.buffered - Total(Of(Body(p), S)) /\ q.pending = p.pending
  BY ReleaseIs DEF Good, Tables
<1> HIDE DEF q
<1>2. q.inbound \in [DOMAIN q.inbound -> Request] /\ DOMAIN q.inbound = DOMAIN p.inbound \ S
  BY <1>1 DEF Without, Good, Tables
<1>3. Tables(q)
  BY <1>1, <1>2 DEF Good, Tables, Slots
<1>4. Owed(q) = Owed(p)
  BY <1>1 DEF Owed, Rest
<1>5. Budgets(q) /\ Lost(q) = Lost(p)
  BY <1>1, <1>4, BodiesReleased DEF Good, Budgets, Lost
<1> QED
  BY <1>1, <1>3, <1>5 DEF Good, q

(* drop_stream gives back all that its streams hold, and touches no other. *)
LEMMA DropKeeps ==
    ASSUME NEW p, Good(p), NEW S
    PROVE  LET q == Drop(p, S) IN
           /\ Good(q) /\ Lost(q) = Lost(p) /\ q.pending <= p.pending
           /\ q.inbound = Without(p.inbound, S) /\ q.outbound = Without(p.outbound, S)
           /\ q.active = p.active \ S /\ q.ready = p.ready \ S
           /\ Range(q.commands) = {c \in Range(p.commands) : ~Answers(c, S)}
           /\ \A s \in Stream : Owed(q)[s] = IF s \in S THEN 0 ELSE Owed(p)[s]
<1> DEFINE q == Drop(p, S)
<1>0. Tables(p) /\ IsTables(p)
  BY DEF Good, Tables
<1>1. /\ IsTables(q)
      /\ q.inbound = Without(p.inbound, S) /\ q.outbound = Without(p.outbound, S)
      /\ q.active = p.active \ S /\ q.ready = p.ready \ S
      /\ q.commands = KeptCommands(p.commands, S)
      /\ q.buffered = p.buffered - Total(Of(Body(p), S))
      /\ q.pending = p.pending - Total(Of(Owed(p), S))
  BY <1>0, DropIs
<1> HIDE DEF q
<1>2. OneEach(q.commands) /\ Range(q.commands) = {c \in Range(p.commands) : ~Answers(c, S)}
  BY <1>1, KeptIs DEF Good, Tables
<1>3. /\ q.inbound \in [DOMAIN q.inbound -> Request] /\ DOMAIN q.inbound = DOMAIN p.inbound \ S
      /\ q.outbound \in [DOMAIN q.outbound -> 1..MaxResponse]
      /\ DOMAIN q.outbound = DOMAIN p.outbound \ S
  BY <1>1 DEF Without, Good, Tables
<1>4. Slots(q)
  BY <1>0, <1>1, SlotsKept DEF Tables, Slots
<1>5. Tables(q)
  <2>1. \A c \in Range(q.commands) :
         /\ c.s \notin DOMAIN q.inbound /\ c.s \notin DOMAIN q.outbound
         /\ c.op = "response" => c.s \in q.active /\ c.len <= MaxResponse
    BY <1>0, <1>1, <1>2, <1>3 DEF Tables, Answers
  <2>2. /\ DOMAIN q.inbound \subseteq q.active /\ DOMAIN q.outbound \subseteq q.active
        /\ DOMAIN q.inbound \cap DOMAIN q.outbound = {} /\ q.ready \subseteq DOMAIN q.inbound
    BY <1>0, <1>1, <1>3 DEF Tables
  <2> QED
    BY <1>1, <1>2, <1>3, <1>4, <2>1, <2>2 DEF Tables
<1>6. ASSUME NEW s \in Stream
      PROVE  Owed(q)[s] = IF s \in S THEN 0 ELSE Owed(p)[s]
  <2>1. CASE s \in S
    <3>1. s \notin Sending(q)
      BY <1>2, <1>3, <2>1 DEF Sending, CommandsTo, Answers
    <3> QED
      BY <1>5, <2>1, <3>1, OwedIs
  <2>2. CASE s \notin S /\ s \in Sending(p)
    <3>1. CASE s \in DOMAIN p.outbound
      <4>1. s \in DOMAIN q.outbound /\ q.outbound[s] = p.outbound[s]
        BY <1>1, <1>3, <2>2, <3>1 DEF Without
      <4> QED
        BY <1>0, <1>5, <2>2, <3>1, <4>1, OwedIs
    <3>2. CASE s \notin DOMAIN p.outbound
      <4>1. PICK c \in Range(p.commands) : c.op = "response" /\ c.s = s
        BY <2>2, <3>2 DEF Sending, CommandsTo
      <4>2. c \in Range(q.commands)
        BY <1>2, <2>2, <4>1 DEF Answers
      <4>3. Owed(p)[c.s] = c.len /\ Owed(q)[c.s] = c.len
        BY <1>0, <1>5, <4>1, <4>2, OwedIs
      <4> QED
        BY <2>2, <4>1, <4>3
    <3> QED
      BY <3>1, <3>2
  <2>3. CASE s \notin S /\ s \notin Sending(p)
    <3>1. s \notin Sending(q)
      BY <1>2, <1>3, <2>3 DEF Sending, CommandsTo
    <3> QED
      BY <1>0, <1>5, <2>3, <3>1, OwedIs
  <2> QED
    BY <2>1, <2>2, <2>3
<1>7. Lost(q) = Lost(p) /\ q.pending <= p.pending /\ q.pending \in Nat
  <2> DEFINE f == Owed(p)
             g == Owed(q)
             k == Of(f, S)
  <2>1. /\ \A s \in Stream : f[s] \in Nat /\ g[s] \in Nat
        /\ Total(f) \in Nat /\ Total(g) \in Nat
    BY <1>0, <1>5, OwedIsNat
  <2>2. \A s \in Stream : k[s] = IF s \in S THEN f[s] ELSE 0
    BY DEF Of
  <2>3. \A s \in Stream : g[s] = IF s \in S THEN 0 ELSE f[s]
    BY <1>6
  <2>4. q.pending = p.pending - Total(k) /\ Lost(p) = p.pending - Total(f)
        /\ Lost(q) = q.pending - Total(g) /\ p.pending \in Nat /\ Lost(p) \in Nat
    BY <1>1 DEF Lost, Good, Budgets
  <2> HIDE DEF f, g, k
  <2>5. \A s \in Stream : k[s] \in Nat /\ f[s] = g[s] + k[s]
    BY <2>1, <2>2, <2>3
  <2>6. Total(f) = Total(g) + Total(k)
    BY <2>1, <2>5, TotalAdds
  <2>7. Total(k) \in Nat
    BY <2>5, TotalIsNat
  <2> QED
    BY <2>1, <2>4, <2>6, <2>7
<1>8. Budgets(q)
  BY <1>0, <1>1, <1>7, BodiesReleased DEF Budgets, Good
<1> QED
  BY <1>1, <1>2, <1>5, <1>6, <1>7, <1>8 DEF Good, q

(* queue_response: a command of a stream that has none, nor a body.        *)
LEMMA QueueKeeps ==
    ASSUME NEW p, Good(p), NEW c \in Command,
           c.s \notin DOMAIN p.inbound, c.s \notin DOMAIN p.outbound,
           \A d \in Range(p.commands) : d.s # c.s,
           c.op = "response" => c.s \in p.active /\ c.len <= MaxResponse,
           NEW q, IsTables(q), q.inbound = p.inbound, q.outbound = p.outbound,
           q.active = p.active, q.ready = p.ready, q.buffered = p.buffered,
           q.commands = Append(p.commands, c),
           q.pending = p.pending + IF c.op = "response" THEN c.len ELSE 0
    PROVE  Good(q) /\ Lost(q) = Lost(p) /\ Range(q.commands) = Range(p.commands) \union {c}
<1> DEFINE w == Len(p.commands) + 1
<1>0. Tables(p)
  BY DEF Good
<1>1. OneEach(q.commands) /\ Range(q.commands) = Range(p.commands) \union {c}
  <2>1. p.commands \in Seq(Command) /\ q.commands \in Seq(Command)
    BY <1>0 DEF Tables, OneEach
  <2>2. /\ DOMAIN q.commands = DOMAIN p.commands \union {w} /\ q.commands[w] = c
        /\ w \notin DOMAIN p.commands
        /\ \A i \in DOMAIN p.commands : q.commands[i] = p.commands[i]
    BY <2>1
  <2> HIDE DEF w
  <2>3. \A i \in DOMAIN p.commands : p.commands[i].s # c.s
    BY DEF Range
  <2>4. Range(q.commands) = Range(p.commands) \union {c}
    BY <2>2 DEF Range
  <2>5. \A i, j \in DOMAIN q.commands : q.commands[i].s = q.commands[j].s => i = j
    BY <1>0, <2>2, <2>3 DEF Tables, OneEach
  <2> QED
    BY <2>1, <2>4, <2>5 DEF OneEach
<1>2. Tables(q)
  <2>1. \A d \in Range(q.commands) :
         /\ d.s \notin DOMAIN q.inbound /\ d.s \notin DOMAIN q.outbound
         /\ d.op = "response" => d.s \in q.active /\ d.len <= MaxResponse
    BY <1>0, <1>1 DEF Tables
  <2> QED
    BY <1>0, <1>1, <2>1 DEF Tables, Slots
<1> DEFINE n == IF c.op = "response" THEN c.len ELSE 0
           k == [s \in Stream |-> IF s = c.s THEN n ELSE 0]
           f == Owed(q)
           g == Owed(p)
<1>3. n \in Nat /\ c.s \in Stream /\ q.pending = p.pending + n
  BY DEF Command
<1>4. /\ \A s \in Stream : f[s] \in Nat /\ g[s] \in Nat
      /\ Total(f) \in Nat /\ Total(g) \in Nat
  BY <1>0, <1>2, OwedIsNat
<1>5. ASSUME NEW s \in Stream PROVE f[s] = g[s] + k[s]
  <2>1. CASE s = c.s
    <3>1. s \notin Sending(p)
      BY <2>1 DEF Sending, CommandsTo
    <3>2. g[s] = 0
      BY <1>0, <3>1, OwedIs
    <3>3. CASE c.op = "response"
      <4>1. f[c.s] = c.len
        BY <1>1, <1>2, <3>3, OwedIs
      <4> QED
        BY <2>1, <3>2, <3>3, <4>1, <1>3
    <3>4. CASE c.op # "response"
      <4>1. s \notin Sending(q)
        BY <1>1, <3>1, <3>4 DEF Sending, CommandsTo
      <4>2. f[s] = 0
        BY <1>2, <4>1, OwedIs
      <4> QED
        BY <2>1, <3>2, <3>4, <4>2
    <3> QED
      BY <3>3, <3>4
  <2>2. CASE s # c.s
    <3>1. CASE s \in DOMAIN p.outbound
      <4>1. g[s] = p.outbound[s] /\ f[s] = q.outbound[s]
        BY <1>0, <1>2, <3>1, OwedIs
      <4> QED
        BY <1>4, <2>2, <4>1
    <3>2. CASE \E d \in Range(p.commands) : d.op = "response" /\ d.s = s
      <4>1. PICK d \in Range(p.commands) : d.op = "response" /\ d.s = s
        BY <3>2
      <4>2. g[d.s] = d.len /\ f[d.s] = d.len
        BY <1>0, <1>1, <1>2, <4>1, OwedIs
      <4> QED
        BY <1>4, <2>2, <4>1, <4>2
    <3>3. CASE s \notin Sending(p)
      <4>1. s \notin Sending(q)
        BY <1>1, <2>2, <3>3 DEF Sending, CommandsTo
      <4>2. g[s] = 0 /\ f[s] = 0
        BY <1>0, <1>2, <3>3, <4>1, OwedIs
      <4> QED
        BY <2>2, <4>2
    <3> QED
      BY <3>1, <3>2, <3>3 DEF Sending, CommandsTo
  <2> QED
    BY <2>1, <2>2
<1>6. k[c.s] = n /\ \A s \in Stream : k[s] \in Nat /\ (s # c.s => k[s] = 0)
  BY <1>3
<1> HIDE DEF n, k, f, g
<1>7. Total(f) = Total(g) + Total(k)
  BY <1>4, <1>5, <1>6, TotalAdds
<1>8. Total(k) = n
  BY <1>3, <1>6, TotalIsOne
<1>9. Lost(q) = Lost(p) /\ q.pending \in Nat
  BY <1>3, <1>4, <1>7, <1>8 DEF Lost, Good, Budgets, f, g
<1>10. Body(q) = Body(p)
  BY DEF Body
<1> QED
  BY <1>1, <1>2, <1>9, <1>10 DEF Good, Budgets

(* flush: what is sent, reset or dropped is no longer owed.                *)
LEMMA FlushedKeeps ==
    ASSUME NEW p, Good(p), NEW bad, bad \subseteq Sending(p), NEW chunk,
           \A s \in Sending(p) : chunk[s] \in Nat /\ chunk[s] <= Owed(p)[s]
    PROVE  LET q == Flushed(p, bad, chunk) IN
           /\ Good(q) /\ Lost(q) = Lost(p) /\ q.pending <= p.pending
           /\ q.inbound = p.inbound /\ q.ready = p.ready /\ q.commands = <<>>
           /\ q.active = p.active \ (CommandsTo(p, "reset") \union (Sending(p) \ DOMAIN q.outbound))
           /\ DOMAIN q.outbound \subseteq Sending(p)
<1> DEFINE dropped == CommandsTo(p, "reset") \union bad
           d == Drop(p, dropped)
           sent == Sending(p) \ dropped
           done == {s \in sent : chunk[s] = Owed(p)[s]}
           out == [s \in sent \ done |-> Owed(p)[s] - chunk[s]]
           w == Total(Of(chunk, sent))
           q == Flushed(p, bad, chunk)
<1>0. Tables(p) /\ Budgets(p)
  BY DEF Good
<1>1. q = [d EXCEPT !.commands = <<>>, !.active = @ \ done, !.pending = @ - w,
                    !.outbound = out]
  BY DEF Flushed
<1>2. /\ Good(d) /\ Lost(d) = Lost(p) /\ d.pending <= p.pending
      /\ d.inbound = Without(p.inbound, dropped)
      /\ d.active = p.active \ dropped /\ d.ready = p.ready \ dropped
      /\ \A s \in Stream : Owed(d)[s] = IF s \in dropped THEN 0 ELSE Owed(p)[s]
  BY DropKeeps
<1>3. dropped \cap DOMAIN p.inbound = {} /\ Sending(p) \cap DOMAIN p.inbound = {}
      /\ Sending(p) \subseteq p.active
  BY <1>0 DEF Sending, CommandsTo, Tables
<1>4. IsTables(d) /\ Tables(d) /\ Budgets(d)
  BY <1>2 DEF Good, Tables
<1>6. /\ done \subseteq sent /\ sent \subseteq Sending(p) /\ sent \cap dropped = {}
      /\ \A s \in done : chunk[s] = Owed(p)[s]
      /\ \A s \in sent \ done : chunk[s] # Owed(p)[s]
      /\ bad \cup CommandsTo(p, "reset") = dropped
      /\ Sending(p) \ dropped = sent
  OBVIOUS
<1>7. /\ DOMAIN out = sent \ done
      /\ \A s \in sent \ done : out[s] = Owed(p)[s] - chunk[s]
      /\ out = [s \in DOMAIN out |-> out[s]]
  OBVIOUS
<1>w. w = Total(Of(chunk, sent))
  OBVIOUS
<1> HIDE DEF d, q, w, out, done, sent, dropped
<1>5. d.inbound = p.inbound /\ d.ready = p.ready
  <2>1. p.inbound = [s \in DOMAIN p.inbound |-> p.inbound[s]]
    BY <1>0 DEF Tables
  <2>2. DOMAIN p.inbound \ dropped = DOMAIN p.inbound /\ p.ready \ dropped = p.ready
    BY <1>0, <1>3 DEF Tables
  <2>3. d.inbound = [s \in DOMAIN p.inbound |-> p.inbound[s]]
    BY <1>2, <2>2 DEF Without
  <2> QED
    BY <1>2, <2>1, <2>2, <2>3
<1>8. /\ IsTables(q) /\ q.commands = <<>> /\ q.active = d.active \ done
      /\ q.pending = d.pending - w /\ q.outbound = out
      /\ q.inbound = d.inbound /\ q.ready = d.ready /\ q.buffered = d.buffered
  <2>1. q = [inbound |-> d.inbound, active |-> d.active \ done, outbound |-> out,
             commands |-> <<>>, buffered |-> d.buffered, pending |-> d.pending - w,
             ready |-> d.ready]
    BY <1>1, <1>4 DEF IsTables
  <2> QED
    BY <2>1 DEF IsTables
<1>9. Range(q.commands) = {} /\ OneEach(q.commands)
  BY <1>8 DEF OneEach, Range
<1>10. Sending(p) \subseteq Stream /\ \A s \in Stream : Owed(p)[s] \in 0..MaxResponse
  BY <1>0, <1>3, OwedIs DEF Tables, Slots
<1>11. out \in [DOMAIN out -> 1..MaxResponse]
  <2>1. MaxResponse \in Nat
    BY StreamsAssumption DEF StreamsAssumption
  <2>2. \A s \in DOMAIN out : out[s] \in 1..MaxResponse
    BY <1>6, <1>7, <1>10, <2>1
  <2> QED
    BY <1>7, <2>2
<1>12. Tables(q)
  <2>1. Slots(q)
    BY <1>4, <1>8, SlotsKept DEF Tables, Slots
  <2>2. /\ DOMAIN q.inbound \subseteq q.active /\ DOMAIN q.outbound \subseteq q.active
        /\ DOMAIN q.inbound \cap DOMAIN q.outbound = {} /\ q.ready \subseteq DOMAIN q.inbound
    BY <1>0, <1>2, <1>3, <1>5, <1>6, <1>7, <1>8 DEF Tables
  <2>3. q.inbound \in [DOMAIN q.inbound -> Request]
    BY <1>0, <1>5, <1>8 DEF Tables
  <2>4. q.outbound \in [DOMAIN q.outbound -> 1..MaxResponse]
    BY <1>8, <1>11
  <2> QED
    BY <1>8, <1>9, <2>1, <2>2, <2>3, <2>4 DEF Tables
<1> DEFINE f == Owed(d)
           g == Owed(q)
           k == Of(chunk, sent)
<1>13. /\ \A s \in Stream : f[s] \in Nat /\ g[s] \in Nat
       /\ Total(f) \in Nat /\ Total(g) \in Nat
  BY <1>4, <1>12, OwedIsNat
<1>14. ASSUME NEW s \in Stream PROVE k[s] \in Nat /\ f[s] = g[s] + k[s]
  <2>1. k[s] = IF s \in sent THEN chunk[s] ELSE 0
    BY DEF Of
  <2>2. CASE s \in sent \ done
    <3>1. g[s] = out[s]
      BY <1>7, <1>8, <1>12, <2>2, OwedIs
    <3>2. f[s] = Owed(p)[s]
      BY <1>2, <1>6, <2>2
    <3>3. k[s] \in Nat /\ out[s] = Owed(p)[s] - k[s]
      BY <1>6, <1>7, <2>1, <2>2
    <3> QED
      BY <1>13, <3>1, <3>2, <3>3
  <2>3. CASE s \in done
    <3>1. s \notin Sending(q)
      BY <1>7, <1>8, <1>9, <2>3 DEF Sending, CommandsTo
    <3>2. g[s] = 0
      BY <1>12, <3>1, OwedIs
    <3>3. f[s] = Owed(p)[s] /\ k[s] = chunk[s] /\ chunk[s] = Owed(p)[s]
      BY <1>2, <1>6, <2>1, <2>3
    <3> QED
      BY <1>13, <3>2, <3>3
  <2>4. CASE s \notin sent
    <3>1. s \notin Sending(q)
      BY <1>7, <1>8, <1>9, <2>4 DEF Sending, CommandsTo
    <3>2. g[s] = 0
      BY <1>12, <3>1, OwedIs
    <3>3. f[s] = 0
      BY <1>0, <1>2, <1>6, <2>4, OwedIs
    <3> QED
      BY <2>1, <2>4, <3>2, <3>3
  <2> QED
    BY <2>2, <2>3, <2>4
<1> HIDE DEF f, g, k
<1>15. Total(f) = Total(g) + Total(k)
  BY <1>13, <1>14, TotalAdds
<1>16. Total(k) \in Nat
  BY <1>14, TotalIsNat
<1>17. Lost(q) = Lost(d) /\ q.pending <= d.pending /\ q.pending \in Nat
  <2>1. w = Total(k) /\ Lost(d) = d.pending - Total(f) /\ Lost(q) = q.pending - Total(g)
    BY <1>w DEF k, Lost, f, g
  <2>2. d.pending \in Nat /\ Lost(d) \in Nat
    BY <1>4 DEF Budgets
  <2> QED
    BY <1>8, <1>13, <1>15, <1>16, <2>1, <2>2
<1>18. Budgets(q)
  <2>1. Body(q) = Body(d)
    BY <1>8 DEF Body
  <2>2. Lost(q) \in Nat
    BY <1>4, <1>17 DEF Budgets
  <2> QED
    BY <1>4, <1>8, <1>17, <2>1, <2>2 DEF Budgets
<1>19. q.active = p.active \ (CommandsTo(p, "reset") \union (Sending(p) \ DOMAIN q.outbound))
  BY <1>2, <1>6, <1>7, <1>8
<1>20. q.pending <= p.pending /\ Lost(q) = Lost(p)
  <2>1. p.pending \in Nat /\ d.pending \in Nat
    BY <1>0, <1>4 DEF Budgets
  <2> QED
    BY <1>2, <1>17, <2>1
<1> QED
  BY <1>5, <1>6, <1>7, <1>8, <1>12, <1>18, <1>19, <1>20 DEF Good, q

(* The fields of a record that is given field by field.                    *)
LEMMA FieldsAre ==
    ASSUME NEW in, NEW act, NEW out, NEW com, NEW buf, NEW pen, NEW rdy, NEW q,
           q = [inbound |-> in, active |-> act, outbound |-> out, commands |-> com,
                buffered |-> buf, pending |-> pen, ready |-> rdy]
    PROVE  /\ IsTables(q) /\ q.inbound = in /\ q.active = act /\ q.outbound = out
           /\ q.commands = com /\ q.buffered = buf /\ q.pending = pen /\ q.ready = rdy
BY DEF IsTables

(* The tables of a new or closed connection.                               *)
LEMMA NothingIsGood ==
    ASSUME NEW p,
           p = [inbound |-> <<>>, active |-> {}, outbound |-> <<>>, commands |-> <<>>,
                buffered |-> 0, pending |-> 0, ready |-> {}]
    PROVE  /\ Good(p) /\ Lost(p) = 0 /\ p.pending = 0 /\ p.active = {} /\ p.ready = {}
           /\ Asked(p) = {} /\ DOMAIN p.inbound = {} /\ DOMAIN p.outbound = {}
<1>1. /\ IsTables(p) /\ DOMAIN p.inbound = {} /\ DOMAIN p.outbound = {} /\ p.ready = {}
      /\ p.active = {} /\ p.commands = <<>> /\ p.buffered = 0 /\ p.pending = 0
      /\ p.inbound = <<>> /\ p.outbound = <<>>
  BY DEF IsTables
<1>2. Range(p.commands) = {} /\ OneEach(p.commands) /\ Asked(p) = {}
  BY <1>1 DEF Range, OneEach, Asked
<1>3. Slots(p)
  <2>1. Cardinality(p.active) = 0
    BY <1>1, FS_EmptySet
  <2> QED
    BY <1>1, <2>1, StreamsAssumption DEF Slots, StreamsAssumption
<1>4. p.inbound \in [DOMAIN p.inbound -> Request]
      /\ p.outbound \in [DOMAIN p.outbound -> 1..MaxResponse]
  BY <1>1
<1>5. Tables(p)
  BY <1>1, <1>2, <1>3, <1>4 DEF Tables
<1>6. \A s \in Stream : Body(p)[s] = 0 /\ Owed(p)[s] = 0
  <2>1. Sending(p) = {}
    BY <1>1, <1>2 DEF Sending, CommandsTo
  <2> QED
    BY <1>1, <1>5, <2>1, OwedIs DEF Body
<1>7. Total(Body(p)) = 0 /\ Total(Owed(p)) = 0
  <2>1. NStreams \in Nat
    BY StreamsAssumption DEF StreamsAssumption
  <2> DEFINE b == Body(p)
             o == Owed(p)
  <2>2. \A i \in 1..NStreams : b[i] = 0 /\ o[i] = 0
    BY <1>6 DEF Stream
  <2> HIDE DEF b, o
  <2>3. Total(b) = 0 /\ Total(o) = 0
    BY <2>1, <2>2, SumIsZero DEF Total
  <2> QED
    BY <2>3 DEF b, o
<1>8. MaxBuffer \in Nat
  BY StreamsAssumption DEF StreamsAssumption
<1>9. Budgets(p) /\ Lost(p) = 0
  BY <1>1, <1>7, <1>8 DEF Budgets, Lost
<1> QED
  BY <1>1, <1>2, <1>5, <1>9 DEF Good

(* A change that leaves the responses alone, and charges what it adds.     *)
LEMMA SameOwed ==
    ASSUME NEW p, Good(p), NEW q, Tables(q), q.outbound = p.outbound,
           q.commands = p.commands, q.pending = p.pending,
           q.buffered = Total(Body(q)), q.buffered <= MaxBuffer
    PROVE  Good(q) /\ Lost(q) = Lost(p)
<1>1. Owed(q) = Owed(p)
  BY DEF Owed, Rest
<1> QED
  BY <1>1 DEF Good, Budgets, Lost

LEMMA SameBody ==
    ASSUME NEW p, Good(p), NEW q, q.buffered = p.buffered,
           \A s \in Stream : Body(q)[s] = Body(p)[s]
    PROVE  q.buffered = Total(Body(q)) /\ q.buffered <= MaxBuffer
<1>1. Body(p) = [s \in Stream |-> Body(p)[s]] /\ Body(q) = [s \in Stream |-> Body(q)[s]]
  BY DEF Body
<1>2. Body(q) = Body(p)
  BY <1>1
<1> QED
  BY <1>2 DEF Good, Budgets

(* _request_received: a new stream, a new request.                         *)
Opened(p, s, want) ==
    [p EXCEPT !.active = @ \union {s},
              !.inbound = With(@, s, [len |-> 0, want |-> want, whole |-> FALSE])]

LEMMA OpeningKeeps ==
    ASSUME NEW p, Good(p), MayOpen(p), NEW s \in Stream, s \notin p.active,
           s \notin Asked(p), NEW want \in {Unknown} \union 0..MaxBody
    PROVE  LET q == Opened(p, s, want) IN
           /\ Good(q) /\ Lost(q) = Lost(p) /\ q.pending = p.pending
           /\ q.active = p.active \union {s} /\ q.outbound = p.outbound
           /\ q.commands = p.commands /\ q.ready = p.ready
           /\ DOMAIN q.inbound = DOMAIN p.inbound \union {s}
           /\ \A t \in DOMAIN p.inbound : q.inbound[t] = p.inbound[t]
<1> DEFINE r == [len |-> 0, want |-> want, whole |-> FALSE]
           in == With(p.inbound, s, r)
           q == Opened(p, s, want)
<1>0. Tables(p) /\ IsTables(p) /\ Slots(p) /\ MaxBody \in Nat
  BY StreamsAssumption DEF Good, Tables, StreamsAssumption
<1>1. r \in Request /\ r.len = 0
  BY <1>0 DEF Request
<1> HIDE DEF r
<1>2. /\ DOMAIN in = DOMAIN p.inbound \union {s} /\ in[s] = r
      /\ in \in [DOMAIN in -> Request]
      /\ \A t \in DOMAIN p.inbound : t # s /\ in[t] = p.inbound[t]
  <2>1. s \notin DOMAIN p.inbound /\ p.inbound \in [DOMAIN p.inbound -> Request]
    BY <1>0 DEF Tables
  <2> QED
    BY <1>1, <2>1 DEF With
<1>3. q = [p EXCEPT !.active = @ \union {s}, !.inbound = in]
  BY DEF r, Opened
<1> HIDE DEF in, q
<1>4. /\ IsTables(q) /\ q.active = p.active \union {s} /\ q.inbound = in
      /\ q.outbound = p.outbound /\ q.commands = p.commands /\ q.ready = p.ready
      /\ q.buffered = p.buffered /\ q.pending = p.pending
  <2>1. q = [inbound |-> in, active |-> p.active \union {s}, outbound |-> p.outbound,
             commands |-> p.commands, buffered |-> p.buffered, pending |-> p.pending,
             ready |-> p.ready]
    BY <1>0, <1>3 DEF IsTables
  <2> QED
    BY <2>1, FieldsAre
<1>5. Slots(q)
  BY <1>0, <1>4, SlotsKept DEF Slots
<1>6. Tables(q)
  <2>1. \A c \in Range(q.commands) :
         /\ c.s \notin DOMAIN q.inbound /\ c.s \notin DOMAIN q.outbound
         /\ c.op = "response" => c.s \in q.active /\ c.len <= MaxResponse
    BY <1>0, <1>2, <1>4 DEF Tables, Asked
  <2>2. /\ DOMAIN q.inbound \subseteq q.active /\ DOMAIN q.outbound \subseteq q.active
        /\ DOMAIN q.inbound \cap DOMAIN q.outbound = {} /\ q.ready \subseteq DOMAIN q.inbound
    BY <1>0, <1>2, <1>4 DEF Tables
  <2>3. /\ q.inbound \in [DOMAIN q.inbound -> Request] /\ OneEach(q.commands)
        /\ q.outbound \in [DOMAIN q.outbound -> 1..MaxResponse]
    BY <1>0, <1>2, <1>4 DEF Tables
  <2> QED
    BY <1>4, <1>5, <2>1, <2>2, <2>3 DEF Tables
<1>7. \A t \in Stream : Body(q)[t] = Body(p)[t]
  <2>1. s \notin DOMAIN p.inbound
    BY <1>2
  <2> QED
    BY <1>1, <1>2, <1>4, <2>1 DEF Body
<1>8. q.buffered = Total(Body(q)) /\ q.buffered <= MaxBuffer
  BY <1>4, <1>7, SameBody
<1>9. Good(q) /\ Lost(q) = Lost(p)
  BY <1>4, <1>6, <1>8, SameOwed
<1> QED
  BY <1>2, <1>4, <1>9 DEF q

(* A request that changes: q holds r for s where p held another.           *)
Replaced(p, q, s, r) ==
    /\ IsTables(q) /\ q.inbound = [p.inbound EXCEPT ![s] = r]
    /\ q.active = p.active /\ q.outbound = p.outbound /\ q.commands = p.commands
    /\ q.pending = p.pending

LEMMA ReplacedTables ==
    ASSUME NEW p, Tables(p), NEW s \in DOMAIN p.inbound, NEW r \in Request, NEW q,
           Replaced(p, q, s, r), q.ready \subseteq DOMAIN p.inbound
    PROVE  /\ Tables(q) /\ DOMAIN q.inbound = DOMAIN p.inbound /\ q.inbound[s] = r
           /\ \A t \in DOMAIN p.inbound : t # s => q.inbound[t] = p.inbound[t]
<1>1. /\ DOMAIN q.inbound = DOMAIN p.inbound /\ q.inbound[s] = r
      /\ q.inbound \in [DOMAIN p.inbound -> Request]
      /\ \A t \in DOMAIN p.inbound : t # s => q.inbound[t] = p.inbound[t]
  BY DEF Replaced, Tables
<1> QED
  BY <1>1 DEF Replaced, Tables, Slots

(* _data_received: the request and the budget grow by the same bytes.      *)
Grown(p, s, n) == [p EXCEPT !.inbound[s].len = @ + n, !.buffered = @ + n]

LEMMA GrowingKeeps ==
    ASSUME NEW p, Good(p), NEW s \in DOMAIN p.inbound, NEW n \in Nat,
           ~OverBudget(p, s, n)
    PROVE  LET q == Grown(p, s, n) IN
           /\ Good(q) /\ Lost(q) = Lost(p) /\ q.pending = p.pending
           /\ q.active = p.active /\ q.outbound = p.outbound
           /\ q.commands = p.commands /\ q.ready = p.ready
           /\ DOMAIN q.inbound = DOMAIN p.inbound
           /\ \A t \in DOMAIN p.inbound : q.inbound[t].whole = p.inbound[t].whole
<1> DEFINE o == p.inbound[s]
           r == [o EXCEPT !.len = @ + n]
           in == [p.inbound EXCEPT ![s] = r]
           q == Grown(p, s, n)
<1>0. Tables(p) /\ IsTables(p) /\ MaxBody \in Nat /\ MaxBuffer \in Nat /\ s \in Stream
      /\ p.buffered = Total(Body(p))
  BY StreamsAssumption DEF Good, Tables, StreamsAssumption, Slots, Budgets
<1>1. o \in Request /\ o.len + n <= MaxBody /\ p.buffered + n <= MaxBuffer
  <2>1. o \in Request
    BY <1>0 DEF Tables
  <2>2. o.len \in Nat /\ p.buffered \in Nat
    <3>1. \A t \in Stream : Body(p)[t] \in Nat
      BY <1>0 DEF Body, Tables, Request
    <3> QED
      BY <1>0, <2>1, <3>1, TotalIsNat DEF Request
  <2> QED
    BY <1>0, <2>1, <2>2 DEF OverBudget
<1>2. r \in Request /\ r.len = o.len + n /\ r.whole = o.whole /\ o.len \in Nat
  BY <1>0, <1>1 DEF Request
<1>3. q = [p EXCEPT !.inbound = in, !.buffered = @ + n]
  BY DEF Grown
<1>o. o = p.inbound[s]
  OBVIOUS
<1>i. in = [p.inbound EXCEPT ![s] = r]
  OBVIOUS
<1> HIDE DEF o, r, in, q
<1>4. /\ Replaced(p, q, s, r) /\ q.ready = p.ready /\ q.buffered = p.buffered + n
  <2>1. q = [inbound |-> in, active |-> p.active, outbound |-> p.outbound,
             commands |-> p.commands, buffered |-> p.buffered + n, pending |-> p.pending,
             ready |-> p.ready]
    BY <1>0, <1>3 DEF IsTables
  <2> QED
    BY <2>1, <1>i, FieldsAre DEF Replaced
<1>5. /\ Tables(q) /\ DOMAIN q.inbound = DOMAIN p.inbound /\ q.inbound[s] = r
      /\ \A t \in DOMAIN p.inbound : t # s => q.inbound[t] = p.inbound[t]
  <2>1. q.ready \subseteq DOMAIN p.inbound
    BY <1>0, <1>4 DEF Tables
  <2> QED
    BY <1>0, <1>2, <1>4, <2>1, ReplacedTables
<1> DEFINE f == Body(q)
           g == Body(p)
           k == [t \in Stream |-> IF t = s THEN n ELSE 0]
<1>6. /\ \A t \in Stream : g[t] = IF t \in DOMAIN p.inbound THEN p.inbound[t].len ELSE 0
      /\ \A t \in Stream : f[t] = IF t \in DOMAIN p.inbound THEN q.inbound[t].len ELSE 0
  BY <1>5 DEF Body
<1>7. \A t \in DOMAIN p.inbound : p.inbound[t].len \in Nat
  BY <1>0 DEF Tables, Request
<1>8. k[s] = n /\ \A t \in Stream : k[t] \in Nat /\ (t # s => k[t] = 0)
  BY <1>0
<1> HIDE DEF f, g, k
<1>9. \A t \in Stream : g[t] \in Nat /\ k[t] \in Nat /\ f[t] = g[t] + k[t]
  <2>1. g[s] = o.len /\ f[s] = o.len + n
    BY <1>0, <1>2, <1>5, <1>6, <1>o
  <2>2. \A t \in Stream : t # s => f[t] = g[t] /\ g[t] \in Nat
    BY <1>5, <1>6, <1>7
  <2> QED
    BY <1>2, <1>8, <2>1, <2>2
<1>10. Total(f) = Total(g) + Total(k)
  BY <1>9, TotalAdds
<1>11. Total(k) = n
  BY <1>0, <1>8, TotalIsOne
<1>12. q.buffered = Total(Body(q)) /\ q.buffered <= MaxBuffer
  BY <1>0, <1>1, <1>4, <1>10, <1>11 DEF f, g
<1>13. Good(q) /\ Lost(q) = Lost(p)
  BY <1>4, <1>5, <1>12, SameOwed DEF Replaced
<1> QED
  BY <1>2, <1>4, <1>5, <1>13, <1>o DEF Replaced, q

(* _stream_ended: the request is whole, and ready for a handler.           *)
Ended(p, s) == [p EXCEPT !.inbound[s].whole = TRUE, !.ready = @ \union {s}]

LEMMA EndingKeeps ==
    ASSUME NEW p, Good(p), NEW s \in DOMAIN p.inbound
    PROVE  LET q == Ended(p, s) IN
           /\ Good(q) /\ Lost(q) = Lost(p) /\ q.pending = p.pending
           /\ q.active = p.active /\ q.outbound = p.outbound
           /\ q.commands = p.commands /\ q.ready = p.ready \union {s}
           /\ DOMAIN q.inbound = DOMAIN p.inbound /\ q.inbound[s].whole
           /\ \A t \in DOMAIN p.inbound : p.inbound[t].whole => q.inbound[t].whole
<1> DEFINE o == p.inbound[s]
           r == [o EXCEPT !.whole = TRUE]
           in == [p.inbound EXCEPT ![s] = r]
           q == Ended(p, s)
<1>0. Tables(p) /\ IsTables(p)
  BY DEF Good, Tables
<1>1. o \in Request
  BY <1>0 DEF Tables
<1>2. r \in Request /\ r.len = o.len /\ r.whole
  BY <1>1 DEF Request
<1>3. q = [p EXCEPT !.inbound = in, !.ready = @ \union {s}]
  BY DEF Ended
<1>o. o = p.inbound[s]
  OBVIOUS
<1>i. in = [p.inbound EXCEPT ![s] = r]
  OBVIOUS
<1> HIDE DEF o, r, in, q
<1>4. Replaced(p, q, s, r) /\ q.ready = p.ready \union {s} /\ q.buffered = p.buffered
  <2>1. q = [inbound |-> in, active |-> p.active, outbound |-> p.outbound,
             commands |-> p.commands, buffered |-> p.buffered, pending |-> p.pending,
             ready |-> p.ready \union {s}]
    BY <1>0, <1>3 DEF IsTables
  <2> QED
    BY <2>1, <1>i, FieldsAre DEF Replaced
<1>5. /\ Tables(q) /\ DOMAIN q.inbound = DOMAIN p.inbound /\ q.inbound[s] = r
      /\ \A t \in DOMAIN p.inbound : t # s => q.inbound[t] = p.inbound[t]
  <2>1. q.ready \subseteq DOMAIN p.inbound
    BY <1>0, <1>4 DEF Tables
  <2> QED
    BY <1>0, <1>2, <1>4, <2>1, ReplacedTables
<1>6. \A t \in Stream : Body(q)[t] = Body(p)[t]
  <2>1. \A t \in DOMAIN p.inbound : q.inbound[t].len = p.inbound[t].len
    BY <1>2, <1>5, <1>o
  <2> QED
    BY <1>5, <2>1 DEF Body
<1>7. q.buffered = Total(Body(q)) /\ q.buffered <= MaxBuffer
  BY <1>4, <1>6, SameBody
<1>8. Good(q) /\ Lost(q) = Lost(p)
  BY <1>4, <1>5, <1>7, SameOwed DEF Replaced
<1> QED
  BY <1>2, <1>4, <1>5, <1>8 DEF Replaced, q

(* The requests that were ready are handed out.                            *)
HandedOut(p) == [p EXCEPT !.ready = {}]

LEMMA HandingOutKeeps ==
    ASSUME NEW p, Good(p)
    PROVE  LET q == HandedOut(p) IN
           /\ Good(q) /\ Lost(q) = Lost(p) /\ q.pending = p.pending
           /\ q.active = p.active /\ q.outbound = p.outbound
           /\ q.commands = p.commands /\ q.ready = {} /\ q.inbound = p.inbound
<1> DEFINE q == HandedOut(p)
<1>0. Tables(p) /\ IsTables(p)
  BY DEF Good, Tables
<1>1. /\ IsTables(q) /\ q.inbound = p.inbound /\ q.active = p.active
      /\ q.outbound = p.outbound /\ q.commands = p.commands /\ q.buffered = p.buffered
      /\ q.pending = p.pending /\ q.ready = {}
  <2>1. q = [inbound |-> p.inbound, active |-> p.active, outbound |-> p.outbound,
             commands |-> p.commands, buffered |-> p.buffered, pending |-> p.pending,
             ready |-> {}]
    BY <1>0 DEF IsTables, HandedOut
  <2> HIDE DEF q
  <2> QED
    BY <2>1, FieldsAre
<1> HIDE DEF q
<1>2. Tables(q)
  BY <1>0, <1>1 DEF Tables, Slots
<1>3. \A t \in Stream : Body(q)[t] = Body(p)[t]
  BY <1>1 DEF Body
<1>4. q.buffered = Total(Body(q)) /\ q.buffered <= MaxBuffer
  BY <1>1, <1>3, SameBody
<1> QED
  BY <1>1, <1>2, <1>4, SameOwed DEF q

(* A flush that raises has taken the commands, and what they owed is lost. *)
LEMMA LosingKeeps ==
    ASSUME NEW p, Good(p), NEW q, q = [p EXCEPT !.commands = <<>>]
    PROVE  /\ Good(q) /\ q.active = p.active /\ q.outbound = p.outbound
           /\ Asked(q) = {} /\ q.ready = p.ready /\ q.inbound = p.inbound
<1>0. Tables(p) /\ IsTables(p) /\ Budgets(p)
  BY DEF Good, Tables
<1>1. /\ IsTables(q) /\ q.inbound = p.inbound /\ q.active = p.active
      /\ q.outbound = p.outbound /\ q.commands = <<>> /\ q.buffered = p.buffered
      /\ q.pending = p.pending /\ q.ready = p.ready
  <2>1. q = [inbound |-> p.inbound, active |-> p.active, outbound |-> p.outbound,
             commands |-> <<>>, buffered |-> p.buffered, pending |-> p.pending,
             ready |-> p.ready]
    BY <1>0 DEF IsTables
  <2> QED
    BY <2>1, FieldsAre
<1>2. Range(q.commands) = {} /\ OneEach(q.commands) /\ Asked(q) = {}
  BY <1>1 DEF Range, OneEach, Asked
<1>3. Tables(q)
  BY <1>0, <1>1, <1>2 DEF Tables, Slots
<1> DEFINE f == Owed(p)
           g == Owed(q)
           k == [s \in Stream |-> f[s] - g[s]]
<1>4. /\ \A s \in Stream : f[s] \in Nat /\ g[s] \in Nat
      /\ Total(f) \in Nat /\ Total(g) \in Nat
  BY <1>0, <1>3, OwedIsNat
<1>5. \A s \in Stream : g[s] = 0 \/ g[s] = f[s]
  <2>1. ASSUME NEW s \in Stream, s \in DOMAIN p.outbound PROVE g[s] = f[s]
    <3>1. f[s] = p.outbound[s]
      BY <1>0, <2>1, OwedIs
    <3>2. g[s] = q.outbound[s]
      BY <1>1, <1>3, <2>1, OwedIs
    <3> QED
      BY <1>1, <3>1, <3>2
  <2>2. ASSUME NEW s \in Stream, s \notin DOMAIN p.outbound PROVE g[s] = 0
    <3>1. s \notin Sending(q)
      BY <1>1, <1>2, <2>2 DEF Sending, CommandsTo
    <3> QED
      BY <1>3, <3>1, OwedIs
  <2> QED
    BY <2>1, <2>2
<1>6. \A s \in Stream : k[s] = f[s] - g[s]
  OBVIOUS
<1> HIDE DEF f, g, k
<1>7. \A s \in Stream : k[s] \in Nat /\ f[s] = g[s] + k[s]
  BY <1>4, <1>5, <1>6
<1>8. Total(f) = Total(g) + Total(k) /\ Total(k) \in Nat
  BY <1>4, <1>7, TotalAdds, TotalIsNat
<1>9. Lost(q) \in Nat /\ q.pending \in Nat
  <2>1. /\ Lost(p) = p.pending - Total(f) /\ Lost(q) = q.pending - Total(g)
        /\ p.pending \in Nat /\ Lost(p) \in Nat
    BY <1>0 DEF Lost, Budgets, f, g
  <2> QED
    BY <1>1, <1>4, <1>8, <2>1
<1>10. \A t \in Stream : Body(q)[t] = Body(p)[t]
  BY <1>1 DEF Body
<1>11. q.buffered = Total(Body(q)) /\ q.buffered <= MaxBuffer
  BY <1>1, <1>10, SameBody
<1> QED
  BY <1>1, <1>2, <1>3, <1>9, <1>11 DEF Good, Budgets

-----------------------------------------------------------------------------
(* The inductive invariant: the tables are good, and tell where a stream   *)
(* is on its way from the wire to the writer.                              *)
Typed ==
    /\ control \in Nat /\ cancelled \subseteq Stream /\ handlers \subseteq Stream
    /\ last \in Nat /\ wire \in [Stream -> {"idle", "open", "ended", "closed"}]
    /\ batch \in BOOLEAN /\ phase \in {"up", "failed", "closed"}

(* A stream with a slot is alive on the wire, one past its request is not  *)
(* open there any more, and nothing is lost while the connection is up.    *)
Wired ==
    /\ \A s \in h.active : wire[s] \in {"open", "ended"}
    /\ \A s \in handlers \union h.ready \union DOMAIN h.outbound \union Asked(h) :
         wire[s] \in {"ended", "closed"}
    /\ phase = "up" => \A s \in Stream : wire[s] = "open" => s \in DOMAIN h.inbound
    /\ batch => phase = "up"

(* A handler has its complete request until it answers; a handler whose    *)
(* stream lost its slot is cancelled at the end of the batch.              *)
Handled ==
    /\ handlers \cap (h.ready \union DOMAIN h.outbound \union Asked(h)) = {}
    /\ \A s \in h.ready \union (handlers \cap h.active) :
         s \in DOMAIN h.inbound /\ h.inbound[s].whole
    /\ \A s \in handlers \union h.ready : s <= last
    /\ phase = "up" => handlers \ h.active \subseteq IF batch THEN cancelled ELSE {}
    /\ phase = "up" => h.active \subseteq handlers \union DOMAIN h.inbound
                                            \union DOMAIN h.outbound \union Asked(h)

Exact == phase = "up" => Lost(h) = 0 /\ h.pending + control <= MaxOutput

IInv == Typed /\ Good(h) /\ Exact /\ Wired /\ Handled

(* What the flow of the streams needs of drop_stream and _release_inbound. *)
LEMMA DropFacts ==
    ASSUME NEW p, Good(p), NEW S, NEW q, q = Drop(p, S)
    PROVE  /\ Good(q) /\ Lost(q) = Lost(p) /\ q.pending <= p.pending
           /\ q.active = p.active \ S /\ q.ready = p.ready \ S
           /\ DOMAIN q.inbound = DOMAIN p.inbound \ S
           /\ DOMAIN q.outbound = DOMAIN p.outbound \ S
           /\ \A t \in DOMAIN q.inbound : q.inbound[t] = p.inbound[t]
           /\ Asked(q) \subseteq Asked(p) /\ Asked(p) \ S \subseteq Asked(q)
<1>1. /\ Good(q) /\ Lost(q) = Lost(p) /\ q.pending <= p.pending
      /\ q.inbound = Without(p.inbound, S) /\ q.outbound = Without(p.outbound, S)
      /\ q.active = p.active \ S /\ q.ready = p.ready \ S
      /\ Range(q.commands) = {c \in Range(p.commands) : ~Answers(c, S)}
  BY DropKeeps
<1>2. Asked(q) \subseteq Asked(p) /\ Asked(p) \ S \subseteq Asked(q)
  BY <1>1 DEF Asked, Answers
<1>3. /\ DOMAIN q.inbound = DOMAIN p.inbound \ S
      /\ DOMAIN q.outbound = DOMAIN p.outbound \ S
      /\ \A t \in DOMAIN q.inbound : q.inbound[t] = p.inbound[t]
  BY <1>1 DEF Without
<1> QED
  BY <1>1, <1>2, <1>3

-----------------------------------------------------------------------------
(* The steps. *)

LEMMA CaptureFits ==
    ASSUME control \in Nat, Good(h'), Capture
    PROVE  control' \in Nat /\ h'.pending + control' <= MaxOutput
<1>1. PICK n \in {0, 1} : Fits(n, control, h'.pending) /\ control' = control + n
  BY DEF Capture
<1>2. h'.pending \in Nat
  BY DEF Good, Budgets
<1> QED
  BY <1>1, <1>2 DEF Fits

LEMMA ResetsKeep ==
    ASSUME IInv, Reading, Capture, last' = last, NEW s \in Stream, Reset(s),
           cancelled' \in {cancelled, cancelled \union {s}},
           s \in handlers => s \in cancelled'
    PROVE  IInv'
<1>1. /\ Good(h') /\ Lost(h') = Lost(h) /\ h'.pending <= h.pending
      /\ h'.active = h.active \ {s} /\ h'.ready = h.ready \ {s}
      /\ DOMAIN h'.inbound = DOMAIN h.inbound \ {s}
      /\ DOMAIN h'.outbound = DOMAIN h.outbound \ {s}
      /\ \A t \in DOMAIN h'.inbound : h'.inbound[t] = h.inbound[t]
      /\ Asked(h') \subseteq Asked(h) /\ Asked(h) \ {s} \subseteq Asked(h')
  <2>1. Good(h) /\ h' = Drop(h, {s})
    BY DEF IInv, Reset
  <2> QED
    BY <2>1, DropFacts
<1>2. /\ wire' = [wire EXCEPT ![s] = "closed"] /\ phase = "up" /\ phase' = "up" /\ batch' = TRUE
      /\ handlers' = handlers
  BY DEF Reset, Reading
<1>3. Typed'
  <2>1. control' \in Nat
    BY <1>1, CaptureFits DEF IInv, Typed
  <2> QED
    BY <1>2, <2>1 DEF IInv, Typed
<1>4. Exact'
  <2>1. h'.pending + control' <= MaxOutput /\ Lost(h') = 0
    BY <1>1, <1>2, CaptureFits DEF IInv, Typed, Exact
  <2> QED
    BY <2>1 DEF Exact
<1>w. /\ wire'[s] = "closed" /\ \A t \in Stream : t # s => wire'[t] = wire[t]
      /\ h.active \subseteq Stream
  BY <1>2 DEF IInv, Typed, Good, Tables, Slots
<1>5. Wired'
  <2>1. \A t \in h'.active : wire'[t] \in {"open", "ended"}
    BY <1>1, <1>w DEF IInv, Wired
  <2>2. \A t \in handlers' \union h'.ready \union DOMAIN h'.outbound \union Asked(h') :
          wire'[t] \in {"ended", "closed"}
    BY <1>1, <1>2 DEF IInv, Wired, Typed
  <2>3. \A t \in Stream : wire'[t] = "open" => t \in DOMAIN h'.inbound
    BY <1>1, <1>2, <1>w DEF IInv, Wired
  <2> QED
    BY <1>2, <2>1, <2>2, <2>3 DEF Wired
<1>6. Handled'
  <2>1. handlers' \cap (h'.ready \union DOMAIN h'.outbound \union Asked(h')) = {}
    BY <1>1, <1>2 DEF IInv, Handled
  <2>2. \A t \in h'.ready \union (handlers' \cap h'.active) :
          t \in DOMAIN h'.inbound /\ h'.inbound[t].whole
    BY <1>1, <1>2 DEF IInv, Handled
  <2>3. \A t \in handlers' \union h'.ready : t <= last'
    BY <1>1, <1>2 DEF IInv, Handled
  <2>4. handlers' \ h'.active \subseteq cancelled'
    BY <1>1, <1>2 DEF IInv, Handled
  <2>5. h'.active \subseteq handlers' \union DOMAIN h'.inbound
                              \union DOMAIN h'.outbound \union Asked(h')
    BY <1>1, <1>2 DEF IInv, Handled
  <2> QED
    BY <1>2, <2>1, <2>2, <2>3, <2>4, <2>5 DEF Handled
<1> QED
  BY <1>1, <1>3, <1>4, <1>5, <1>6 DEF IInv

LEMMA RequestReceivedKeeps ==
    ASSUME IInv, NEW s \in Stream, RequestReceived(s)
    PROVE  IInv'
<1>1. Reading /\ Capture /\ last' = last /\ cancelled' = cancelled /\ wire[s] = "idle"
  BY DEF RequestReceived
<1>2. s \notin handlers /\ s \notin h.active /\ s \notin Asked(h)
  BY <1>1 DEF IInv, Wired
<1>3. CASE Reset(s)
  BY <1>1, <1>2, <1>3, ResetsKeep
<1>4. ASSUME NEW want \in {Unknown} \union 0..MaxBody, MayOpen(h),
             h' = Opened(h, s, want), wire' = [wire EXCEPT ![s] = "open"]
      PROVE  IInv'
  <2>1. /\ Good(h') /\ Lost(h') = Lost(h) /\ h'.pending = h.pending
        /\ h'.active = h.active \union {s} /\ h'.outbound = h.outbound
        /\ h'.commands = h.commands /\ h'.ready = h.ready
        /\ DOMAIN h'.inbound = DOMAIN h.inbound \union {s}
        /\ \A t \in DOMAIN h.inbound : h'.inbound[t] = h.inbound[t]
    <3>1. Good(h)
      BY DEF IInv
    <3> QED
      BY <1>2, <1>4, <3>1, OpeningKeeps
  <2>2. Asked(h') = Asked(h)
    BY <2>1 DEF Asked
  <2>3. phase = "up" /\ phase' = "up" /\ batch' = TRUE /\ handlers' = handlers
    BY <1>1 DEF Reading
  <2>4. Typed'
    <3>1. control' \in Nat
      BY <1>1, <2>1, CaptureFits DEF IInv, Typed
    <3> QED
      BY <1>1, <1>4, <2>3, <3>1 DEF IInv, Typed
  <2>5. Exact'
    <3>1. h'.pending + control' <= MaxOutput /\ Lost(h') = 0
      BY <1>1, <2>1, <2>3, CaptureFits DEF IInv, Typed, Exact
    <3> QED
      BY <3>1 DEF Exact
  <2>6. wire'[s] = "open" /\ \A t \in Stream : t # s => wire'[t] = wire[t]
    BY <1>4 DEF IInv, Typed
  <2>7. Wired'
    <3>1. \A t \in h'.active : wire'[t] \in {"open", "ended"}
      BY <2>1, <2>6 DEF IInv, Wired, Good, Tables, Slots
    <3>2. \A t \in handlers' \union h'.ready \union DOMAIN h'.outbound \union Asked(h') :
            wire'[t] \in {"ended", "closed"}
      BY <1>1, <1>4, <2>1, <2>2, <2>3 DEF IInv, Wired, Typed
    <3>3. \A t \in Stream : wire'[t] = "open" => t \in DOMAIN h'.inbound
      BY <2>1, <2>3, <2>6 DEF IInv, Wired
    <3> QED
      BY <2>3, <3>1, <3>2, <3>3 DEF Wired
  <2>8. Handled'
    <3>1. handlers' \cap (h'.ready \union DOMAIN h'.outbound \union Asked(h')) = {}
      BY <2>1, <2>2, <2>3 DEF IInv, Handled
    <3>2. \A t \in h'.ready \union (handlers' \cap h'.active) :
            t \in DOMAIN h'.inbound /\ h'.inbound[t].whole
      BY <1>2, <2>1, <2>3 DEF IInv, Handled
    <3>3. \A t \in handlers' \union h'.ready : t <= last'
      BY <1>1, <2>1, <2>3 DEF IInv, Handled
    <3>4. handlers' \ h'.active \subseteq cancelled'
      BY <1>1, <2>1, <2>3 DEF IInv, Handled
    <3>5. h'.active \subseteq handlers' \union DOMAIN h'.inbound
                                \union DOMAIN h'.outbound \union Asked(h')
      BY <2>1, <2>2, <2>3 DEF IInv, Handled
    <3> QED
      BY <2>3, <3>1, <3>2, <3>3, <3>4, <3>5 DEF Handled
  <2> QED
    BY <2>1, <2>4, <2>5, <2>7, <2>8 DEF IInv
<1> QED
  BY <1>3, <1>4 DEF RequestReceived, Opened

LEMMA DataReceivedKeeps ==
    ASSUME IInv, NEW s \in Stream, DataReceived(s)
    PROVE  IInv'
<1>1. Reading /\ Capture /\ last' = last /\ cancelled' = cancelled /\ wire[s] = "open"
  BY DEF DataReceived
<1>2. s \notin handlers /\ s \in DOMAIN h.inbound
  BY <1>1 DEF IInv, Wired, Reading
<1>3. CASE Reset(s)
  BY <1>1, <1>2, <1>3, ResetsKeep
<1>4. ASSUME NEW n \in Nat, ~OverBudget(h, s, n), h' = Grown(h, s, n), wire' = wire
      PROVE  IInv'
  <2>1. /\ Good(h') /\ Lost(h') = Lost(h) /\ h'.pending = h.pending
        /\ h'.active = h.active /\ h'.outbound = h.outbound
        /\ h'.commands = h.commands /\ h'.ready = h.ready
        /\ DOMAIN h'.inbound = DOMAIN h.inbound
        /\ \A t \in DOMAIN h.inbound : h'.inbound[t].whole = h.inbound[t].whole
    <3>1. Good(h)
      BY DEF IInv
    <3> QED
      BY <1>2, <1>4, <3>1, GrowingKeeps
  <2>2. Asked(h') = Asked(h)
    BY <2>1 DEF Asked
  <2>3. phase = "up" /\ phase' = "up" /\ batch' = TRUE /\ handlers' = handlers
    BY <1>1 DEF Reading
  <2>4. Typed'
    <3>1. control' \in Nat
      BY <1>1, <2>1, CaptureFits DEF IInv, Typed
    <3> QED
      BY <1>1, <1>4, <2>3, <3>1 DEF IInv, Typed
  <2>5. Exact'
    <3>1. h'.pending + control' <= MaxOutput /\ Lost(h') = 0
      BY <1>1, <2>1, <2>3, CaptureFits DEF IInv, Typed, Exact
    <3> QED
      BY <3>1 DEF Exact
  <2>7. Wired'
    BY <1>4, <2>1, <2>2, <2>3 DEF IInv, Wired
  <2>8. Handled'
    <3>2. \A t \in h'.ready \union (handlers' \cap h'.active) :
            t \in DOMAIN h'.inbound /\ h'.inbound[t].whole
      BY <2>1, <2>3 DEF IInv, Handled
    <3>4. handlers' \ h'.active \subseteq cancelled'
      BY <1>1, <2>1, <2>3 DEF IInv, Handled
    <3> QED
      BY <1>1, <2>1, <2>2, <2>3, <3>2, <3>4 DEF IInv, Handled
  <2> QED
    BY <2>1, <2>4, <2>5, <2>7, <2>8 DEF IInv
<1>5. PICK n \in 1..MaxBody :
        IF OverBudget(h, s, n) THEN Reset(s)
        ELSE /\ h' = [h EXCEPT !.inbound[s].len = @ + n, !.buffered = @ + n]
             /\ UNCHANGED wire
  BY DEF DataReceived
<1>6. n \in Nat
  BY StreamsAssumption DEF StreamsAssumption
<1> QED
  BY <1>3, <1>4, <1>5, <1>6 DEF Grown

LEMMA StreamEndedKeeps ==
    ASSUME IInv, NEW s \in Stream, StreamEnded(s)
    PROVE  IInv'
<1>1. Reading /\ Capture /\ cancelled' = cancelled /\ wire[s] = "open"
  BY DEF StreamEnded
<1>2. s \notin handlers /\ s \in DOMAIN h.inbound
  BY <1>1 DEF IInv, Wired, Reading
<1>3. CASE Reset(s) /\ last' = last
  BY <1>1, <1>2, <1>3, ResetsKeep
<1>4. ASSUME h' = Ended(h, s), wire' = [wire EXCEPT ![s] = "ended"],
             last' = IF s > last THEN s ELSE last
      PROVE  IInv'
  <2>1. /\ Good(h') /\ Lost(h') = Lost(h) /\ h'.pending = h.pending
        /\ h'.active = h.active /\ h'.outbound = h.outbound
        /\ h'.commands = h.commands /\ h'.ready = h.ready \union {s}
        /\ DOMAIN h'.inbound = DOMAIN h.inbound /\ h'.inbound[s].whole
        /\ \A t \in DOMAIN h.inbound : h.inbound[t].whole => h'.inbound[t].whole
    <3>1. Good(h)
      BY DEF IInv
    <3> QED
      BY <1>2, <1>4, <3>1, EndingKeeps
  <2>2. Asked(h') = Asked(h)
    BY <2>1 DEF Asked
  <2>3. phase = "up" /\ phase' = "up" /\ batch' = TRUE /\ handlers' = handlers
    BY <1>1 DEF Reading
  <2>t. last \in Nat /\ s \in Nat /\ handlers \subseteq Nat /\ h.ready \subseteq Nat
    BY DEF IInv, Typed, Good, Tables, Slots, Stream
  <2>4. Typed'
    <3>1. control' \in Nat
      BY <1>1, <2>1, CaptureFits DEF IInv, Typed
    <3> QED
      BY <1>1, <1>4, <2>3, <2>t, <3>1 DEF IInv, Typed
  <2>5. Exact'
    <3>1. h'.pending + control' <= MaxOutput /\ Lost(h') = 0
      BY <1>1, <2>1, <2>3, CaptureFits DEF IInv, Typed, Exact
    <3> QED
      BY <3>1 DEF Exact
  <2>6. wire'[s] = "ended" /\ \A t \in Stream : t # s => wire'[t] = wire[t]
    BY <1>4 DEF IInv, Typed
  <2>7. Wired'
    <3>1. \A t \in h'.active : wire'[t] \in {"open", "ended"}
      BY <2>1, <2>6 DEF IInv, Wired, Good, Tables, Slots
    <3>2. \A t \in handlers' \union h'.ready \union DOMAIN h'.outbound \union Asked(h') :
            wire'[t] \in {"ended", "closed"}
      BY <1>4, <2>1, <2>2, <2>3 DEF IInv, Wired, Typed
    <3>3. \A t \in Stream : wire'[t] = "open" => t \in DOMAIN h'.inbound
      BY <2>1, <2>3, <2>6 DEF IInv, Wired
    <3> QED
      BY <2>3, <3>1, <3>2, <3>3 DEF Wired
  <2>8. Handled'
    <3>1. handlers' \cap (h'.ready \union DOMAIN h'.outbound \union Asked(h')) = {}
      BY <1>2, <2>1, <2>2, <2>3 DEF IInv, Handled
    <3>2. \A t \in h'.ready \union (handlers' \cap h'.active) :
            t \in DOMAIN h'.inbound /\ h'.inbound[t].whole
      BY <1>2, <2>1, <2>3 DEF IInv, Handled
    <3>3. \A t \in handlers' \union h'.ready : t <= last'
      BY <1>4, <2>1, <2>3, <2>t DEF IInv, Handled
    <3>4. handlers' \ h'.active \subseteq cancelled'
      BY <1>1, <2>1, <2>3 DEF IInv, Handled
    <3>5. h'.active \subseteq handlers' \union DOMAIN h'.inbound
                                \union DOMAIN h'.outbound \union Asked(h')
      BY <2>1, <2>2, <2>3 DEF IInv, Handled
    <3> QED
      BY <2>3, <3>1, <3>2, <3>3, <3>4, <3>5 DEF Handled
  <2> QED
    BY <2>1, <2>4, <2>5, <2>7, <2>8 DEF IInv
<1> QED
  BY <1>3, <1>4 DEF StreamEnded, Ended

LEMMA StreamResetKeeps ==
    ASSUME IInv, NEW s \in Stream, StreamReset(s)
    PROVE  IInv'
<1>1. /\ Reading /\ Capture /\ last' = last /\ Reset(s)
      /\ \/ cancelled' = cancelled \union {s}
         \/ wire[s] = "open" /\ cancelled' = cancelled
  BY DEF StreamReset
<1>2. s \in handlers => s \in cancelled'
  BY <1>1 DEF IInv, Wired
<1> QED
  BY <1>1, <1>2, ResetsKeep

(* Steps that leave the tables alone.                                      *)
LEMMA OtherEventKeeps ==
    ASSUME IInv, OtherEvent
    PROVE  IInv'
<1>1. /\ Reading /\ Capture /\ h' = h /\ cancelled' = cancelled /\ last' = last
      /\ wire' = wire
  BY DEF OtherEvent
<1>2. phase = "up" /\ phase' = "up" /\ batch' = TRUE /\ handlers' = handlers
  BY <1>1 DEF Reading
<1>3. Good(h')
  BY <1>1 DEF IInv
<1>4. control' \in Nat /\ h'.pending + control' <= MaxOutput
  BY <1>1, <1>3, CaptureFits DEF IInv, Typed
<1>5. Typed' /\ Exact' /\ Wired'
  BY <1>1, <1>2, <1>4 DEF IInv, Typed, Exact, Wired
<1>6. Handled'
  BY <1>1, <1>2 DEF IInv, Handled
<1> QED
  BY <1>3, <1>5, <1>6 DEF IInv

LEMMA ReceiveFailsKeeps ==
    ASSUME IInv, ReceiveFails
    PROVE  IInv'
<1>1. /\ phase' = "failed" /\ batch' = FALSE /\ h' = h /\ control' = control
      /\ cancelled' = cancelled /\ last' = last /\ handlers' = handlers /\ wire' = wire
  BY DEF ReceiveFails
<1>2. Good(h') /\ Typed' /\ Exact' /\ Wired' /\ Handled'
  BY <1>1 DEF IInv, Typed, Exact, Wired, Handled
<1> QED
  BY <1>2 DEF IInv

(* A batch that ends: the handlers of reset streams go, D may be handed out. *)
LEMMA BatchKeeps ==
    ASSUME IInv, batch, batch' = FALSE, cancelled' = {}, NEW D, D \subseteq Dispatch(h, cancelled),
           handlers' = (handlers \ CancelledHandlers) \union D,
           NEW q, q = Drop(h, CancelledHandlers), Good(h'), Lost(h') = Lost(q),
           h'.pending = q.pending, h'.active = q.active, h'.outbound = q.outbound,
           h'.commands = q.commands, h'.inbound = q.inbound,
           h'.ready \subseteq q.ready, h'.ready \cap D = {},
           UNCHANGED <<control, last, wire, phase>>
    PROVE  IInv'
<1> DEFINE C == CancelledHandlers
<1>c. C = handlers \cap cancelled
  BY DEF CancelledHandlers
<1> HIDE DEF C
<1>1. /\ Good(q) /\ Lost(q) = Lost(h) /\ q.pending <= h.pending
      /\ q.active = h.active \ C /\ q.ready = h.ready \ C
      /\ DOMAIN q.inbound = DOMAIN h.inbound \ C
      /\ DOMAIN q.outbound = DOMAIN h.outbound \ C
      /\ \A t \in DOMAIN q.inbound : q.inbound[t] = h.inbound[t]
      /\ Asked(q) \subseteq Asked(h) /\ Asked(h) \ C \subseteq Asked(q)
  <2>1. Good(h) /\ q = Drop(h, C)
    BY DEF IInv, C
  <2> HIDE DEF CancelledHandlers
  <2> QED
    BY <2>1, DropFacts
<1>2. Asked(h') = Asked(q)
  BY DEF Asked
<1>3. phase = "up" /\ phase' = "up" /\ wire' = wire /\ last' = last /\ control' = control
  BY DEF IInv, Wired
<1>4. D \subseteq h.ready /\ D \cap cancelled = {} /\ D \subseteq h.active /\ D \cap handlers = {}
  BY DEF Dispatch, IInv, Handled
<1>5. handlers' = (handlers \ C) \union D
  BY DEF C
<1>6. Typed'
  BY <1>3, <1>4, <1>5 DEF IInv, Typed, Good, Tables, Slots
<1>7. Exact'
  <2>1. h.pending \in Nat /\ q.pending \in Nat /\ control \in Nat /\ MaxOutput \in Nat
    BY <1>1, StreamsAssumption DEF IInv, Typed, Good, Budgets, StreamsAssumption
  <2>2. h.pending + control <= MaxOutput /\ Lost(h) = 0
    BY <1>3 DEF IInv, Exact
  <2>3. h'.pending + control' <= MaxOutput /\ Lost(h') = 0
    BY <1>1, <1>3, <2>1, <2>2
  <2> QED
    BY <2>3 DEF Exact
<1>8. Wired'
  <2>1. \A t \in h'.active : wire'[t] \in {"open", "ended"}
    BY <1>1, <1>3 DEF IInv, Wired
  <2>2. \A t \in handlers' \union h'.ready \union DOMAIN h'.outbound \union Asked(h') :
          wire'[t] \in {"ended", "closed"}
    BY <1>1, <1>2, <1>3, <1>4, <1>5 DEF IInv, Wired
  <2>3. \A t \in C : wire[t] # "open"
    BY <1>c DEF IInv, Wired
  <2>4. \A t \in Stream : wire'[t] = "open" => t \in DOMAIN h'.inbound
    BY <1>1, <1>3, <2>3 DEF IInv, Wired
  <2> QED
    BY <1>3, <2>1, <2>2, <2>4 DEF Wired
<1>9. Handled'
  <2>1. handlers' \cap (h'.ready \union DOMAIN h'.outbound \union Asked(h')) = {}
    <3>1. D \cap (DOMAIN h.outbound \union Asked(h)) = {}
      BY <1>4 DEF IInv, Good, Tables, Asked
    <3> QED
      BY <1>1, <1>2, <1>5, <3>1 DEF IInv, Handled
  <2>2. \A t \in h'.ready \union (handlers' \cap h'.active) :
          t \in DOMAIN h'.inbound /\ h'.inbound[t].whole
    <3>1. \A t \in h.ready \union (handlers \cap h.active) :
            t \in DOMAIN h.inbound /\ h.inbound[t].whole
      BY DEF IInv, Handled
    <3>2. (h'.ready \union (handlers' \cap h'.active)) \cap C = {}
      BY <1>1
    <3>3. h'.ready \union (handlers' \cap h'.active) \subseteq h.ready \union (handlers \cap h.active)
      BY <1>1, <1>4, <1>5
    <3> QED
      BY <1>1, <3>1, <3>2, <3>3
  <2>3. \A t \in handlers' \union h'.ready : t <= last'
    BY <1>1, <1>3, <1>4, <1>5 DEF IInv, Handled
  <2>4. handlers' \ h'.active = {}
    BY <1>1, <1>3, <1>4, <1>5, <1>c DEF IInv, Handled
  <2>5. h'.active \subseteq handlers' \union DOMAIN h'.inbound
                              \union DOMAIN h'.outbound \union Asked(h')
    BY <1>1, <1>2, <1>3, <1>5 DEF IInv, Handled
  <2> QED
    BY <2>1, <2>2, <2>3, <2>4, <2>5 DEF Handled
<1> QED
  BY <1>6, <1>7, <1>8, <1>9 DEF IInv

LEMMA BatchPausesKeeps ==
    ASSUME IInv, BatchPauses
    PROVE  IInv'
<1> DEFINE q == Drop(h, CancelledHandlers)
<1>1. /\ batch /\ batch' = FALSE /\ cancelled' = {} /\ h' = q
      /\ handlers' = (handlers \ CancelledHandlers) \union {}
      /\ UNCHANGED <<control, last, wire, phase>>
  BY DEF BatchPauses
<1>2. Good(q)
  BY DropKeeps DEF IInv
<1>3. {} \subseteq Dispatch(h, cancelled) /\ h'.ready \cap {} = {}
  OBVIOUS
<1>q. q = Drop(h, CancelledHandlers)
  OBVIOUS
<1> HIDE DEF q
<1> DEFINE D == {}
<1>4. /\ handlers' = (handlers \ CancelledHandlers) \union D
      /\ D \subseteq Dispatch(h, cancelled) /\ h'.ready \cap D = {}
  BY <1>1
<1>5. /\ Good(h') /\ Lost(h') = Lost(q) /\ h'.pending = q.pending /\ h'.active = q.active
      /\ h'.outbound = q.outbound /\ h'.commands = q.commands /\ h'.inbound = q.inbound
      /\ h'.ready \subseteq q.ready
  BY <1>1, <1>2
<1> HIDE DEF D
<1> QED
  BY <1>1, <1>q, <1>4, <1>5, BatchKeeps

LEMMA BatchEndsKeeps ==
    ASSUME IInv, BatchEnds
    PROVE  IInv'
<1> DEFINE q == Drop(h, CancelledHandlers)
           D == Dispatch(h, cancelled)
<1>1. /\ batch /\ batch' = FALSE /\ cancelled' = {} /\ h' = [q EXCEPT !.ready = {}]
      /\ handlers' = (handlers \ CancelledHandlers) \union D
      /\ UNCHANGED <<control, last, wire, phase>>
  BY DEF BatchEnds
<1>2. Good(q)
  BY DropKeeps DEF IInv
<1>q. q = Drop(h, CancelledHandlers) /\ D \subseteq Dispatch(h, cancelled)
  OBVIOUS
<1> HIDE DEF q, D
<1>3. /\ Good(h') /\ Lost(h') = Lost(q) /\ h'.pending = q.pending /\ h'.active = q.active
      /\ h'.outbound = q.outbound /\ h'.commands = q.commands /\ h'.ready = {}
      /\ h'.inbound = q.inbound
  BY <1>1, <1>2, HandingOutKeeps DEF HandedOut
<1>4. h'.ready \subseteq q.ready /\ h'.ready \cap D = {}
  BY <1>3
<1> QED
  BY <1>1, <1>3, <1>4, <1>q, BatchKeeps

(* A handler gives up its stream: it dies, or finds no room for its answer.*)
LEMMA HandlerDropKeeps ==
    ASSUME IInv, ~batch, NEW s \in handlers, handlers' = handlers \ {s},
           NEW p, Good(p), Lost(p) = Lost(h), p.pending = h.pending, p.active = h.active,
           p.ready = h.ready, p.outbound = h.outbound, p.commands = h.commands,
           DOMAIN p.inbound \ {s} = DOMAIN h.inbound \ {s},
           \A t \in DOMAIN p.inbound \ {s} : p.inbound[t] = h.inbound[t],
           h' = Drop(p, {s}),
           wire' = wire \/ wire' = [wire EXCEPT ![s] = "closed"],
           UNCHANGED <<control, cancelled, last, batch, phase>>
    PROVE  IInv'
<1>1. /\ Good(h') /\ Lost(h') = Lost(h) /\ h'.pending <= h.pending
      /\ h'.active = h.active \ {s} /\ h'.ready = h.ready \ {s}
      /\ DOMAIN h'.inbound = DOMAIN h.inbound \ {s}
      /\ DOMAIN h'.outbound = DOMAIN h.outbound \ {s}
      /\ \A t \in DOMAIN h'.inbound : h'.inbound[t] = h.inbound[t]
      /\ Asked(h') \subseteq Asked(h) /\ Asked(h) \ {s} \subseteq Asked(h')
  <2>1. /\ Good(h') /\ Lost(h') = Lost(p) /\ h'.pending <= p.pending
        /\ h'.active = p.active \ {s} /\ h'.ready = p.ready \ {s}
        /\ DOMAIN h'.inbound = DOMAIN p.inbound \ {s}
        /\ DOMAIN h'.outbound = DOMAIN p.outbound \ {s}
        /\ \A t \in DOMAIN h'.inbound : h'.inbound[t] = p.inbound[t]
        /\ Asked(h') \subseteq Asked(p) /\ Asked(p) \ {s} \subseteq Asked(h')
    BY DropFacts
  <2>2. Asked(p) = Asked(h)
    BY DEF Asked
  <2> QED
    BY <2>1, <2>2
<1>2. /\ s \in Stream /\ wire[s] # "open" /\ batch = FALSE /\ batch' = FALSE
      /\ \A t \in Stream : t # s => wire'[t] = wire[t]
      /\ wire'[s] = wire[s] \/ wire'[s] = "closed"
  BY DEF IInv, Wired, Typed
<1>3. Typed'
  BY <1>2 DEF IInv, Typed
<1>4. Exact'
  <2>1. /\ h.pending \in Nat /\ h'.pending \in Nat /\ control \in Nat /\ MaxOutput \in Nat
    BY <1>1, StreamsAssumption DEF IInv, Typed, Good, Budgets, StreamsAssumption
  <2>2. phase = "up" => h'.pending + control' <= MaxOutput /\ Lost(h') = 0
    BY <1>1, <2>1 DEF IInv, Exact
  <2> QED
    BY <2>2 DEF Exact
<1>5. Wired'
  <2>1. \A t \in h'.active : wire'[t] \in {"open", "ended"}
    BY <1>1, <1>2 DEF IInv, Wired, Good, Tables, Slots
  <2>2. \A t \in handlers' \union h'.ready \union DOMAIN h'.outbound \union Asked(h') :
          wire'[t] \in {"ended", "closed"}
    <3>1. handlers \union h.ready \union DOMAIN h.outbound \union Asked(h) \subseteq Stream
      <4>1. handlers \subseteq Stream /\ Good(h)
        BY DEF IInv, Typed
      <4> QED
        BY <4>1, FlowsInStream
    <3>2. \A t \in handlers \union h.ready \union DOMAIN h.outbound \union Asked(h) :
            wire[t] \in {"ended", "closed"}
      BY DEF IInv, Wired
    <3>3. handlers' \union h'.ready \union DOMAIN h'.outbound \union Asked(h')
            \subseteq handlers \union h.ready \union DOMAIN h.outbound \union Asked(h)
      BY <1>1
    <3> QED
      BY <1>2, <3>1, <3>2, <3>3
  <2>3. phase = "up" => \A t \in Stream : wire'[t] = "open" => t \in DOMAIN h'.inbound
    BY <1>1, <1>2 DEF IInv, Wired
  <2> QED
    BY <1>2, <2>1, <2>2, <2>3 DEF Wired
<1>6. Handled'
  <2>1. handlers' \cap (h'.ready \union DOMAIN h'.outbound \union Asked(h')) = {}
    BY <1>1 DEF IInv, Handled
  <2>2. \A t \in h'.ready \union (handlers' \cap h'.active) :
          t \in DOMAIN h'.inbound /\ h'.inbound[t].whole
    BY <1>1 DEF IInv, Handled
  <2>3. \A t \in handlers' \union h'.ready : t <= last'
    BY <1>1 DEF IInv, Handled
  <2>4. phase = "up" => handlers' \ h'.active = {}
    BY <1>1, <1>2 DEF IInv, Handled
  <2>5. phase = "up" => h'.active \subseteq handlers' \union DOMAIN h'.inbound
                                       \union DOMAIN h'.outbound \union Asked(h')
    BY <1>1 DEF IInv, Handled
  <2> QED
    BY <2>1, <2>2, <2>3, <2>4, <2>5 DEF Handled
<1> QED
  BY <1>1, <1>3, <1>4, <1>5, <1>6 DEF IInv

(* A handler's answer, or its reset, waits for the writer.                 *)
LEMMA AnswerKeeps ==
    ASSUME IInv, ~batch, NEW s \in handlers, s \in h.active, handlers' = handlers \ {s},
           NEW c \in Command, c.s = s, NEW n \in Nat,
           n = IF c.op = "response" THEN c.len ELSE 0,
           c.op = "response" => c.len <= MaxResponse,
           phase = "up" => control + h.pending + n <= MaxOutput,
           NEW r, r = ReleaseInbound(h, {s}), IsTables(h'), h'.inbound = r.inbound,
           h'.outbound = r.outbound, h'.active = r.active, h'.ready = r.ready,
           h'.buffered = r.buffered, h'.commands = Append(r.commands, c),
           h'.pending = r.pending + n,
           UNCHANGED <<control, cancelled, last, wire, batch, phase>>
    PROVE  IInv'
<1>0. /\ Good(h) /\ s \notin h.ready /\ s \notin DOMAIN h.outbound /\ s \notin Asked(h)
      /\ s \in Stream
  BY DEF IInv, Handled, Typed
<1>1. /\ Good(r) /\ Lost(r) = Lost(h) /\ r.pending = h.pending
      /\ r.inbound = Without(h.inbound, {s}) /\ r.outbound = h.outbound
      /\ r.active = h.active /\ r.ready = h.ready /\ r.commands = h.commands
  <2>1. h.ready \cap {s} = {}
    BY <1>0
  <2> QED
    BY <1>0, <2>1, ReleaseKeeps
<1>2. /\ DOMAIN r.inbound = DOMAIN h.inbound \ {s}
      /\ \A t \in DOMAIN r.inbound : r.inbound[t] = h.inbound[t]
  BY <1>1 DEF Without
<1>3. h'.active = r.active /\ h'.ready = r.ready
  OBVIOUS
<1>4. /\ h'.active = h.active /\ h'.ready = h.ready /\ h'.outbound = h.outbound
      /\ h'.inbound = r.inbound /\ h'.pending = h.pending + n
  BY <1>1
<1>5. Good(h') /\ Lost(h') = Lost(r) /\ Range(h'.commands) = Range(r.commands) \union {c}
  <2>1. c.s \notin DOMAIN r.inbound /\ c.s \notin DOMAIN r.outbound
    BY <1>0, <1>1, <1>2
  <2>2. \A d \in Range(r.commands) : d.s # c.s
    BY <1>0, <1>1 DEF Asked
  <2>3. c.op = "response" => c.s \in r.active /\ c.len <= MaxResponse
    BY <1>1
  <2>4. h'.pending = r.pending + IF c.op = "response" THEN c.len ELSE 0
    OBVIOUS
  <2> QED
    BY <1>1, <2>1, <2>2, <2>3, <2>4, QueueKeeps, ZenonT(60)
<1>6. Asked(h') = Asked(h) \union {s}
  BY <1>1, <1>5 DEF Asked
<1>7. Typed'
  BY DEF IInv, Typed
<1>8. Exact'
  <2>1. h.pending \in Nat /\ control \in Nat /\ MaxOutput \in Nat
    BY StreamsAssumption DEF IInv, Typed, Good, Budgets, StreamsAssumption
  <2>2. phase' = "up" => h'.pending + control' <= MaxOutput
    BY <1>4, <2>1
  <2>3. phase = "up" => Lost(h') = 0
    BY <1>1, <1>5 DEF IInv, Exact
  <2> QED
    BY <2>2, <2>3 DEF Exact
<1>9. Wired'
  <2>1. phase = "up" => \A t \in Stream : wire'[t] = "open" => t \in DOMAIN h'.inbound
    BY <1>2, <1>4 DEF IInv, Wired
  <2>2. \A t \in handlers' \union h'.ready \union DOMAIN h'.outbound \union Asked(h') :
          wire'[t] \in {"ended", "closed"}
    BY <1>1, <1>4, <1>6 DEF IInv, Wired
  <2>3. \A t \in h'.active : wire'[t] \in {"open", "ended"}
    BY <1>4 DEF IInv, Wired
  <2>4. batch' => phase' = "up"
    BY DEF IInv, Wired
  <2> QED
    BY <2>1, <2>2, <2>3, <2>4 DEF Wired
<1>10. Handled'
  <2>1. handlers' \cap (h'.ready \union DOMAIN h'.outbound \union Asked(h')) = {}
    BY <1>1, <1>4, <1>6 DEF IInv, Handled
  <2>2. \A t \in h'.ready \union (handlers' \cap h'.active) :
          t \in DOMAIN h'.inbound /\ h'.inbound[t].whole
    <3>1. \A t \in h.ready \union (handlers \cap h.active) :
            t \in DOMAIN h.inbound /\ h.inbound[t].whole
      BY DEF IInv, Handled
    <3>2. /\ s \notin h'.ready \union (handlers' \cap h'.active)
          /\ h'.ready \union (handlers' \cap h'.active)
               \subseteq h.ready \union (handlers \cap h.active)
      BY <1>0, <1>4
    <3>3. ASSUME NEW t, t \in h'.ready \union (handlers' \cap h'.active)
          PROVE  t \in DOMAIN h'.inbound /\ h'.inbound[t].whole
      <4>1. t # s /\ t \in DOMAIN h.inbound /\ h.inbound[t].whole
        BY <3>1, <3>2, <3>3
      <4>2. t \in DOMAIN r.inbound /\ r.inbound[t] = h.inbound[t]
        BY <1>2, <4>1
      <4> QED
        BY <1>4, <4>1, <4>2
    <3> QED
      BY <3>3
  <2>3. \A t \in handlers' \union h'.ready : t <= last'
    BY <1>1, <1>4 DEF IInv, Handled
  <2>4. phase = "up" => handlers' \ h'.active = {}
    BY <1>1, <1>4 DEF IInv, Handled
  <2>5. phase = "up" => h'.active \subseteq handlers' \union DOMAIN h'.inbound
                                       \union DOMAIN h'.outbound \union Asked(h')
    BY <1>1, <1>2, <1>4, <1>6 DEF IInv, Handled
  <2> QED
    BY <2>1, <2>2, <2>3, <2>4, <2>5 DEF Handled
<1> QED
  BY <1>5, <1>7, <1>8, <1>9, <1>10 DEF IInv

(* queue_response adds a command at the end.                               *)
Queued(p, c, n) == [p EXCEPT !.commands = Append(@, c), !.pending = @ + n]
Marked(p, c) == [p EXCEPT !.commands = Append(@, c)]

LEMMA QueuedIs ==
    ASSUME NEW p, IsTables(p), p.pending \in Nat, NEW c, NEW n
    PROVE  /\ LET q == Queued(p, c, n) IN
              /\ IsTables(q) /\ q.inbound = p.inbound /\ q.outbound = p.outbound
              /\ q.active = p.active /\ q.ready = p.ready /\ q.buffered = p.buffered
              /\ q.commands = Append(p.commands, c) /\ q.pending = p.pending + n
           /\ LET q == Marked(p, c) IN
              /\ IsTables(q) /\ q.inbound = p.inbound /\ q.outbound = p.outbound
              /\ q.active = p.active /\ q.ready = p.ready /\ q.buffered = p.buffered
              /\ q.commands = Append(p.commands, c) /\ q.pending = p.pending + 0
<1> DEFINE com == Append(p.commands, c)
           w == p.pending + n
           r == [p EXCEPT !.commands = com]
           q == [r EXCEPT !.pending = w]
<1>1. p.pending = p.pending + 0
  OBVIOUS
<1>c. com = Append(p.commands, c) /\ w = p.pending + n
  OBVIOUS
<1> HIDE DEF com, w
<1>2. r = [inbound |-> p.inbound, active |-> p.active, outbound |-> p.outbound,
           commands |-> com, buffered |-> p.buffered, pending |-> p.pending,
           ready |-> p.ready]
  BY DEF IsTables
<1>3. q = [inbound |-> p.inbound, active |-> p.active, outbound |-> p.outbound,
           commands |-> com, buffered |-> p.buffered, pending |-> w,
           ready |-> p.ready]
  <2> HIDE DEF r
  <2> QED
    BY <1>2
<1>4. q = Queued(p, c, n) /\ r = Marked(p, c)
  BY DEF com, w, Queued, Marked
<1> HIDE DEF q, r
<1>5. /\ IsTables(q) /\ q.inbound = p.inbound /\ q.outbound = p.outbound
      /\ q.active = p.active /\ q.ready = p.ready /\ q.buffered = p.buffered
      /\ q.commands = com /\ q.pending = w
  BY <1>3, FieldsAre
<1>6. /\ IsTables(r) /\ r.inbound = p.inbound /\ r.outbound = p.outbound
      /\ r.active = p.active /\ r.ready = p.ready /\ r.buffered = p.buffered
      /\ r.commands = com /\ r.pending = p.pending
  BY <1>2, FieldsAre
<1> QED
  BY <1>1, <1>c, <1>4, <1>5, <1>6

LEMMA RespondKeeps ==
    ASSUME IInv, NEW s \in Stream, Respond(s)
    PROVE  IInv'
<1>1. /\ ~batch /\ s \in handlers /\ handlers' = handlers \ {s}
      /\ UNCHANGED <<control, cancelled, last, batch, phase>>
  BY DEF Respond
<1> DEFINE q == ReleaseInbound(h, {s})
           C(op, n) == [op |-> op, s |-> s, len |-> n]
<1>2. PICK n \in 0..(MaxResponse + 1) :
         IF s \notin h.active
         THEN UNCHANGED <<h, wire>>
         ELSE IF Over(q, n)
         THEN /\ h' = [q EXCEPT !.commands =
                          IF \E c \in Range(q.commands) : c.s = s THEN @
                          ELSE Append(q.commands, C("reset", n))]
              /\ UNCHANGED wire
         ELSE IF Len(q.commands) >= 2 * MaxStreams
         THEN /\ h' = Drop(q, {s})
              /\ wire' = [wire EXCEPT ![s] = "closed"]
         ELSE /\ h' = [q EXCEPT !.commands = Append(q.commands, C("response", n)),
                                !.pending = @ + n]
              /\ UNCHANGED wire
  BY DEF Respond
<1>3. C("reset", n) \in Command /\ C("response", n) \in Command
  BY DEF Command
<1>4. /\ Good(h) /\ s \notin h.ready /\ s \notin Asked(h)
  BY <1>1 DEF IInv, Handled
<1>5. /\ Good(q) /\ Lost(q) = Lost(h) /\ q.pending = h.pending /\ q.commands = h.commands
      /\ q.active = h.active /\ q.ready = h.ready /\ q.outbound = h.outbound
      /\ q.inbound = Without(h.inbound, {s})
  <2>1. h.ready \cap {s} = {}
    BY <1>4
  <2> QED
    BY <1>4, <2>1, ReleaseKeeps
<1>q. q = ReleaseInbound(h, {s})
  OBVIOUS
<1> HIDE DEF q
<1>6. CASE s \notin h.active
  <2>1. h' = h /\ wire' = wire
    BY <1>2, <1>6
  <2> QED
    BY <1>1, <1>6, <2>1 DEF IInv, Typed, Exact, Wired, Handled
<1>7. CASE s \in h.active /\ Over(q, n)
  <2> DEFINE c == C("reset", n)
  <2>1. h' = Marked(q, c) /\ wire' = wire
    <3>1. ~(\E d \in Range(q.commands) : d.s = s)
      BY <1>4, <1>5 DEF Asked
    <3> QED
      BY <1>2, <1>7, <3>1 DEF Marked
  <2>2. c \in Command /\ c.s = s /\ c.op = "reset"
    BY <1>3
  <2> HIDE DEF c
  <2>3. q.pending \in Nat /\ q.pending + 0 = q.pending /\ IsTables(q)
    BY <1>5 DEF Good, Budgets, Tables
  <2>4. /\ IsTables(h') /\ h'.inbound = q.inbound /\ h'.outbound = q.outbound
        /\ h'.active = q.active /\ h'.ready = q.ready /\ h'.buffered = q.buffered
        /\ h'.commands = Append(q.commands, c) /\ h'.pending = q.pending + 0
    BY <2>1, <2>3, QueuedIs
  <2>5. phase = "up" => control + h.pending + 0 <= MaxOutput
    <3>1. h.pending \in Nat /\ control \in Nat
      BY DEF IInv, Typed, Good, Budgets
    <3> QED
      BY <3>1 DEF IInv, Exact
  <2>6. 0 \in Nat /\ 0 = IF c.op = "response" THEN c.len ELSE 0
    BY <2>2
  <2> QED
    BY <1>1, <1>7, <1>q, <2>1, <2>2, <2>4, <2>5, <2>6, AnswerKeeps
<1>8. CASE s \in h.active /\ ~Over(q, n) /\ Len(q.commands) >= 2 * MaxStreams
  <2>1. h' = Drop(q, {s}) /\ wire' = [wire EXCEPT ![s] = "closed"]
    BY <1>2, <1>8
  <2>2. /\ DOMAIN q.inbound \ {s} = DOMAIN h.inbound \ {s}
        /\ \A t \in DOMAIN q.inbound \ {s} : q.inbound[t] = h.inbound[t]
    BY <1>5 DEF Without
  <2> QED
    BY <1>1, <1>5, <2>1, <2>2, HandlerDropKeeps
<1>9. CASE s \in h.active /\ ~Over(q, n) /\ ~(Len(q.commands) >= 2 * MaxStreams)
  <2> DEFINE c == C("response", n)
  <2>1. h' = Queued(q, c, n) /\ wire' = wire
    BY <1>2, <1>9 DEF Queued
  <2>2. c \in Command /\ c.s = s /\ c.op = "response" /\ c.len = n
    BY <1>3
  <2> HIDE DEF c
  <2>3. q.pending \in Nat /\ IsTables(q)
    BY <1>5 DEF Good, Budgets, Tables
  <2>4. /\ IsTables(h') /\ h'.inbound = q.inbound /\ h'.outbound = q.outbound
        /\ h'.active = q.active /\ h'.ready = q.ready /\ h'.buffered = q.buffered
        /\ h'.commands = Append(q.commands, c) /\ h'.pending = q.pending + n
    BY <2>1, <2>3, QueuedIs
  <2>5. /\ c.len <= MaxResponse /\ control + h.pending + n <= MaxOutput
        /\ n \in Nat /\ n = IF c.op = "response" THEN c.len ELSE 0
    <3>1. h.pending \in Nat /\ control \in Nat /\ MaxOutput \in Nat /\ MaxResponse \in Nat
      BY StreamsAssumption DEF IInv, Typed, Good, Budgets, StreamsAssumption
    <3> QED
      BY <1>5, <1>9, <2>2, <3>1 DEF Over
  <2> QED
    BY <1>1, <1>9, <1>q, <2>1, <2>2, <2>4, <2>5, AnswerKeeps
<1> QED
  BY <1>6, <1>7, <1>8, <1>9

LEMMA HandlerDiesKeeps ==
    ASSUME IInv, NEW s \in Stream, HandlerDies(s)
    PROVE  IInv'
<1>1. /\ ~batch /\ s \in handlers /\ handlers' = handlers \ {s} /\ h' = Drop(h, {s})
      /\ wire' = wire /\ UNCHANGED <<control, cancelled, last, batch, phase>>
  BY DEF HandlerDies
<1>2. Good(h)
  BY DEF IInv
<1> QED
  BY <1>1, <1>2, HandlerDropKeeps

LEMMA FlushKeeps ==
    ASSUME IInv, Flush
    PROVE  IInv'
<1>1. PICK bad \in SUBSET Sending(h), chunk \in [Sending(h) -> 0..FrameSize] :
         /\ \A s \in Sending(h) : chunk[s] <= Owed(h)[s]
         /\ h' = Flushed(h, bad, chunk)
  BY DEF Flush
<1>2. /\ ~batch /\ phase = "up" /\ control' = 0
      /\ wire' = [s \in Stream |-> IF s \in h.active \ h'.active THEN "closed" ELSE wire[s]]
      /\ cancelled' = cancelled /\ last' = last /\ handlers' = handlers /\ batch' = batch
      /\ phase' = phase
  BY DEF Flush
<1>3. Good(h)
  BY DEF IInv
<1>4. /\ Good(h') /\ Lost(h') = Lost(h) /\ h'.pending <= h.pending
      /\ h'.inbound = h.inbound /\ h'.ready = h.ready /\ h'.commands = <<>>
      /\ h'.active = h.active \ (CommandsTo(h, "reset") \union (Sending(h) \ DOMAIN h'.outbound))
      /\ DOMAIN h'.outbound \subseteq Sending(h)
  <2>1. \A s \in Sending(h) : chunk[s] \in Nat /\ chunk[s] <= Owed(h)[s]
    BY <1>1, StreamsAssumption DEF StreamsAssumption
  <2>2. bad \subseteq Sending(h)
    OBVIOUS
  <2> QED
    BY <1>1, <1>3, <2>1, <2>2, FlushedKeeps, ZenonT(60)
<1>5. Asked(h') = {}
  <2>1. Range(h'.commands) = {}
    BY <1>4 DEF Range
  <2> QED
    BY <2>1 DEF Asked
<1>6. /\ Sending(h) \subseteq DOMAIN h.outbound \union Asked(h)
      /\ CommandsTo(h, "reset") \subseteq Asked(h)
      /\ Asked(h) \subseteq CommandsTo(h, "reset") \union Sending(h)
      /\ DOMAIN h.outbound \subseteq Sending(h)
  <2>1. \A c \in Range(h.commands) : c.op \in {"response", "reset"}
    BY <1>3, CommandsAre DEF Good
  <2> QED
    BY <2>1 DEF Sending, CommandsTo, Asked
<1>7. Typed'
  BY <1>2 DEF IInv, Typed
<1>8. Exact'
  <2>1. h.pending \in Nat /\ h'.pending \in Nat /\ control \in Nat /\ MaxOutput \in Nat
    BY <1>3, <1>4, StreamsAssumption DEF IInv, Typed, Good, Budgets, StreamsAssumption
  <2>2. h.pending + control <= MaxOutput /\ Lost(h) = 0
    BY <1>2 DEF IInv, Exact
  <2>3. h'.pending + control' <= MaxOutput /\ Lost(h') = 0
    BY <1>2, <1>4, <2>1, <2>2
  <2> QED
    BY <2>3 DEF Exact
<1>9. Wired'
  <2>0. /\ \A s \in Stream : wire'[s] = wire[s] \/ wire'[s] = "closed"
        /\ \A s \in h'.active : wire'[s] = wire[s] /\ s \in h.active
    BY <1>2, <1>3, <1>4, FlowsInStream
  <2>1. \A t \in h'.active : wire'[t] \in {"open", "ended"}
    BY <2>0 DEF IInv, Wired
  <2>2. \A t \in handlers' \union h'.ready \union DOMAIN h'.outbound \union Asked(h') :
          wire'[t] \in {"ended", "closed"}
    <3>1. handlers \union h.ready \union DOMAIN h.outbound \union Asked(h) \subseteq Stream
      <4>1. handlers \subseteq Stream
        BY DEF IInv, Typed
      <4> QED
        BY <1>3, <4>1, FlowsInStream
    <3>2. \A t \in handlers \union h.ready \union DOMAIN h.outbound \union Asked(h) :
            wire[t] \in {"ended", "closed"}
      BY DEF IInv, Wired
    <3>3. handlers' \union h'.ready \union DOMAIN h'.outbound \union Asked(h')
            \subseteq handlers \union h.ready \union DOMAIN h.outbound \union Asked(h)
      BY <1>2, <1>4, <1>5, <1>6
    <3> QED
      BY <2>0, <3>1, <3>2, <3>3
  <2>3. \A t \in Stream : wire'[t] = "open" => t \in DOMAIN h'.inbound
    BY <1>2, <1>4, <2>0 DEF IInv, Wired
  <2> QED
    BY <1>2, <2>1, <2>2, <2>3 DEF Wired
<1>10. Handled'
  <2>1. handlers' \cap (h'.ready \union DOMAIN h'.outbound \union Asked(h')) = {}
    BY <1>2, <1>4, <1>5, <1>6 DEF IInv, Handled
  <2>2. \A t \in h'.ready \union (handlers' \cap h'.active) :
          t \in DOMAIN h'.inbound /\ h'.inbound[t].whole
    BY <1>2, <1>4 DEF IInv, Handled
  <2>3. \A t \in handlers' \union h'.ready : t <= last'
    BY <1>2, <1>4 DEF IInv, Handled
  <2>4. handlers' \ h'.active = {}
    BY <1>2, <1>4, <1>6 DEF IInv, Handled
  <2>5. h'.active \subseteq handlers' \union DOMAIN h'.inbound
                              \union DOMAIN h'.outbound \union Asked(h')
    BY <1>2, <1>4, <1>6 DEF IInv, Handled
  <2> QED
    BY <2>1, <2>2, <2>3, <2>4, <2>5 DEF Handled
<1> QED
  BY <1>4, <1>7, <1>8, <1>9, <1>10 DEF IInv

LEMMA FlushFailsKeeps ==
    ASSUME IInv, FlushFails
    PROVE  IInv'
<1>1. /\ ~batch /\ phase' = "failed" /\ h' = [h EXCEPT !.commands = <<>>]
      /\ control' = control /\ cancelled' = cancelled /\ last' = last
      /\ handlers' = handlers /\ wire' = wire /\ batch' = batch
  BY DEF FlushFails
<1>2. /\ Good(h') /\ h'.active = h.active /\ h'.outbound = h.outbound
      /\ Asked(h') = {} /\ h'.ready = h.ready /\ h'.inbound = h.inbound
  <2>1. Good(h)
    BY DEF IInv
  <2> QED
    BY <1>1, <2>1, LosingKeeps
<1>3. Typed' /\ Exact'
  BY <1>1 DEF IInv, Typed, Exact
<1>4. Wired'
  BY <1>1, <1>2 DEF IInv, Wired
<1>5. Handled'
  BY <1>1, <1>2 DEF IInv, Handled
<1> QED
  BY <1>2, <1>3, <1>4, <1>5 DEF IInv

LEMMA CloseKeeps ==
    ASSUME IInv, Close
    PROVE  IInv'
<1>1. /\ phase' = "closed" /\ control' = 0 /\ cancelled' = cancelled /\ last' = last
      /\ handlers' = handlers /\ wire' = wire /\ batch' = batch /\ ~batch
      /\ h' = [inbound |-> <<>>, active |-> {}, outbound |-> <<>>, commands |-> <<>>,
               buffered |-> 0, pending |-> 0, ready |-> {}]
  BY DEF Close
<1>2. /\ Good(h') /\ h'.active = {} /\ h'.ready = {}
      /\ Asked(h') = {} /\ DOMAIN h'.inbound = {} /\ DOMAIN h'.outbound = {}
  BY <1>1, NothingIsGood
<1>3. Typed' /\ Exact'
  BY <1>1 DEF IInv, Typed, Exact
<1>4. Wired'
  BY <1>1, <1>2 DEF IInv, Wired
<1>5. Handled'
  BY <1>1, <1>2 DEF IInv, Handled
<1> QED
  BY <1>2, <1>3, <1>4, <1>5 DEF IInv

LEMMA InitIsGood == Init => IInv
<1> SUFFICES ASSUME Init PROVE IInv
  OBVIOUS
<1>1. /\ phase = "up" /\ control = 0 /\ cancelled = {} /\ last = 0 /\ handlers = {}
      /\ wire = [s \in Stream |-> "idle"] /\ batch = FALSE
      /\ h = [inbound |-> <<>>, active |-> {}, outbound |-> <<>>, commands |-> <<>>,
              buffered |-> 0, pending |-> 0, ready |-> {}]
  BY DEF Init
<1>2. /\ Good(h) /\ Lost(h) = 0 /\ h.pending = 0 /\ h.active = {} /\ h.ready = {}
      /\ Asked(h) = {} /\ DOMAIN h.inbound = {} /\ DOMAIN h.outbound = {}
  BY <1>1, NothingIsGood
<1>3. MaxOutput \in Nat
  BY StreamsAssumption DEF StreamsAssumption
<1>4. Typed
  BY <1>1 DEF Typed
<1>5. Exact
  BY <1>1, <1>2, <1>3 DEF Exact
<1>6. Wired
  BY <1>1, <1>2 DEF Wired
<1>7. Handled
  BY <1>1, <1>2 DEF Handled
<1> QED
  BY <1>2, <1>4, <1>5, <1>6, <1>7 DEF IInv

LEMMA StutterKeeps ==
    ASSUME IInv, UNCHANGED vars
    PROVE  IInv'
<1>1. /\ h' = h /\ control' = control /\ cancelled' = cancelled /\ last' = last
      /\ handlers' = handlers /\ wire' = wire /\ batch' = batch /\ phase' = phase
  BY DEF vars
<1>2. Typed' /\ Exact' /\ Wired'
  BY <1>1 DEF IInv, Typed, Exact, Wired
<1>3. Good(h') /\ Handled'
  BY <1>1 DEF IInv, Handled
<1> QED
  BY <1>2, <1>3 DEF IInv

(* The invariant is inductive, so every reachable state has it.            *)
THEOREM StreamsInvariant == Spec => []IInv
<1>1. Init => IInv
  BY InitIsGood
<1>2. IInv /\ [Next]_vars => IInv'
  <2> SUFFICES ASSUME IInv, [Next]_vars PROVE IInv'
    OBVIOUS
  <2>1. CASE \E s \in Stream : RequestReceived(s)
    BY <2>1, RequestReceivedKeeps
  <2>2. CASE \E s \in Stream : DataReceived(s)
    BY <2>2, DataReceivedKeeps
  <2>3. CASE \E s \in Stream : StreamEnded(s)
    BY <2>3, StreamEndedKeeps
  <2>4. CASE \E s \in Stream : StreamReset(s)
    BY <2>4, StreamResetKeeps
  <2>5. CASE \E s \in Stream : Respond(s)
    BY <2>5, RespondKeeps
  <2>6. CASE \E s \in Stream : HandlerDies(s)
    BY <2>6, HandlerDiesKeeps
  <2>7. CASE OtherEvent
    BY <2>7, OtherEventKeeps
  <2>8. CASE ReceiveFails
    BY <2>8, ReceiveFailsKeeps
  <2>9. CASE BatchPauses
    BY <2>9, BatchPausesKeeps
  <2>10. CASE BatchEnds
    BY <2>10, BatchEndsKeeps
  <2>11. CASE Flush
    BY <2>11, FlushKeeps
  <2>12. CASE FlushFails
    BY <2>12, FlushFailsKeeps
  <2>13. CASE Close
    BY <2>13, CloseKeeps
  <2>14. CASE UNCHANGED vars
    BY <2>14, StutterKeeps
  <2> QED
    BY <2>1, <2>2, <2>3, <2>4, <2>5, <2>6, <2>7, <2>8, <2>9, <2>10, <2>11, <2>12, <2>13,
       <2>14 DEF Next
<1> QED
  BY <1>1, <1>2, PTL DEF Spec

-----------------------------------------------------------------------------
(* What the invariant says of the streams. *)

(* The tables of H2Protocol hold what their declarations promise, and a    *)
(* request or response never more than its limit.                          *)
THEOREM StreamsTypeOK == Spec => []TypeOK
<1>1. IInv => TypeOK
  <2> SUFFICES ASSUME IInv PROVE TypeOK
    OBVIOUS
  <2>1. Good(h)
    BY DEF IInv
  <2>2. /\ h.active \subseteq Stream /\ h.ready \subseteq Stream
        /\ DOMAIN h.inbound \subseteq Stream /\ DOMAIN h.outbound \subseteq Stream
    BY <2>1 DEF Good, Tables, Slots
  <2>3. /\ \A s \in DOMAIN h.inbound : h.inbound[s] \in
             [len : 0..MaxBody, want : {Unknown} \union 0..MaxBody, whole : BOOLEAN]
        /\ \A s \in DOMAIN h.outbound : h.outbound[s] \in 1..MaxResponse
    BY <2>1 DEF Good, Tables, Request
  <2>4. \A c \in Range(h.commands) :
          c \in [op : {"response", "reset"}, s : Stream, len : 0..(MaxResponse + 1)]
    <3>1. Tables(h)
      BY <2>1 DEF Good
    <3> QED
      BY <3>1, CommandsAre DEF Command
  <2>5. {h.buffered, h.pending, control} \subseteq Nat
    <3>1. \A s \in Stream : Body(h)[s] \in Nat
      BY <2>1, StreamsAssumption DEF Good, Tables, Request, Body, StreamsAssumption
    <3>2. h.buffered \in Nat
      BY <2>1, <3>1, TotalIsNat DEF Good, Budgets
    <3> QED
      BY <2>1, <3>2 DEF IInv, Typed, Good, Budgets
  <2> QED
    BY <2>2, <2>3, <2>4, <2>5 DEF TypeOK, IInv, Typed
<1> QED
  BY <1>1, StreamsInvariant, PTL

(* No reset, drop, failure or response path leaks budget or frees it twice.*)
THEOREM BudgetsAreExactHolds == Spec => []BudgetsAreExact
<1>1. IInv => BudgetsAreExact
  <2> SUFFICES ASSUME IInv PROVE BudgetsAreExact
    OBVIOUS
  <2>1. Good(h)
    BY DEF IInv
  <2>2. h.buffered = Total(Body(h)) /\ h.buffered <= MaxBuffer /\ h.pending \in Nat
    BY <2>1 DEF Good, Budgets
  <2>3. Total(Owed(h)) \in Nat
    BY <2>1, OwedIsNat DEF Good
  <2>4. phase = "up" => h.pending - Total(Owed(h)) = 0 /\ h.pending + control <= MaxOutput
    BY DEF IInv, Exact, Lost
  <2> HIDE DEF Good
  <2>5. phase = "up" => h.pending = Total(Owed(h))
    BY <2>2, <2>3, <2>4
  <2> QED
    BY <2>2, <2>4, <2>5 DEF BudgetsAreExact
<1> QED
  BY <1>1, StreamsInvariant, PTL

(* A stream has a slot as long as anything of it is held, and slots are    *)
(* limited.                                                                *)
THEOREM SlotsMatchHolds == Spec => []SlotsMatch
<1>1. IInv => SlotsMatch
  <2> SUFFICES ASSUME IInv PROVE SlotsMatch
    OBVIOUS
  <2>1. Tables(h)
    BY DEF IInv, Good
  <2>2. \A c \in Range(h.commands) : c.op \in {"response", "reset"}
    BY <2>1, CommandsAre
  <2>3. phase = "up" => h.active \subseteq handlers \union DOMAIN h.inbound
                                             \union DOMAIN h.outbound \union Asked(h)
    BY DEF IInv, Handled
  <2> QED
    BY <2>1, <2>2, <2>3 DEF SlotsMatch, Tables, Slots, Asked
<1> QED
  BY <1>1, StreamsInvariant, PTL

(* A stream has at most one answer, on its way or half sent.               *)
THEOREM OneResponseHolds == Spec => []OneResponse
<1>1. IInv => OneResponse
  <2> SUFFICES ASSUME IInv PROVE OneResponse
    OBVIOUS
  <2>1. Tables(h)
    BY DEF IInv, Good
  <2>2. ASSUME NEW s \in Stream
        PROVE  Cardinality({i \in DOMAIN h.commands : h.commands[i].s = s}) <= 1
    <3> DEFINE I == {i \in DOMAIN h.commands : h.commands[i].s = s}
    <3>1. \A i, j \in I : i = j
      BY <2>1 DEF Tables, OneEach
    <3> HIDE DEF I
    <3>2. I = {} => Cardinality(I) <= 1
      BY FS_EmptySet
    <3>3. ASSUME NEW i \in I PROVE Cardinality(I) <= 1
      <4>1. I = {i}
        BY <3>1
      <4>2. Cardinality(I) = 1
        BY <4>1, FS_Singleton
      <4> QED
        BY <4>2
    <3>4. Cardinality(I) <= 1
      BY <3>2, <3>3
    <3> QED
      BY <3>4 DEF I
  <2>3. \A c \in Range(h.commands) : c.s \in Asked(h)
    BY DEF Asked
  <2>4. ASSUME NEW c \in Range(h.commands)
        PROVE  c.s \notin DOMAIN h.outbound /\ (c.op = "response" => wire[c.s] = "ended")
    <3>1. c.s \notin DOMAIN h.outbound /\ (c.op = "response" => c.s \in h.active)
      BY <2>1 DEF Tables
    <3>2. c.op = "response" => wire[c.s] = "ended"
      BY <2>3, <3>1 DEF IInv, Wired
    <3> QED
      BY <3>1, <3>2
  <2> QED
    BY <2>2, <2>4 DEF OneResponse
<1> QED
  BY <1>1, StreamsInvariant, PTL

(* Between batches a handler works on a complete request of a live stream, *)
(* and every request a handler saw is covered by last_processed_stream_id. *)
THEOREM HandlersAreLiveHolds == Spec => []HandlersAreLive
<1>1. IInv => HandlersAreLive
  <2> SUFFICES ASSUME IInv PROVE HandlersAreLive
    OBVIOUS
  <2>1. ASSUME phase = "up", ~batch, NEW s \in handlers
        PROVE  s \in h.active /\ wire[s] = "ended" /\ h.inbound[s].whole
    <3>1. s \in h.active
      BY <2>1 DEF IInv, Handled
    <3> QED
      BY <3>1 DEF IInv, Wired, Handled
  <2>2. \A s \in handlers : s <= last
    BY DEF IInv, Handled
  <2> QED
    BY <2>1, <2>2 DEF HandlersAreLive
<1> QED
  BY <1>1, StreamsInvariant, PTL

=============================================================================
