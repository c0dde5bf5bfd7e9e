-------------------------- MODULE HTTP1Parts_proofs --------------------------
(***************************************************************************)
(* What is proved of the two parts of the HTTP/1 connections that keep no  *)
(* task of their own, for all routes and all frames.                       *)
(*                                                                         *)
(* Of the Router: its tables are right for the log of registrations (lemma *)
(* TablesNext), and tables that are right resolve as the guide promises    *)
(* (ResolveIsSound).  The log decides which registrations are accepted,    *)
(* each by the accepted ones before it, so the set of them is unique.      *)
(*                                                                         *)
(* Of the frame guard: wherever a stream is cut, the guard is at a place   *)
(* of the stream that the number of bytes fed decides (GuardFed), and a    *)
(* guard at its place has forwarded and refused what it must (FedMeans).   *)
(* A place is in a header, in a payload or at a refused frame; a turn of   *)
(* the loop of feed() leads from one to the next, and consumes.            *)
(***************************************************************************)
EXTENDS Router, FrameGuard, FiniteSetTheorems, WellFoundedInduction, TLAPS

(* Induction up to a bound, over a set: the step form of well-foundedness. *)
LEMMA CountUp ==
    ASSUME NEW N \in Nat, NEW S, 0 \in S, \A i \in 1..N : i - 1 \in S => i \in S
    PROVE  \A i \in 0..N : i \in S
<1> SUFFICES ASSUME NEW k \in 0..N, k \notin S PROVE FALSE
  OBVIOUS
<1> DEFINE R == {ss \in Nat \X Nat : ss[1] < ss[2]}
           T == {i \in 0..N : i \notin S}
<1>1. IsWellFoundedOn(R, Nat)
  BY NatLessThanWellFounded DEF OpToRel
<1>2. PICK x \in T : \A y \in T : ~(<<y, x>> \in R)
  <2>1. T \in SUBSET Nat /\ T # {}
    OBVIOUS
  <2> HIDE DEF R, T
  <2> QED
    BY WFMin, <1>1, <2>1
<1>3. x \in 1..N /\ x - 1 \in T
  BY <1>2
<1>4. <<x - 1, x>> \in R
  <2> DEFINE p == <<x - 1, x>>
  <2>1. p \in Nat \X Nat /\ p[1] < p[2]
    BY <1>3
  <2> HIDE DEF p
  <2>2. p \in R
    BY <2>1
  <2> QED
    BY <2>2 DEF p
<1> HIDE DEF R, T
<1> QED
  BY <1>2, <1>3, <1>4

(* A set of natural numbers has a least one.                               *)
LEMMA LeastExists ==
    ASSUME NEW S \in SUBSET Nat, S # {}
    PROVE  Lowest(S) \in S /\ \A j \in S : Lowest(S) <= j
<1> DEFINE R == {ss \in Nat \X Nat : ss[1] < ss[2]}
<1>1. IsWellFoundedOn(R, Nat)
  BY NatLessThanWellFounded DEF OpToRel
<1>2. PICK x \in S : \A y \in S : ~(<<y, x>> \in R)
  <2> HIDE DEF R
  <2> QED
    BY WFMin, <1>1
<1>3. ASSUME NEW y \in S PROVE x <= y
  <2> SUFFICES ASSUME y < x PROVE FALSE
    OBVIOUS
  <2> DEFINE p == <<y, x>>
  <2>1. p \in Nat \X Nat /\ p[1] < p[2]
    OBVIOUS
  <2> HIDE DEF p
  <2>2. p \in R
    BY <2>1
  <2> QED
    BY <1>2, <2>2 DEF p
<1> HIDE DEF R
<1> QED
  BY <1>3 DEF Lowest

-----------------------------------------------------------------------------
(* Which registrations of a log are accepted: the definition of Accepted   *)
(* in parts, and it has one solution.                                      *)
Before(A, i) == {j \in A : j < i}
Patterns(l, A) == {l[j].at : j \in {k \in A : l[k].kind = "regex"}}
Admitted(l, A, i) ==
    /\ \A j \in Before(A, i) : ~Clash(l[i], l[j])
    /\ l[i].kind = "regex" /\ l[i].at \notin Patterns(l, Before(A, i))
           => Cardinality(Patterns(l, Before(A, i))) < MaxRoutes
Ruled(l, A) ==
    /\ A \in SUBSET DOMAIN l
    /\ \A i \in DOMAIN l : i \in A <=> Admitted(l, A, i)

(* A rule that decides each registration from the earlier ones has one     *)
(* solution.                                                               *)
LEMMA RuledIsUnique ==
    ASSUME NEW l \in Seq(Registration), NEW A, NEW B, Ruled(l, A), Ruled(l, B)
    PROVE  A = B
<1> SUFFICES ASSUME A # B PROVE FALSE
  OBVIOUS
<1> DEFINE D == {i \in DOMAIN l : ~(i \in A <=> i \in B)}
<1>1. D \in SUBSET Nat /\ D # {}
  <2>1. \E i : ~(i \in A <=> i \in B)
    BY Zenon
  <2> QED BY <2>1 DEF Ruled
<1> DEFINE d == Lowest(D)
<1>2. d \in D /\ \A j \in D : d <= j
  <2> HIDE DEF D
  <2> QED BY <1>1, LeastExists
<1> HIDE DEF d
<1>3. Before(A, d) = Before(B, d)
  <2>1. d \in Nat /\ \A j \in DOMAIN l : j \in Nat /\ (j < d => j \notin D)
    BY <1>1, <1>2
  <2> QED BY <2>1 DEF Before, Ruled
<1>4. Admitted(l, A, d) <=> Admitted(l, B, d)
  BY <1>3 DEF Admitted
<1> QED BY <1>2, <1>4 DEF Ruled

(* So the accepted registrations are those the rule admits.                *)
LEMMA AcceptedIsRuled ==
    ASSUME log \in Seq(Registration), NEW A, Ruled(log, A)
    PROVE  Accepted = A
<1>1. Accepted = CHOOSE X \in SUBSET DOMAIN log : \A i \in DOMAIN log : i \in X <=> Admitted(log, X, i)
  BY Zenon DEF Accepted, Admitted, Before, Patterns
<1>2. Ruled(log, Accepted)
  BY <1>1 DEF Ruled
<1> QED BY <1>2, RuledIsUnique

(* What one more registration does to it: x is the longer log, n the       *)
(* number of the new registration.                                         *)
Longer(x, n, l, r, A) ==
    /\ n \in Nat \ {0} /\ n \notin A /\ n \in DOMAIN x
    /\ x[n] = r
    /\ \A i \in A : x[i] = l[i] /\ i < n /\ i \in Nat /\ l[i] \in Registration
    /\ Before(A, n) = A
    /\ Admitted(x, A, n) => Ruled(x, A \cup {n})
    /\ ~Admitted(x, A, n) => Ruled(x, A)

(* A registration changes nothing about the earlier ones.                  *)
LEMMA OneMore ==
    ASSUME NEW l \in Seq(Registration), NEW r \in Registration, NEW A, Ruled(l, A)
    PROVE  Longer(Append(l, r), Len(l) + 1, l, r, A)
<1> DEFINE n == Len(l) + 1
           x == Append(l, r)
<1>1. /\ n \in Nat \ {0} /\ DOMAIN l = 1..(n - 1) /\ DOMAIN x = 1..n
      /\ x[n] = r /\ \A i \in 1..(n - 1) : x[i] = l[i] /\ l[i] \in Registration
  OBVIOUS
<1> HIDE DEF n, x
<1>2. A \in SUBSET (1..(n - 1)) /\ n \notin A
  BY <1>1 DEF Ruled
<1>3. \A i \in 1..n : Before(A, i) = Before(A \cup {n}, i)
  BY <1>1 DEF Before
<1>4. \A i \in 1..(n - 1) : Patterns(x, Before(A, i)) = Patterns(l, Before(A, i))
  BY <1>1, <1>2 DEF Before, Patterns
<1>5. \A i \in 1..(n - 1) : Admitted(x, A, i) <=> Admitted(l, A, i)
  <2> SUFFICES ASSUME NEW i \in 1..(n - 1) PROVE Admitted(x, A, i) <=> Admitted(l, A, i)
    OBVIOUS
  <2>1. x[i] = l[i] /\ \A j \in Before(A, i) : x[j] = l[j]
    BY <1>1, <1>2 DEF Before
  <2>2. Patterns(x, Before(A, i)) = Patterns(l, Before(A, i))
    BY <1>4
  <2>3. \A j \in Before(A, i) : Clash(x[i], x[j]) <=> Clash(l[i], l[j])
    BY <2>1
  <2> QED BY Zenon, <2>1, <2>2, <2>3 DEF Admitted
<1>6. \A i \in 1..n : Admitted(x, A \cup {n}, i) <=> Admitted(x, A, i)
  <2> SUFFICES ASSUME NEW i \in 1..n PROVE Admitted(x, A \cup {n}, i) <=> Admitted(x, A, i)
    OBVIOUS
  <2>1. Before(A, i) = Before(A \cup {n}, i)
    BY <1>3
  <2> QED BY Zenon, <2>1 DEF Admitted
<1>7. Before(A, n) = A
  <2>1. \A j \in A : j < n
    BY <1>1, <1>2
  <2> QED BY Zenon, <2>1 DEF Before
<1>8. \A i \in 1..(n - 1) : i \in A <=> Admitted(x, A, i)
  BY <1>1, <1>5 DEF Ruled
<1>9. Admitted(x, A, n) => Ruled(x, A \cup {n})
  <2>0. A \cup {n} \in SUBSET (1..n)
    BY <1>1, <1>2
  <2> SUFFICES ASSUME Admitted(x, A, n), NEW i \in 1..n
               PROVE  i \in A \cup {n} <=> Admitted(x, A \cup {n}, i)
    BY Zenon, <1>1, <2>0 DEF Ruled
  <2>1. i = n \/ i \in 1..(n - 1)
    BY <1>1
  <2>2. Admitted(x, A \cup {n}, i) <=> Admitted(x, A, i)
    BY <1>6
  <2> QED BY Zenon, <1>1, <1>8, <2>1, <2>2
<1>10. ~Admitted(x, A, n) => Ruled(x, A)
  <2> SUFFICES ASSUME ~Admitted(x, A, n), NEW i \in 1..n
               PROVE  i \in A <=> Admitted(x, A, i)
    BY <1>1, <1>2 DEF Ruled
  <2>1. i = n \/ i \in 1..(n - 1)
    BY <1>1
  <2> QED BY Zenon, <1>2, <1>8, <2>1
<1>11. Longer(x, n, l, r, A)
  BY <1>1, <1>2, <1>7, <1>9, <1>10 DEF Longer
<1> QED BY <1>11 DEF n, x

-----------------------------------------------------------------------------
(* The tables hold the accepted registrations: the static one each target  *)
(* of theirs, the regex one an entry for each pattern, in the order of the *)
(* first registration, with a handler for each method.                     *)
Statics(x, l, A) ==
    /\ \A i \in A : l[i].kind = "static" =>
          \A m \in l[i].methods : <<m, l[i].at>> \in DOMAIN x /\ x[<<m, l[i].at>>] = i
    /\ \A key \in DOMAIN x : \E i \in A : \E m \in l[i].methods :
          l[i].kind = "static" /\ key = <<m, l[i].at>>

\* e is the entry of registration i, and e holds nothing that is not accepted.
Enters(e, l, i) == e.pattern = l[i].at
                   /\ \A m \in l[i].methods : m \in DOMAIN e.handlers /\ e.handlers[m] = i
Owns(e, l, A, i) == i \in A /\ l[i].kind = "regex" /\ l[i].at = e.pattern
Sound(e, l, A) ==
    /\ DOMAIN e.handlers # {}
    /\ \A m \in DOMAIN e.handlers :
          Owns(e, l, A, e.handlers[m]) /\ m \in l[e.handlers[m]].methods
\* Entry e was made before entry f.
Older(e, f, l, A) ==
    /\ e.pattern # f.pattern
    /\ \A i \in A : Owns(f, l, A, i) => \E h \in A : Owns(e, l, A, h) /\ h < i

Entry == [pattern : Pattern, handlers : UNION {[S -> Nat] : S \in SUBSET Method}]
Regexes(x, l, A) ==
    /\ x \in Seq(Entry)
    /\ \A i \in A : l[i].kind = "regex" => \E j \in DOMAIN x : Enters(x[j], l, i)
    /\ \A j \in DOMAIN x : Sound(x[j], l, A)
    /\ \A j, k \in DOMAIN x : j < k => Older(x[j], x[k], l, A)

Holds(t, l, A) ==
    /\ t = [static |-> t.static, regex |-> t.regex]
    /\ l \in Seq(Registration) /\ Ruled(l, A)
    /\ Statics(t.static, l, A) /\ Regexes(t.regex, l, A)

(* There are as many entries as accepted patterns.                         *)
LEMMA EntriesCount ==
    ASSUME NEW x, NEW l, NEW A, Regexes(x, l, A)
    PROVE  Cardinality(Patterns(l, A)) = Len(x)
           /\ \A p : p \in Patterns(l, A) <=> \E j \in DOMAIN x : x[j].pattern = p
<1> DEFINE f == [j \in 1..Len(x) |-> x[j].pattern]
<1>1. Len(x) \in Nat /\ DOMAIN x = 1..Len(x)
  BY DEF Regexes
<1>2. \A p : p \in Patterns(l, A) <=> \E j \in DOMAIN x : x[j].pattern = p
  BY DEF Regexes, Patterns, Sound, Owns, Enters
<1>3. f \in Bijection(1..Len(x), Patterns(l, A))
  <2>1. f \in [1..Len(x) -> Patterns(l, A)]
    BY <1>1, <1>2
  <2>2. \A j, k \in 1..Len(x) : f[j] = f[k] => j = k
    <3>1. \A j, k \in 1..Len(x) : j < k => x[j].pattern # x[k].pattern
      BY <1>1 DEF Regexes, Older
    <3> SUFFICES ASSUME NEW j \in 1..Len(x), NEW k \in 1..Len(x), f[j] = f[k], j # k
                 PROVE FALSE
      OBVIOUS
    <3>2. x[j].pattern = x[k].pattern /\ (j < k \/ k < j)
      OBVIOUS
    <3> QED BY <3>1, <3>2
  <2>3. \A p \in Patterns(l, A) : \E j \in 1..Len(x) : f[j] = p
    BY <1>1, <1>2
  <2> HIDE DEF f
  <2> QED BY <2>1, <2>2, <2>3 DEF Bijection, Injection, Surjection, IsInjective
<1>4. IsFiniteSet(1..Len(x)) /\ Cardinality(1..Len(x)) = Len(x)
  <2> DEFINE N == Len(x)
  <2>1. N \in Nat /\ (1 > N => N = 0)
    BY <1>1
  <2> HIDE DEF N, f
  <2>2. IsFiniteSet(1..N) /\ Cardinality(1..N) = IF 1 > N THEN 0 ELSE N - 1 + 1
    BY <2>1, FS_Interval
  <2> QED BY <2>1, <2>2 DEF N
<1>5. ExistsBijection(1..Len(x), Patterns(l, A))
  BY <1>3 DEF ExistsBijection
<1>6. Cardinality(Patterns(l, A)) = Cardinality(1..Len(x))
  BY <1>4, <1>5, FS_Bijection
<1> QED BY <1>2, <1>4, <1>6

(* A registration that is refused, or of the other kind, changes nothing   *)
(* for a table.                                                            *)
LEMMA StaticsStay ==
    ASSUME NEW x, NEW l, NEW k, NEW A, NEW B, Statics(x, l, A), A \subseteq B,
           \A i \in A : k[i] = l[i], \A i \in B \ A : k[i].kind # "static"
    PROVE  Statics(x, k, B)
<1>1. \A i \in B : k[i].kind = "static" =>
        \A m \in k[i].methods : <<m, k[i].at>> \in DOMAIN x /\ x[<<m, k[i].at>>] = i
  <2> SUFFICES ASSUME NEW i \in B, k[i].kind = "static"
               PROVE  \A m \in k[i].methods : <<m, k[i].at>> \in DOMAIN x /\ x[<<m, k[i].at>>] = i
    OBVIOUS
  <2>1. i \in A /\ k[i] = l[i]
    OBVIOUS
  <2> QED BY <2>1 DEF Statics
<1>2. ASSUME NEW key \in DOMAIN x
      PROVE  \E i \in B : \E m \in k[i].methods : k[i].kind = "static" /\ key = <<m, k[i].at>>
  <2>1. PICK i \in A : \E m \in l[i].methods : l[i].kind = "static" /\ key = <<m, l[i].at>>
    BY DEF Statics
  <2>2. k[i] = l[i] /\ i \in B
    OBVIOUS
  <2> QED BY <2>1, <2>2
<1> QED BY <1>1, <1>2 DEF Statics

(* A registration that is refused leaves the regex table right.            *)
LEMMA RegexesStay ==
    ASSUME NEW x, NEW l, NEW k, NEW A, NEW B, Regexes(x, l, A), A \subseteq B,
           \A i \in A : k[i] = l[i], \A i \in B \ A : k[i].kind # "regex"
    PROVE  Regexes(x, k, B)
<1>1. \A e, i : Owns(e, k, B, i) <=> Owns(e, l, A, i)
  BY DEF Owns
<1>2. \A i \in B : k[i].kind = "regex" => \E j \in DOMAIN x : Enters(x[j], k, i)
  <2> SUFFICES ASSUME NEW i \in B, k[i].kind = "regex"
               PROVE  \E j \in DOMAIN x : Enters(x[j], k, i)
    OBVIOUS
  <2>1. i \in A /\ k[i] = l[i]
    OBVIOUS
  <2> QED BY <2>1 DEF Regexes, Enters
<1>3. ASSUME NEW j \in DOMAIN x PROVE Sound(x[j], k, B)
  <2>1. Sound(x[j], l, A)
    BY DEF Regexes
  <2>2. \A i : Owns(x[j], l, A, i) => k[i] = l[i]
    BY DEF Owns
  <2> QED BY <1>1, <2>1, <2>2 DEF Sound
<1>4. \A e, f : Older(e, f, l, A) => Older(e, f, k, B)
  <2>1. \A e, i : Owns(e, l, A, i) => i \in A
    BY DEF Owns
  <2> QED BY <1>1, <2>1 DEF Older
<1> QED BY <1>2, <1>3, <1>4 DEF Regexes

(* A static registration: the table takes it exactly when it is accepted.  *)
LEMMA StaticAdds ==
    ASSUME NEW t, NEW l, NEW A, Holds(t, l, A),
           NEW r \in Registration, r.kind = "static"
    PROVE  \E B : Holds(Add(t, r, Len(l) + 1), Append(l, r), B)
<1> DEFINE n == Len(l) + 1
           x == Append(l, r)
           u == Handlers(r.methods \X {r.at}, n)
           y == Joined(t.static, u)
           clash == \E m \in r.methods : <<m, r.at>> \in DOMAIN t.static
<1>0. x \in Seq(Registration) /\ l \in Seq(Registration) /\ Ruled(l, A)
  BY DEF Holds
<1>1. Longer(x, n, l, r, A)
  BY <1>0, OneMore
<1> HIDE DEF n, x
<1>2. Admitted(x, A, n) <=> ~clash
  <2>1. Admitted(x, A, n) <=> \A j \in A : ~Clash(r, l[j])
    BY <1>1 DEF Admitted, Longer
  <2>2. \A j \in A : Clash(r, l[j]) <=> l[j].kind = "static" /\ l[j].at = r.at
                                        /\ \E m \in r.methods : m \in l[j].methods
    BY DEF Clash
  <2>3. clash <=> \E j \in A : Clash(r, l[j])
    BY <2>2 DEF Holds, Statics
  <2> QED BY <2>1, <2>3
<1>3. Add(t, r, n) = IF clash THEN t ELSE [static |-> y, regex |-> t.regex]
  <2>1. Add(t, r, n) = IF clash THEN t ELSE [t EXCEPT !.static = y]
    BY DEF Add, AddStatic
  <2> HIDE DEF y
  <2>2. [t EXCEPT !.static = y] = [static |-> y, regex |-> t.regex]
    BY DEF Holds
  <2> QED BY <2>1, <2>2
<1>4. CASE clash
  <2>1. Statics(t.static, x, A) /\ Regexes(t.regex, x, A)
    BY <1>1, StaticsStay, RegexesStay DEF Holds, Longer
  <2> QED BY <1>0, <1>1, <1>2, <1>3, <1>4, <2>1 DEF Holds, Longer, n, x
<1>5. CASE ~clash
  <2> DEFINE B == A \cup {n}
  <2>1. Statics(y, x, B)
    <3>1. DOMAIN y = DOMAIN t.static \cup (r.methods \X {r.at})
      BY DEF Joined, Handlers
    <3>2. \A m \in r.methods : y[<<m, r.at>>] = n
      BY <1>5 DEF Joined, Handlers
    <3>3. \A key \in DOMAIN t.static : y[key] = t.static[key]
      BY DEF Joined
    <3> HIDE DEF y, u
    <3>4. ASSUME NEW i \in B, x[i].kind = "static", NEW m \in x[i].methods
          PROVE  <<m, x[i].at>> \in DOMAIN y /\ y[<<m, x[i].at>>] = i
      BY <3>1, <3>2, <3>3, <3>4, <1>1 DEF Holds, Statics, Longer
    <3>5. ASSUME NEW key \in DOMAIN y
          PROVE  \E i \in B : \E m \in x[i].methods :
                    x[i].kind = "static" /\ key = <<m, x[i].at>>
      <4>1. CASE key \in DOMAIN t.static
        BY <1>1, <4>1 DEF Holds, Statics, Longer
      <4>2. CASE key \in r.methods \X {r.at}
        BY <1>1, <4>2 DEF Longer
      <4> QED BY <3>1, <4>1, <4>2
    <3> QED BY <3>4, <3>5 DEF Statics
  <2>2. Regexes(t.regex, x, B)
    <3>1. Regexes(t.regex, l, A) /\ A \subseteq B
      BY DEF Holds
    <3>2. \A i \in B \ A : x[i].kind # "regex"
      BY <1>1 DEF Longer
    <3> HIDE DEF B
    <3> QED BY <1>1, <3>1, <3>2, RegexesStay DEF Longer
  <2> HIDE DEF y
  <2> QED BY <1>0, <1>1, <1>2, <1>3, <1>5, <2>1, <2>2 DEF Holds, Longer, n, x
<1> QED BY <1>4, <1>5

(* The hypothesis of the lemmas on a new registration, in its parts.       *)
LEMMA LongerMeans ==
    ASSUME NEW k, NEW n, NEW l, NEW r, NEW A, Longer(k, n, l, r, A)
    PROVE  n \in Nat /\ n \notin A /\ k[n] = r /\ \A j \in A : k[j] = l[j] /\ j < n
  BY DEF Longer

(* What the invariant says of one entry of the regex table.                *)
LEMMA RegexOf ==
    ASSUME NEW r \in Registration, r.kind = "regex"
    PROVE  r.methods \in SUBSET Method /\ r.methods # {} /\ r.at \in Pattern
<1> DEFINE M == (SUBSET Method) \ {{}}
<1>1. \/ r \in [kind : {"static"}, at : Path, methods : M]
      \/ r \in [kind : {"regex"}, at : Pattern, methods : M]
  BY DEF Registration
<1> HIDE DEF M
<1>2. r.methods \in M /\ r.at \in Pattern
  BY <1>1
<1> QED BY <1>2 DEF M

(* One more method of a pattern that has an entry.                         *)
LEMMA EntryGrows ==
    ASSUME NEW x, NEW l, NEW A, Regexes(x, l, A),
           NEW r \in Registration, r.kind = "regex", NEW k, NEW n, Longer(k, n, l, r, A),
           NEW i \in DOMAIN x, x[i].pattern = r.at, r.methods \cap DOMAIN x[i].handlers = {}
    PROVE  LET e == [pattern |-> r.at, handlers |-> Joined(x[i].handlers, Handlers(r.methods, n))]
           IN  Regexes([x EXCEPT ![i] = e], k, A \cup {n})
<1> DEFINE hs == Joined(x[i].handlers, Handlers(r.methods, n))
           e == [pattern |-> r.at, handlers |-> hs]
           y == [x EXCEPT ![i] = e]
           B == A \cup {n}
<1>1. /\ DOMAIN hs = DOMAIN x[i].handlers \cup r.methods
      /\ \A m \in DOMAIN x[i].handlers : hs[m] = x[i].handlers[m]
      /\ \A m \in r.methods : hs[m] = n
      /\ hs = [m \in DOMAIN hs |-> hs[m]]
  BY DEF Joined, Handlers
<1> HIDE DEF hs
<1>2. /\ r.methods \in SUBSET Method /\ r.methods # {} /\ r.at \in Pattern
      /\ n \in Nat /\ n \notin A /\ k[n] = r /\ \A j \in A : k[j] = l[j] /\ j < n
  BY RegexOf, LongerMeans
<1>3. x \in Seq(Entry) /\ x[i] \in Entry /\ DOMAIN x = 1..Len(x) /\ Len(x) \in Nat
  BY DEF Regexes
<1>4. e \in Entry
  <2>1. PICK S \in SUBSET Method : x[i].handlers \in [S -> Nat]
    BY <1>3 DEF Entry
  <2>2. hs \in [S \cup r.methods -> Nat]
    BY <1>1, <1>2, <2>1
  <2>3. S \cup r.methods \in SUBSET Method
    BY <1>2
  <2> QED BY <1>2, <2>2, <2>3 DEF Entry
<1>5. e.pattern = r.at /\ e.handlers = hs
  OBVIOUS
<1> HIDE DEF e
<1>6. /\ y \in Seq(Entry) /\ DOMAIN y = DOMAIN x
      /\ y[i] = e /\ \A j \in DOMAIN x : j # i => y[j] = x[j]
      /\ \A j \in DOMAIN x : y[j].pattern = x[j].pattern
  BY <1>3, <1>4, <1>5
<1> HIDE DEF y
<1>7. \A f, j : j \in A => (Owns(f, k, B, j) <=> Owns(f, l, A, j))
  BY <1>2 DEF Owns
<1>8. \A f : Owns(f, k, B, n) <=> f.pattern = r.at
  BY <1>2 DEF Owns
<1>9. ASSUME NEW j \in B, k[j].kind = "regex" PROVE \E h \in DOMAIN y : Enters(y[h], k, j)
  <2>1. CASE j = n
    <3>1. Enters(y[i], k, n)
      BY <1>1, <1>2, <1>5, <1>6 DEF Enters
    <3> QED BY <2>1, <3>1, <1>6
  <2>2. CASE j \in A
    <3>1. k[j] = l[j]
      BY <1>2, <2>2
    <3>2. PICK h \in DOMAIN x : Enters(x[h], l, j)
      BY <1>9, <2>2, <3>1 DEF Regexes
    <3>3. Enters(y[h], k, j)
      BY <1>1, <1>5, <1>6, <3>1, <3>2 DEF Enters
    <3> QED BY <1>6, <3>3
  <2> QED BY <2>1, <2>2
<1>10. ASSUME NEW j \in DOMAIN y PROVE Sound(y[j], k, B)
  <2>1. Sound(x[j], l, A)
    BY <1>6 DEF Regexes
  <2>2. \A h : Owns(x[j], l, A, h) => h \in A /\ k[h] = l[h]
    BY <1>2 DEF Owns
  <2>3. CASE j # i
    BY ZenonT(60), <1>6, <1>7, <2>1, <2>2, <2>3 DEF Sound
  <2>4. CASE j = i
    <3>1. DOMAIN hs # {}
      BY <1>1, <1>2
    <3>2. ASSUME NEW m \in DOMAIN x[i].handlers
          PROVE  Owns(e, k, B, hs[m]) /\ m \in k[hs[m]].methods
      <4>1. Owns(x[i], l, A, hs[m]) /\ m \in l[hs[m]].methods
        BY <1>1, <2>1, <2>4 DEF Sound
      <4>2. hs[m] \in A /\ k[hs[m]] = l[hs[m]]
        BY <2>2, <2>4, <4>1
      <4> QED BY <1>5, <4>1, <4>2 DEF Owns
    <3>3. \A m \in r.methods : Owns(e, k, B, hs[m]) /\ m \in k[hs[m]].methods
      BY <1>1, <1>2, <1>5, <1>8
    <3> QED BY <1>1, <1>5, <1>6, <2>4, <3>1, <3>2, <3>3 DEF Sound
  <2> QED BY <2>3, <2>4
<1>11. ASSUME NEW j \in DOMAIN y, NEW h \in DOMAIN y, j < h PROVE Older(y[j], y[h], k, B)
  <2>1. Older(x[j], x[h], l, A)
    BY <1>6, <1>11 DEF Regexes
  <2>2. y[j].pattern = x[j].pattern /\ y[h].pattern = x[h].pattern
    BY <1>6
  <2>3. ASSUME NEW g \in A, Owns(y[h], k, B, g) PROVE \E f \in B : Owns(y[j], k, B, f) /\ f < g
    <3>1. Owns(x[h], l, A, g)
      BY <1>2, <2>2, <2>3 DEF Owns
    <3>2. PICK f \in A : Owns(x[j], l, A, f) /\ f < g
      BY <2>1, <3>1 DEF Older
    <3>3. Owns(y[j], k, B, f)
      BY <1>2, <2>2, <3>2 DEF Owns
    <3> QED BY <3>2, <3>3
  <2>4. ASSUME Owns(y[h], k, B, n) PROVE \E f \in B : Owns(y[j], k, B, f) /\ f < n
    <3>1. x[h].pattern = x[i].pattern
      BY <1>8, <2>2, <2>4
    <3>2. Sound(x[h], l, A)
      BY <1>6 DEF Regexes
    <3>3. PICK m \in DOMAIN x[h].handlers : Owns(x[h], l, A, x[h].handlers[m])
      BY <3>2 DEF Sound
    <3>4. PICK f \in A : Owns(x[j], l, A, f)
      BY <2>1, <3>3 DEF Older, Owns
    <3>5. Owns(y[j], k, B, f) /\ f < n
      BY <1>2, <2>2, <3>4 DEF Owns
    <3> QED BY <3>5
  <2> QED BY <2>1, <2>2, <2>3, <2>4 DEF Older
<1>12. Regexes(y, k, B)
  BY <1>6, <1>9, <1>10, <1>11 DEF Regexes
<1> QED BY <1>12 DEF y, e, hs

(* The first method of a pattern.                                          *)
LEMMA EntryIsNew ==
    ASSUME NEW x, NEW l, NEW A, Regexes(x, l, A),
           NEW r \in Registration, r.kind = "regex", NEW k, NEW n, Longer(k, n, l, r, A),
           \A i \in DOMAIN x : x[i].pattern # r.at
    PROVE  LET e == [pattern |-> r.at, handlers |-> Handlers(r.methods, n)]
           IN  Regexes(Append(x, e), k, A \cup {n})
<1> DEFINE e == [pattern |-> r.at, handlers |-> Handlers(r.methods, n)]
           y == Append(x, e)
           B == A \cup {n}
           N == Len(x)
<1>1. e.pattern = r.at /\ DOMAIN e.handlers = r.methods /\ \A m \in r.methods : e.handlers[m] = n
  BY DEF Handlers
<1>2. /\ r.methods \in SUBSET Method /\ r.methods # {} /\ r.at \in Pattern
      /\ n \in Nat /\ n \notin A /\ k[n] = r /\ \A j \in A : k[j] = l[j] /\ j < n
  BY RegexOf, LongerMeans
<1>3. e \in Entry
  <2>1. Handlers(r.methods, n) \in [r.methods -> Nat]
    BY <1>2 DEF Handlers
  <2> QED BY <1>2, <2>1 DEF Entry
<1> HIDE DEF e
<1>4. /\ y \in Seq(Entry) /\ N \in Nat /\ DOMAIN x = 1..N /\ DOMAIN y = 1..(N + 1)
      /\ y[N + 1] = e /\ \A j \in 1..N : y[j] = x[j]
  BY <1>3 DEF Regexes
<1> HIDE DEF y, N
<1>5. \A f, j : j \in A => (Owns(f, k, B, j) <=> Owns(f, l, A, j))
  BY <1>2 DEF Owns
<1>6. \A f : Owns(f, k, B, n) <=> f.pattern = r.at
  BY <1>2 DEF Owns
<1>7. \A j \in A : ~Owns(e, l, A, j)
  BY <1>1 DEF Owns, Regexes, Enters
<1>8. ASSUME NEW j \in B, k[j].kind = "regex" PROVE \E h \in DOMAIN y : Enters(y[h], k, j)
  <2>1. CASE j = n
    <3>1. Enters(y[N + 1], k, n)
      BY <1>1, <1>2, <1>4 DEF Enters
    <3> QED BY <2>1, <3>1, <1>4
  <2>2. CASE j \in A
    <3>1. k[j] = l[j]
      BY <1>2, <2>2
    <3>2. PICK h \in DOMAIN x : Enters(x[h], l, j)
      BY <1>8, <2>2, <3>1 DEF Regexes
    <3>3. Enters(y[h], k, j) /\ h \in DOMAIN y
      BY <1>4, <3>1, <3>2 DEF Enters
    <3> QED BY <3>3
  <2> QED BY <2>1, <2>2
<1>9. ASSUME NEW j \in 1..N PROVE Sound(x[j], l, A) /\ Sound(y[j], k, B)
  <2>1. Sound(x[j], l, A)
    BY <1>4 DEF Regexes
  <2>2. \A h : Owns(x[j], l, A, h) => h \in A /\ k[h] = l[h]
    BY <1>2 DEF Owns
  <2> QED BY <1>4, <1>5, <2>1, <2>2 DEF Sound
<1>10. Sound(y[N + 1], k, B)
  BY <1>1, <1>2, <1>4, <1>6 DEF Sound
<1>11. ASSUME NEW j \in 1..N, NEW h \in 1..N, j < h PROVE Older(y[j], y[h], k, B)
  <2>1. Older(x[j], x[h], l, A)
    BY <1>4, <1>11 DEF Regexes
  <2>2. \A g \in B : Owns(x[h], k, B, g) => g \in A /\ Owns(x[h], l, A, g)
    BY <1>4, <1>5, <1>6
  <2>3. \A f \in A : Owns(x[j], l, A, f) => Owns(x[j], k, B, f)
    BY <1>5
  <2> QED BY <1>4, <2>1, <2>2, <2>3 DEF Older
<1>12. ASSUME NEW j \in 1..N PROVE Older(y[j], y[N + 1], k, B)
  <2>1. PICK m \in DOMAIN x[j].handlers : Owns(x[j], l, A, x[j].handlers[m])
    BY <1>9 DEF Sound
  <2>2. PICK f \in A : Owns(x[j], k, B, f) /\ f < n
    BY <1>2, <1>5, <2>1 DEF Owns
  <2>3. \A g \in B : Owns(e, k, B, g) => g = n
    BY <1>5, <1>7
  <2>4. x[j].pattern # e.pattern
    BY <1>1, <1>4
  <2> QED BY <1>4, <2>2, <2>3, <2>4 DEF Older
<1>13. Regexes(y, k, B)
  <2>1. \A j \in DOMAIN y : Sound(y[j], k, B)
    <3> SUFFICES ASSUME NEW j \in DOMAIN y PROVE Sound(y[j], k, B)
      OBVIOUS
    <3>1. j = N + 1 \/ j \in 1..N
      BY <1>4
    <3> QED BY <1>9, <1>10, <3>1
  <2>2. \A j, h \in DOMAIN y : j < h => Older(y[j], y[h], k, B)
    <3> SUFFICES ASSUME NEW j \in DOMAIN y, NEW h \in DOMAIN y, j < h
                 PROVE  Older(y[j], y[h], k, B)
      OBVIOUS
    <3>1. j \in 1..N /\ (h = N + 1 \/ h \in 1..N)
      BY <1>4
    <3> QED BY <1>11, <1>12, <3>1
  <2> QED BY <1>4, <1>8, <2>1, <2>2 DEF Regexes
<1> QED BY <1>13 DEF y, e

(* A regex registration: known pattern, new pattern or refused.            *)
LEMMA RegexAdds ==
    ASSUME NEW t, NEW l, NEW A, Holds(t, l, A),
           NEW r \in Registration, r.kind = "regex"
    PROVE  \E B : Holds(Add(t, r, Len(l) + 1), Append(l, r), B)
<1> DEFINE n == Len(l) + 1
           k == Append(l, r)
           x == t.regex
           known == {i \in DOMAIN x : x[i].pattern = r.at}
           B == A \cup {n}
<1>0. k \in Seq(Registration) /\ l \in Seq(Registration) /\ Ruled(l, A)
  BY DEF Holds
<1>1. Longer(k, n, l, r, A)
  BY <1>0, OneMore
<1> HIDE DEF n, k
<1>2. Regexes(x, l, A) /\ Statics(t.static, l, A)
      /\ t = [static |-> t.static, regex |-> x]
  BY DEF Holds
<1> HIDE DEF x
<1>3. Patterns(k, Before(A, n)) = Patterns(l, A)
  BY <1>1 DEF Longer, Patterns
<1>4. /\ Cardinality(Patterns(l, A)) = Len(x)
      /\ r.at \in Patterns(l, A) <=> known # {}
  BY <1>2, EntriesCount
<1>5. Admitted(k, A, n) <=> /\ \A j \in A : ~Clash(r, l[j])
                            /\ known = {} => Len(x) < MaxRoutes
  BY <1>1, <1>3, <1>4 DEF Admitted, Longer
<1>6. \A j : Clash(r, l[j]) <=> /\ l[j].kind = "regex" /\ l[j].at = r.at
                                /\ \E m \in r.methods : m \in l[j].methods
  BY DEF Clash
<1>7. n \in Nat /\ n \notin A /\ k[n] = r /\ \A j \in A : k[j] = l[j] /\ j < n
  BY <1>1, LongerMeans
<1>8. Statics(t.static, k, A) /\ Statics(t.static, k, B)
  BY <1>2, <1>7, StaticsStay
<1>9. ASSUME ~Admitted(k, A, n), Add(t, r, n) = t PROVE Holds(Add(t, r, n), k, A)
  <2>1. Regexes(x, k, A)
    BY <1>2, <1>7, RegexesStay
  <2> QED BY <1>0, <1>1, <1>2, <1>8, <1>9, <2>1 DEF Holds, Longer, x
<1>10. ASSUME NEW y, Admitted(k, A, n), Regexes(y, k, B),
              Add(t, r, n) = [static |-> t.static, regex |-> y]
       PROVE  Holds(Add(t, r, n), k, B)
  BY <1>0, <1>1, <1>8, <1>10 DEF Holds, Longer
<1>11. CASE known # {}
  <2> DEFINE i == CHOOSE j \in known : TRUE
             e == [pattern |-> r.at, handlers |-> Joined(x[i].handlers, Handlers(r.methods, n))]
             y == [x EXCEPT ![i] = e]
  <2>1. i \in DOMAIN x /\ x[i].pattern = r.at
    BY <1>11
  <2>2. Add(t, r, n) = IF r.methods \cap DOMAIN x[i].handlers # {} THEN t
                       ELSE [t EXCEPT !.regex[i].handlers = Joined(@, Handlers(r.methods, n))]
    BY <1>11 DEF Add, AddRegex, x
  <2> HIDE DEF i, known
  <2>3. \A j \in DOMAIN x : x[j].pattern = r.at => j = i
    BY <1>2, <2>1 DEF Regexes, Older
  <2>4. r.methods \cap DOMAIN x[i].handlers # {} <=> \E j \in A : Clash(r, l[j])
    <3>1. ASSUME NEW m \in r.methods, m \in DOMAIN x[i].handlers
          PROVE  \E j \in A : Clash(r, l[j])
      BY <1>2, <1>6, <2>1, <3>1 DEF Regexes, Sound, Owns
    <3>2. ASSUME NEW j \in A, Clash(r, l[j]) PROVE r.methods \cap DOMAIN x[i].handlers # {}
      <4>1. PICK h \in DOMAIN x : Enters(x[h], l, j)
        BY <1>2, <1>6, <3>2 DEF Regexes
      <4>2. h = i
        BY <1>6, <2>3, <3>2, <4>1 DEF Enters
      <4> QED BY <1>6, <3>2, <4>1, <4>2 DEF Enters
    <3> QED BY <3>1, <3>2
  <2>5. CASE r.methods \cap DOMAIN x[i].handlers # {}
    BY <1>5, <1>9, <2>2, <2>4, <2>5 DEF n, k
  <2>6. CASE r.methods \cap DOMAIN x[i].handlers = {}
    <3>1. Regexes(y, k, B)
      BY <1>1, <1>2, <2>1, <2>6, EntryGrows
    <3>2. Add(t, r, n) = [static |-> t.static, regex |-> y]
      <4>1. x[i] \in Entry
        BY <1>2, <2>1 DEF Regexes
      <4>2. [x[i] EXCEPT !.handlers = Joined(@, Handlers(r.methods, n))] = e
        BY <2>1, <4>1 DEF Entry
      <4>3. Add(t, r, n) = [t EXCEPT !.regex = [x EXCEPT ![i] =
                              [x[i] EXCEPT !.handlers = Joined(@, Handlers(r.methods, n))]]]
        BY <2>2, <2>6 DEF x
      <4> HIDE DEF e
      <4> QED BY <1>2, <4>2, <4>3
    <3> HIDE DEF y
    <3> QED BY <1>5, <1>10, <1>11, <2>4, <2>6, <3>1, <3>2 DEF n, k
  <2> QED BY <2>5, <2>6
<1>12. CASE known = {}
  <2> DEFINE e == [pattern |-> r.at, handlers |-> Handlers(r.methods, n)]
             y == Append(x, e)
  <2>1. Add(t, r, n) = IF Len(x) >= MaxRoutes THEN t ELSE [t EXCEPT !.regex = y]
    BY <1>12 DEF Add, AddRegex, x
  <2>2. \A i \in DOMAIN x : x[i].pattern # r.at
    BY <1>12
  <2>3. \A j \in A : ~Clash(r, l[j])
    BY <1>2, <1>6, <2>2 DEF Regexes, Enters
  <2>4. Admitted(k, A, n) <=> ~(Len(x) >= MaxRoutes)
    <3>1. Len(x) \in Nat /\ MaxRoutes \in Nat
      BY <1>2, RouterAssumption DEF Regexes
    <3> QED BY <1>5, <1>12, <2>3, <3>1
  <2>5. Regexes(y, k, B)
    BY <1>1, <1>2, <2>2, EntryIsNew
  <2> HIDE DEF y
  <2>6. [t EXCEPT !.regex = y] = [static |-> t.static, regex |-> y]
    BY <1>2
  <2> QED BY <1>9, <1>10, <2>1, <2>4, <2>5, <2>6 DEF n, k
<1> QED BY <1>11, <1>12

(* Every registration keeps the tables and the log together.               *)
Tables == \E A : Holds(table, log, A)

(* The empty tables stand for the empty log.                               *)
LEMMA TablesInit == RouterInit => Tables
<1> SUFFICES ASSUME RouterInit PROVE Holds(table, log, {})
  BY DEF Tables
<1>1. table.static = <<>> /\ table.regex = <<>> /\ log = <<>>
      /\ table = [static |-> table.static, regex |-> table.regex]
  BY DEF RouterInit, EmptyTable
<1> QED BY <1>1 DEF Holds, Ruled, Statics, Regexes

(* Every registration keeps the tables right for the log.                  *)
LEMMA TablesNext == ASSUME Tables, Register PROVE Tables'
<1>1. PICK A : Holds(table, log, A)
  BY DEF Tables
<1>2. PICK r \in Registration :
        table' = Add(table, r, Len(log) + 1) /\ log' = Append(log, r)
  BY DEF Register
<1>3. r.kind = "static" \/ r.kind = "regex"
  BY DEF Registration
<1>4. \E B : Holds(table', log', B)
  BY <1>1, <1>2, <1>3, StaticAdds, RegexAdds
<1> QED BY <1>4 DEF Tables

-----------------------------------------------------------------------------
(* What is promised of a request, of the accepted registrations A.         *)
Applies(l, i, path) == IF l[i].kind = "static" THEN l[i].at = path
                                               ELSE path \in Matched[l[i].at]
Fits(l, A, method, path) == {i \in A : Applies(l, i, path) /\ method \in l[i].methods}
Exact(l, A, method, path) == {i \in Fits(l, A, method, path) : l[i].kind = "static"}
Place(l, A, i) == Lowest({j \in A : l[j].kind = "regex" /\ l[j].at = l[i].at})
First(l, A, F) == CHOOSE i \in F : \A j \in F : Place(l, A, i) <= Place(l, A, j)
AllowList(l, A, path) == UNION {l[i].methods : i \in {j \in A : Applies(l, j, path)}}

(* The promise, in the operators above.                                    *)
LEMMA PromiseIs ==
    ASSUME NEW A, Holds(table, log, A), NEW method, NEW path
    PROVE  Promise(method, path) =
             IF Exact(log, A, method, path) # {} THEN Found(Lowest(Exact(log, A, method, path)))
             ELSE IF path \in LongPaths /\ \E i \in A : log[i].kind = "regex" THEN TooLarge
             ELSE IF Fits(log, A, method, path) # {}
                  THEN Found(First(log, A, Fits(log, A, method, path)))
             ELSE Allowed(AllowList(log, A, path))
<1>1. Accepted = A
  BY AcceptedIsRuled DEF Holds
<1>2. Promise(method, path) =
        IF Exact(log, Accepted, method, path) # {}
        THEN Found(Lowest(Exact(log, Accepted, method, path)))
        ELSE IF path \in LongPaths /\ \E i \in Accepted : log[i].kind = "regex" THEN TooLarge
        ELSE IF Fits(log, Accepted, method, path) # {}
             THEN Found(First(log, Accepted, Fits(log, Accepted, method, path)))
        ELSE Allowed(AllowList(log, Accepted, path))
  BY Zenon DEF Promise, Exact, Fits, First, AllowList, Place, Applies
<1> QED BY Zenon, <1>1, <1>2

(* The registrations are numbered, of one kind or the other.               *)
LEMMA Numbered ==
    ASSUME NEW t, NEW l, NEW A, Holds(t, l, A)
    PROVE  /\ A \in SUBSET Nat
           /\ \A i \in A : /\ l[i].kind = "static" \/ l[i].kind = "regex"
                           /\ l[i].methods \in SUBSET Method
<1>1. l \in Seq(Registration) /\ A \in SUBSET DOMAIN l
  BY DEF Holds, Ruled
<1>2. \A i \in A : i \in Nat /\ l[i] \in Registration
  BY <1>1
<1>3. \A r \in Registration : /\ r.kind = "static" \/ r.kind = "regex"
                              /\ r.methods \in SUBSET Method
  BY DEF Registration
<1> QED BY <1>2, <1>3

(* The entry of a method holds what fits first.                            *)
LEMMA FirstEntryWins ==
    ASSUME NEW t, NEW l, NEW A, Holds(t, l, A), NEW method, NEW path,
           Exact(l, A, method, path) = {},
           NEW s \in DOMAIN t.regex, method \in DOMAIN t.regex[s].handlers,
           Matches(t, s, path),
           \A j \in DOMAIN t.regex :
              method \in DOMAIN t.regex[j].handlers /\ Matches(t, j, path) => s <= j
    PROVE  /\ Fits(l, A, method, path) # {}
           /\ First(l, A, Fits(l, A, method, path)) = t.regex[s].handlers[method]
<1> DEFINE x == t.regex
           F == Fits(l, A, method, path)
           i == x[s].handlers[method]
<1>0. Regexes(x, l, A) /\ DOMAIN x = 1..Len(x) /\ Len(x) \in Nat
  BY DEF Holds, Regexes
<1>1. Owns(x[s], l, A, i) /\ method \in l[i].methods
  BY <1>0 DEF Regexes, Sound
<1>2. i \in F
  BY <1>1 DEF Owns, Fits, Applies, Matches
<1>3. ASSUME NEW j \in F
      PROVE  \E k \in DOMAIN x : s <= k /\ Owns(x[k], l, A, j) /\ x[k].handlers[method] = j
  <2>1. j \in A /\ l[j].kind = "regex" /\ path \in Matched[l[j].at] /\ method \in l[j].methods
    BY Numbered DEF Fits, Exact, Applies
  <2>2. PICK k \in DOMAIN x : Enters(x[k], l, j)
    BY <1>0, <2>1 DEF Regexes
  <2>3. Owns(x[k], l, A, j) /\ method \in DOMAIN x[k].handlers
        /\ x[k].handlers[method] = j /\ Matches(t, k, path)
    BY <2>1, <2>2 DEF Enters, Owns, Matches
  <2> QED BY <2>3
<1>4. ASSUME NEW k \in DOMAIN x, NEW j, Owns(x[k], l, A, j)
      PROVE  LET At == {h \in A : l[h].kind = "regex" /\ l[h].at = l[j].at}
             IN  /\ Place(l, A, j) \in At /\ \A h \in At : Place(l, A, j) <= h
                 /\ At \in SUBSET Nat
                 /\ \A h \in At : Owns(x[k], l, A, h)
                 /\ \A h : Owns(x[k], l, A, h) => h \in At
  <2> DEFINE At == {h \in A : l[h].kind = "regex" /\ l[h].at = l[j].at}
  <2>1. At \in SUBSET Nat /\ j \in At
    BY <1>4, Numbered DEF Owns
  <2>2. Lowest(At) \in At /\ \A h \in At : Lowest(At) <= h
    <3> HIDE DEF At
    <3> QED BY <2>1, LeastExists
  <2> QED BY <1>4, <2>1, <2>2 DEF Owns, Place
<1>5. ASSUME NEW j \in F, j # i PROVE Place(l, A, i) < Place(l, A, j)
  <2>1. PICK k \in DOMAIN x : s <= k /\ Owns(x[k], l, A, j) /\ x[k].handlers[method] = j
    BY <1>3
  <2>2. s < k
    BY <1>0, <1>5, <2>1
  <2>3. Owns(x[k], l, A, Place(l, A, j)) /\ Place(l, A, j) \in Nat
    BY <1>4, <2>1
  <2>4. PICK h \in A : Owns(x[s], l, A, h) /\ h < Place(l, A, j)
    BY <1>0, <2>2, <2>3 DEF Regexes, Older, Owns
  <2>5. Place(l, A, i) <= h /\ Place(l, A, i) \in Nat /\ h \in Nat
    BY <1>1, <1>4, <2>4
  <2> QED BY <2>3, <2>4, <2>5
<1>6. Place(l, A, i) \in Nat /\ \A j \in F : Place(l, A, j) \in Nat
  BY <1>1, <1>3, <1>4
<1> HIDE DEF F, i
<1>7. \A j \in F : Place(l, A, i) <= Place(l, A, j)
  BY <1>5, <1>6
<1>8. \A j \in F : (\A h \in F : Place(l, A, j) <= Place(l, A, h)) => j = i
  BY <1>2, <1>5, <1>6
<1>9. First(l, A, F) = i
  BY <1>2, <1>7, <1>8 DEF First
<1>10. F # {} /\ First(l, A, F) = i
  BY <1>2, <1>9
<1> QED BY Zenon, <1>10 DEF F, i

(* The methods of the entries that match are those of the accepted         *)
(* registrations that apply.                                               *)
LEMMA AllowListIs ==
    ASSUME NEW t, NEW l, NEW A, Holds(t, l, A), NEW path
    PROVE  /\ \A m : m \in StaticMethods(t, path) =>
                 \E i \in A : l[i].kind = "static" /\ Applies(l, i, path) /\ m \in l[i].methods
           /\ \A j \in DOMAIN t.regex : \A m \in DOMAIN t.regex[j].handlers :
                 Matches(t, j, path) => \E i \in A : Applies(l, i, path) /\ m \in l[i].methods
           /\ \A i \in A : \A m \in l[i].methods : Applies(l, i, path) =>
                 \/ m \in StaticMethods(t, path)
                 \/ \E j \in DOMAIN t.regex : m \in DOMAIN t.regex[j].handlers /\ Matches(t, j, path)
<1> DEFINE x == t.regex
<1>0. Regexes(x, l, A) /\ Statics(t.static, l, A)
  BY DEF Holds
<1>1. ASSUME NEW m \in StaticMethods(t, path)
      PROVE  \E i \in A : l[i].kind = "static" /\ Applies(l, i, path) /\ m \in l[i].methods
  <2>1. <<m, path>> \in DOMAIN t.static
    BY DEF StaticMethods
  <2>2. PICK i \in A : \E n \in l[i].methods : l[i].kind = "static" /\ <<m, path>> = <<n, l[i].at>>
    BY <1>0, <2>1 DEF Statics
  <2> QED BY <2>2 DEF Applies
<1>2. ASSUME NEW j \in DOMAIN x, NEW m \in DOMAIN x[j].handlers, Matches(t, j, path)
      PROVE  \E i \in A : Applies(l, i, path) /\ m \in l[i].methods
  <2>1. Sound(x[j], l, A)
    BY <1>0 DEF Regexes
  <2>2. Owns(x[j], l, A, x[j].handlers[m]) /\ m \in l[x[j].handlers[m]].methods
    BY <2>1 DEF Sound
  <2> QED BY <1>2, <2>2 DEF Owns, Applies, Matches
<1>3. ASSUME NEW i \in A, NEW m \in l[i].methods, Applies(l, i, path), m \notin StaticMethods(t, path)
      PROVE  \E j \in DOMAIN x : m \in DOMAIN x[j].handlers /\ Matches(t, j, path)
  <2>1. l[i].kind = "regex" /\ path \in Matched[l[i].at]
    BY <1>0, <1>3, Numbered DEF Statics, StaticMethods, Applies
  <2>2. PICK j \in DOMAIN x : Enters(x[j], l, i)
    BY <1>0, <2>1 DEF Regexes
  <2> QED BY <2>1, <2>2 DEF Enters, Matches
<1> QED BY <1>1, <1>2, <1>3

(* The result of resolve() over tables that hold what was accepted.        *)
LEMMA ResolveIsSound ==
    ASSUME NEW A, Holds(table, log, A), NEW method \in Method, NEW path \in Path,
           NEW late \in SUBSET DOMAIN table.regex
    PROVE  LET result == Resolve(table, method, path, late)
           IN  IF result = Late
               THEN late # {} /\ path \notin LongPaths /\ <<method, path>> \notin DOMAIN table.static
               ELSE result = Promise(method, path)
<1> DEFINE result == Resolve(table, method, path, late)
           key == <<method, path>>
           x == table.regex
           E == Exact(log, A, method, path)
           F == Fits(log, A, method, path)
           stops == {i \in DOMAIN x : method \in DOMAIN x[i].handlers
                                      /\ (i \in late \/ Matches(table, i, path))}
<1>0. /\ Statics(table.static, log, A) /\ Regexes(x, log, A)
      /\ DOMAIN x = 1..Len(x) /\ Len(x) \in Nat
  BY DEF Holds, Regexes
<1>1. \A h : Found(h) # Late
  BY DEF Found, Late
<1>2. \A methods : Allowed(methods) # Late
  BY DEF Allowed, Late
<1>3. TooLarge # Late
  BY DEF TooLarge, Late
<1>4. E # {} <=> key \in DOMAIN table.static
  <2>1. ASSUME NEW i \in E PROVE key \in DOMAIN table.static
    BY <1>0 DEF Statics, Exact, Fits, Applies
  <2>2. ASSUME key \in DOMAIN table.static PROVE E # {}
    <3>1. PICK i \in A : \E m \in log[i].methods :
            log[i].kind = "static" /\ key = <<m, log[i].at>>
      BY <1>0, <2>2 DEF Statics
    <3>2. i \in E
      BY <3>1 DEF Exact, Fits, Applies
    <3> QED BY <3>2
  <2> QED BY <2>1, <2>2
<1>5. ASSUME key \in DOMAIN table.static
      PROVE  result = Promise(method, path) /\ result # Late
  <2>1. \A i \in E : table.static[key] = i
    BY <1>0 DEF Statics, Exact, Fits, Applies
  <2>2. E \in SUBSET Nat /\ E # {}
    BY <1>4, <1>5, Numbered DEF Exact, Fits
  <2> HIDE DEF E
  <2>3. Lowest(E) = table.static[key]
    BY <2>1, <2>2, LeastExists
  <2>4. result = Found(table.static[key])
    BY <1>5 DEF Resolve
  <2>5. Promise(method, path) = Found(Lowest(E))
    BY <2>2, PromiseIs DEF E
  <2> HIDE DEF result
  <2> QED BY <1>1, <2>3, <2>4, <2>5
<1>6. ASSUME key \notin DOMAIN table.static, x = <<>>
      PROVE  result = Promise(method, path) /\ result # Late
  <2>1. DOMAIN x = {}
    BY <1>0, <1>6
  <2>2. \A i \in A : log[i].kind # "regex"
    BY <1>0, <2>1 DEF Regexes
  <2>3. F = {}
    BY <1>4, <1>6, <2>2, Numbered DEF Exact, Fits
  <2>4. Promise(method, path) = Allowed(AllowList(log, A, path))
    BY <1>4, <1>6, <2>2, <2>3, PromiseIs
  <2>5. StaticMethods(table, path) = AllowList(log, A, path)
    <3>1. \A m : m \in AllowList(log, A, path) <=>
                   \E i \in A : Applies(log, i, path) /\ m \in log[i].methods
      BY DEF AllowList
    <3>2. \A m : m \in StaticMethods(table, path) => m \in AllowList(log, A, path)
      BY <3>1, AllowListIs
    <3>3. \A m : m \in AllowList(log, A, path) => m \in StaticMethods(table, path)
      BY <2>1, <3>1, AllowListIs
    <3> QED BY <3>2, <3>3
  <2>6. result = Allowed(StaticMethods(table, path))
    BY <1>6 DEF Resolve
  <2> QED BY <1>2, <2>4, <2>5, <2>6
<1>7. ASSUME x # <<>> PROVE \E i \in A : log[i].kind = "regex"
  <2>1. 1 \in DOMAIN x
    BY <1>0, <1>7 DEF Regexes
  <2> QED BY <1>0, <2>1 DEF Regexes, Sound, Owns
<1>8. ASSUME key \notin DOMAIN table.static, x # <<>>, path \in LongPaths
      PROVE  result = Promise(method, path) /\ result # Late
  <2>1. result = TooLarge
    BY <1>8 DEF Resolve
  <2>2. Promise(method, path) = TooLarge
    BY <1>4, <1>7, <1>8, PromiseIs
  <2> QED BY <1>3, <2>1, <2>2
<1>9. ASSUME key \notin DOMAIN table.static, x # <<>>, path \notin LongPaths, stops = {}
      PROVE  \/ result = Promise(method, path) /\ result # Late
             \/ result = Late /\ late # {}
  <2> DEFINE others == {i \in DOMAIN x : method \notin DOMAIN x[i].handlers}
             listed == StaticMethods(table, path)
                       \cup UNION {DOMAIN x[i].handlers :
                                      i \in {j \in others : Matches(table, j, path)}}
  <2>1. result = AllowedAt(table, method, path, late)
    BY <1>9 DEF Resolve
  <2>2. CASE others \cap late # {}
    BY <2>1, <2>2 DEF AllowedAt
  <2>3. CASE others \cap late = {}
    <3>1. result = Allowed(listed)
      BY <2>1, <2>3 DEF AllowedAt
    <3>2. F = {}
      <4> SUFFICES ASSUME NEW i \in F PROVE FALSE
        OBVIOUS
      <4>1. i \in A /\ log[i].kind = "regex" /\ method \in log[i].methods
            /\ path \in Matched[log[i].at]
        BY <1>4, <1>9, Numbered DEF Exact, Fits, Applies
      <4>2. PICK j \in DOMAIN x : Enters(x[j], log, i)
        BY <1>0, <4>1 DEF Regexes
      <4>3. j \in stops
        BY <4>1, <4>2 DEF Enters, Matches
      <4> QED BY <1>9, <4>3
    <3>3. Promise(method, path) = Allowed(AllowList(log, A, path))
      BY <1>4, <1>9, <3>2, PromiseIs
    <3>4. \A m : m \in AllowList(log, A, path) <=>
                   \E i \in A : Applies(log, i, path) /\ m \in log[i].methods
      BY DEF AllowList
    <3>5. \A m : m \in listed <=>
            \/ m \in StaticMethods(table, path)
            \/ \E j \in DOMAIN x : m \in DOMAIN x[j].handlers /\ Matches(table, j, path)
      <4>1. \A j \in DOMAIN x : Matches(table, j, path) => j \in others
        BY <1>9
      <4> QED BY <4>1
    <3> HIDE DEF listed
    <3>6. listed = AllowList(log, A, path)
      BY <3>4, <3>5, AllowListIs
    <3> QED BY ZenonT(60), <1>2, <3>1, <3>3, <3>6
  <2> QED BY <2>2, <2>3
<1>10. ASSUME key \notin DOMAIN table.static, x # <<>>, path \notin LongPaths, stops # {}
       PROVE  \/ result = Promise(method, path) /\ result # Late
              \/ result = Late /\ late # {}
  <2> DEFINE s == Lowest(stops)
  <2>1. result = IF s \in late THEN Late ELSE Found(x[s].handlers[method])
    BY <1>10 DEF Resolve
  <2>2. stops \in SUBSET Nat
    BY <1>0
  <2>3. s \in stops /\ \A j \in stops : s <= j
    <3> HIDE DEF stops
    <3> QED BY <1>10, <2>2, LeastExists
  <2> HIDE DEF s
  <2>4. CASE s \in late
    BY <2>1, <2>4
  <2>5. CASE s \notin late
    <3>1. /\ s \in DOMAIN x /\ method \in DOMAIN x[s].handlers /\ Matches(table, s, path)
          /\ \A j \in DOMAIN x : method \in DOMAIN x[j].handlers /\ Matches(table, j, path) => s <= j
      BY <2>3, <2>5
    <3>2. E = {}
      BY <1>4, <1>10
    <3>3. F # {} /\ First(log, A, F) = x[s].handlers[method]
      BY <3>1, <3>2, FirstEntryWins
    <3>4. Promise(method, path) = Found(First(log, A, F))
      BY <1>10, <3>2, <3>3, PromiseIs
    <3> HIDE DEF stops, E, F, result
    <3>5. result = Found(x[s].handlers[method])
      BY <2>1, <2>5
    <3> QED BY <1>1, <3>3, <3>4, <3>5
  <2> QED BY <2>4, <2>5
<1> HIDE DEF result, E, F, stops, x
<1>11. IF result = Late
       THEN late # {} /\ path \notin LongPaths /\ key \notin DOMAIN table.static
       ELSE result = Promise(method, path)
  BY Zenon, <1>5, <1>6, <1>8, <1>9, <1>10
<1> QED BY Zenon, <1>11 DEF result, key

(* Tables that are right for the log resolve as promised.                  *)
LEMMA TablesAreSound == Tables => RoutingIsSound
  BY ResolveIsSound DEF Tables, RoutingIsSound

-----------------------------------------------------------------------------
(* Where the frames of a stream begin.                                     *)
LEMMA BeginSteps ==
    ASSUME NEW stream \in Seq(ClientFrame)
    PROVE  /\ Begin(stream, 1) = 0
           /\ \A i \in 1..(Len(stream) + 1) : Begin(stream, i) \in Nat
           /\ \A i \in 1..Len(stream) : Begin(stream, i + 1) = Begin(stream, i) + Size(stream[i])
           /\ \A i \in 1..Len(stream) : /\ stream[i].header \in Nat /\ stream[i].header >= 2
                                        /\ stream[i].payload \in Nat
                                        /\ stream[i].refused \in BOOLEAN
<1> DEFINE N == Len(stream)
           f == [i \in 1..N |-> Size(stream[i])]
           Sums(g, m) == g[0] = 0 /\ \A i \in 1..m : g[i] = g[i - 1] + f[i]
           P == {m \in 0..N : \E g \in [0..m -> Nat] : Sums(g, m)}
<1>1. N \in Nat /\ \A i \in 1..N : stream[i] \in ClientFrame
  OBVIOUS
<1> HIDE DEF N
<1>2. \A i \in 1..N : /\ stream[i].header \in Nat /\ stream[i].header >= 2
                      /\ stream[i].payload \in Nat /\ stream[i].refused \in BOOLEAN
  <2> SUFFICES ASSUME NEW i \in 1..N
               PROVE  /\ stream[i].header \in Nat /\ stream[i].header >= 2
                      /\ stream[i].payload \in Nat /\ stream[i].refused \in BOOLEAN
    OBVIOUS
  <2> DEFINE x == stream[i]
  <2>1. x \in ClientFrame
    BY <1>1
  <2> HIDE DEF x
  <2>2. x \in [header : Nat, payload : Nat, refused : BOOLEAN] /\ x.header >= 2
    BY <2>1, GuardAssumption
  <2>3. x.header \in Nat /\ x.payload \in Nat /\ x.refused \in BOOLEAN
    BY <2>2
  <2> QED BY <2>2, <2>3 DEF x
<1>3. \A i \in 1..N : f[i] \in Nat /\ f[i] = Size(stream[i])
  BY <1>2 DEF Size
<1> HIDE DEF f
<1>4. \A i \in 0..N : i \in P
  <2>1. 0 \in P
    <3> DEFINE g == [i \in 0..0 |-> 0]
    <3>1. g \in [0..0 -> Nat] /\ Sums(g, 0)
      OBVIOUS
    <3> HIDE DEF g
    <3> QED BY <1>1, <3>1
  <2>2. ASSUME NEW m \in 1..N, m - 1 \in P PROVE m \in P
    <3>0. m \in Nat \ {0} /\ m \in 0..N
      BY <1>1
    <3>1. PICK g \in [0..(m - 1) -> Nat] : Sums(g, m - 1)
      BY <2>2
    <3> DEFINE e == [i \in 0..m |-> IF i = m THEN g[m - 1] + f[m] ELSE g[i]]
    <3>2. e \in [0..m -> Nat]
      <4>1. m - 1 \in 0..(m - 1) /\ \A i \in 0..m : i # m => i \in 0..(m - 1)
        BY <3>0
      <4>2. g[m - 1] + f[m] \in Nat
        BY <1>3, <4>1
      <4> QED BY <4>1, <4>2
    <3>3. e[0] = 0
      BY <3>0, <3>1
    <3>4. ASSUME NEW i \in 1..m PROVE e[i] = e[i - 1] + f[i]
      <4>1. i = m \/ i \in 1..(m - 1)
        BY <3>0
      <4>2. i \in 0..m /\ i - 1 \in 0..m /\ i - 1 # m
        BY <3>0
      <4> QED BY <3>1, <4>1, <4>2
    <3> HIDE DEF e
    <3> QED BY <3>0, <3>2, <3>3, <3>4
  <2> HIDE DEF P
  <2> QED BY <1>1, <2>1, <2>2, CountUp
<1>5. PICK g \in [0..N -> Nat] : Sums(g, N)
  <2>1. N \in 0..N
    BY <1>1
  <2> HIDE DEF P
  <2>2. N \in P
    BY <1>4, <2>1
  <2> HIDE DEF Sums
  <2> QED BY <2>2 DEF P
<1>6. ASSUME NEW k \in 1..(N + 1) PROVE Begin(stream, k) = g[k - 1]
  <2> DEFINE n == k - 1
             Upto(u) == u = [j \in 0..(k - 1) |-> IF j = 0 THEN 0 ELSE u[j - 1] + Size(stream[j])]
             u == CHOOSE x : Upto(x)
             r == [i \in 0..(k - 1) |-> g[i]]
  <2>0. n \in Nat /\ n <= N
    BY <1>1
  <2>1. Upto(r)
    <3>1. \A j \in 1..n : j \in 1..N /\ j - 1 \in 0..n /\ r[j - 1] = g[j - 1]
      BY <1>1, <2>0
    <3>2. \A j \in 0..n : g[j] = IF j = 0 THEN 0 ELSE r[j - 1] + Size(stream[j])
      BY <1>3, <1>5, <2>0, <3>1
    <3> QED BY <2>0, <3>2
  <2>2. Upto(u)
    <3> HIDE DEF Upto, r
    <3> QED BY <2>1
  <2>3. Begin(stream, k) = u[k - 1]
    BY DEF Begin
  <2> HIDE DEF u
  <2> DEFINE S == {i \in 0..n : u[i] = g[i]}
  <2>4. 0 \in S
    BY <1>5, <2>0, <2>2
  <2>5. ASSUME NEW i \in 1..n, i - 1 \in S PROVE i \in S
    <3>1. u[i] = u[i - 1] + f[i]
      BY <1>1, <1>3, <2>0, <2>2
    <3>2. g[i] = g[i - 1] + f[i]
      BY <1>1, <1>5, <2>0
    <3> QED BY <3>1, <3>2, <2>5
  <2>6. n \in S
    <3>1. n \in 0..n
      BY <2>0
    <3> HIDE DEF S, n
    <3> QED BY <2>0, <2>4, <2>5, <3>1, CountUp
  <2> QED BY <2>3, <2>6
<1>7. Begin(stream, 1) = 0
  BY <1>1, <1>5, <1>6
<1>8. ASSUME NEW i \in 1..(N + 1) PROVE Begin(stream, i) \in Nat
  <2>1. i - 1 \in 0..N
    BY <1>1
  <2> QED BY <1>5, <1>6, <2>1
<1>9. ASSUME NEW i \in 1..N PROVE Begin(stream, i + 1) = Begin(stream, i) + Size(stream[i])
  <2>1. i \in 1..(N + 1) /\ i + 1 \in 1..(N + 1) /\ (i + 1) - 1 = i
    BY <1>1
  <2>2. Begin(stream, i + 1) = g[i] /\ Begin(stream, i) = g[i - 1]
    BY <1>6, <2>1
  <2> QED BY <1>3, <1>5, <2>2
<1> QED BY <1>2, <1>7, <1>8, <1>9 DEF N

(* Frames follow one another.                                              *)
LEMMA FramesInOrder ==
    ASSUME NEW stream \in Seq(ClientFrame), NEW i \in 1..Len(stream),
           NEW j \in 1..(Len(stream) + 1), i < j
    PROVE  /\ Begin(stream, i) \in Nat /\ Begin(stream, j) \in Nat
           /\ HeaderEnd(stream, i) <= Begin(stream, i + 1)
           /\ Begin(stream, i + 1) <= Begin(stream, j)
<1> DEFINE N == Len(stream)
           b(k) == Begin(stream, k)
           S == {d \in 0..(j - i - 1) : b(i + 1) <= b(i + 1 + d)}
<1>1. N \in Nat /\ i \in Nat /\ j \in Nat /\ j <= N + 1 /\ i >= 1
  OBVIOUS
<1>2. /\ \A k \in 1..(N + 1) : b(k) \in Nat
      /\ \A k \in 1..N : b(k + 1) = b(k) + Size(stream[k])
      /\ \A k \in 1..N : stream[k].header \in Nat /\ stream[k].payload \in Nat
  BY BeginSteps
<1> HIDE DEF N, b
<1>3. \A k \in 1..N : b(k) <= b(k + 1)
  <2> SUFFICES ASSUME NEW k \in 1..N PROVE b(k) <= b(k + 1)
    OBVIOUS
  <2>1. k \in 1..(N + 1)
    BY <1>1
  <2>2. Size(stream[k]) \in Nat
    BY <1>2 DEF Size
  <2> QED BY <1>2, <2>1, <2>2
<1>4. 0 \in S
  BY <1>1, <1>2
<1>5. ASSUME NEW d \in 1..(j - i - 1), d - 1 \in S PROVE d \in S
  <2>1. i + d \in 1..N /\ i + 1 + (d - 1) = i + d /\ (i + d) + 1 = i + 1 + d
    BY <1>1
  <2>2. b(i + 1) <= b(i + d) /\ b(i + d) <= b(i + 1 + d)
    BY <1>3, <1>5, <2>1
  <2>3. b(i + 1) \in Nat /\ b(i + d) \in Nat /\ b(i + 1 + d) \in Nat
    BY <1>1, <1>2
  <2> QED BY <1>1, <2>2, <2>3
<1>6. j - i - 1 \in S
  <2>1. j - i - 1 \in Nat /\ j - i - 1 \in 0..(j - i - 1)
    BY <1>1
  <2> HIDE DEF S
  <2> QED BY <1>4, <1>5, <2>1, CountUp
<1>7. b(i + 1) <= b(j)
  <2>1. i + 1 + (j - i - 1) = j
    BY <1>1
  <2> QED BY <1>6, <2>1
<1>8. HeaderEnd(stream, i) <= b(i + 1)
  <2>1. i \in 1..N /\ i \in 1..(N + 1)
    BY <1>1 DEF N
  <2>2. HeaderEnd(stream, i) = b(i) + stream[i].header
    BY DEF HeaderEnd, b
  <2> QED BY <1>2, <2>1, <2>2 DEF Size
<1> QED BY <1>1, <1>2, <1>7, <1>8 DEF b, N

-----------------------------------------------------------------------------
(* The guard, field by field: at, header, length, remaining, left,         *)
(* collected, forwarded, failed.                                           *)
GuardOf(a, h, l, r, f, c, o, b) ==
    [at |-> a, header |-> h, length |-> l, remaining |-> r,
     left |-> f, collected |-> c, forwarded |-> o, failed |-> b]
IsGuard(g) ==
    /\ g = GuardOf(g.at, g.header, g.length, g.remaining,
                   g.left, g.collected, g.forwarded, g.failed)
    /\ {g.header, g.length, g.remaining, g.left, g.collected, g.forwarded} \subseteq Nat
    /\ g.at \in Nat \ {0} /\ g.failed \in BOOLEAN

(* The fields of a guard are the values it was put together from.          *)
LEMMA FieldsAre ==
    ASSUME NEW a, NEW h, NEW l, NEW r, NEW f, NEW c, NEW o, NEW b
    PROVE  LET g == GuardOf(a, h, l, r, f, c, o, b)
           IN  /\ g.at = a /\ g.header = h /\ g.length = l /\ g.remaining = r
               /\ g.left = f /\ g.collected = c /\ g.forwarded = o /\ g.failed = b
  BY DEF GuardOf

SetAt(g, v) == [g EXCEPT !.at = v]
SetHeader(g, v) == [g EXCEPT !.header = v]
SetLength(g, v) == [g EXCEPT !.length = v]
SetRemaining(g, v) == [g EXCEPT !.remaining = v]
SetLeft(g, v) == [g EXCEPT !.left = v]
SetCollected(g, v) == [g EXCEPT !.collected = v]
SetForwarded(g, v) == [g EXCEPT !.forwarded = v]
SetFailed(g, v) == [g EXCEPT !.failed = v]
Failed(g) == SetFailed(g, TRUE)

(* Setting one field of a guard.                                           *)
LEMMA Sets ==
    ASSUME NEW a, NEW h, NEW l, NEW r, NEW f, NEW c, NEW o, NEW b, NEW v
    PROVE  LET g == GuardOf(a, h, l, r, f, c, o, b)
           IN  /\ SetAt(g, v) = GuardOf(v, h, l, r, f, c, o, b)
               /\ SetHeader(g, v) = GuardOf(a, v, l, r, f, c, o, b)
               /\ SetLength(g, v) = GuardOf(a, h, v, r, f, c, o, b)
               /\ SetRemaining(g, v) = GuardOf(a, h, l, v, f, c, o, b)
               /\ SetLeft(g, v) = GuardOf(a, h, l, r, v, c, o, b)
               /\ SetCollected(g, v) = GuardOf(a, h, l, r, f, v, o, b)
               /\ SetForwarded(g, v) = GuardOf(a, h, l, r, f, c, v, b)
               /\ SetFailed(g, v) = GuardOf(a, h, l, r, f, c, o, v)
  BY DEF GuardOf, SetAt, SetHeader, SetLength, SetRemaining, SetLeft, SetCollected,
         SetForwarded, SetFailed

(* The guard after a frame.                                                *)
LEMMA NextFrameIs ==
    ASSUME NEW a, NEW h, NEW l, NEW r, NEW f, NEW c, NEW o, NEW b
    PROVE  NextFrame(GuardOf(a, h, l, r, f, c, o, b)) = GuardOf(a + 1, h, 0, r, f, c, o, b)
<1> DEFINE g == GuardOf(a, h, l, r, f, c, o, b)
<1>1. SetLength(SetAt(g, a + 1), 0) = GuardOf(a + 1, h, 0, r, f, c, o, b)
  BY Sets
<1>2. g.at = a
  BY DEF GuardOf
<1>3. NextFrame(g) = SetLength(SetAt(g, a + 1), 0)
  <2> HIDE DEF g
  <2> QED BY <1>2 DEF NextFrame, SetLength, SetAt
<1> QED BY <1>1, <1>3

\* Where the guard is in a stream of which k bytes, less those it has left,
\* have been consumed.
AtHeader(g, stream, k) ==
    /\ g.remaining = 0
    /\ k - g.left = Begin(stream, g.at) + g.header
    /\ g.forwarded + g.collected = Begin(stream, g.at)
    /\ \/ g.header < 2 /\ g.length = 0
       \/ g.at <= Len(stream) /\ g.length = stream[g.at].header
              /\ 2 <= g.header /\ g.header < g.length
    /\ g.at = Len(stream) + 1 => g.header = 0
AtPayload(g, stream, k) ==
    /\ g.remaining > 0 /\ g.header = 0 /\ g.at <= Len(stream)
    /\ g.length = stream[g.at].header /\ ~stream[g.at].refused
    /\ g.remaining <= stream[g.at].payload
    /\ k - g.left = Begin(stream, g.at + 1) - g.remaining
    /\ g.forwarded + g.collected = k - g.left
AtRefused(g, stream, k) ==
    /\ g.at <= Len(stream) /\ stream[g.at].refused
    /\ HeaderEnd(stream, g.at) <= k
    /\ g.forwarded <= Begin(stream, g.at)
Inside(g, stream, k) ==
    /\ IsGuard(g) /\ g.at <= Len(stream) + 1 /\ g.left <= k
    /\ \A i \in 1..(g.at - 1) : ~stream[i].refused
    /\ IF g.failed THEN AtRefused(g, stream, k)
       ELSE AtHeader(g, stream, k) \/ AtPayload(g, stream, k)

(* The guard after a run of payload bytes.                                 *)
LEMMA TakePayloadIs ==
    ASSUME NEW a, NEW h, NEW l, NEW r \in Nat, NEW f \in Nat, NEW c \in Nat, NEW o, NEW b
    PROVE  TakePayload(GuardOf(a, h, l, r, f, c, o, b)) =
             LET n == LeastOf(r, f)
             IN  IF r = n THEN GuardOf(a + 1, h, 0, 0, f - n, c + n, o, b)
                 ELSE GuardOf(a, h, l, r - n, f - n, c + n, o, b)
<1> DEFINE n == LeastOf(r, f)
           g == GuardOf(a, h, l, r, f, c, o, b)
           t == GuardOf(a, h, l, r - n, f - n, c + n, o, b)
<1>1. n \in Nat
  BY DEF LeastOf
<1>2. g.left = f /\ g.remaining = r /\ g.collected = c
  BY DEF GuardOf
<1>3. SetCollected(SetRemaining(SetLeft(g, f - n), r - n), c + n) = t
  <2> HIDE DEF n
  <2> QED BY Sets
<1>4. t.remaining = r - n
  BY DEF GuardOf
<1>5. r = n => NextFrame(t) = GuardOf(a + 1, h, 0, 0, f - n, c + n, o, b)
  <2>1. NextFrame(t) = GuardOf(a + 1, h, 0, r - n, f - n, c + n, o, b)
    BY NextFrameIs
  <2> HIDE DEF t
  <2> QED BY <1>1, <2>1
<1> HIDE DEF t, g
<1>6. TakePayload(g) = IF r - n = 0 THEN NextFrame(t) ELSE t
  <2>1. LeastOf(g.remaining, g.left) = n
    BY <1>2
  <2> HIDE DEF n
  <2>2. [g EXCEPT !.left = @ - n, !.remaining = @ - n, !.collected = @ + n] = t
    BY <1>2, <1>3 DEF SetCollected, SetRemaining, SetLeft
  <2> QED BY <1>4, <2>1, <2>2 DEF TakePayload
<1> HIDE DEF n
<1>7. TakePayload(g) = IF r = n THEN GuardOf(a + 1, h, 0, 0, f - n, c + n, o, b) ELSE t
  BY <1>1, <1>5, <1>6
<1> QED BY <1>7 DEF t, g, n

(* The guard after bytes of a header.                                      *)
LEMMA TakeHeaderIs ==
    ASSUME NEW a, NEW h, NEW l, NEW r, NEW f, NEW c, NEW o, NEW b, NEW to,
           NEW n, n = LeastOf(to - h, f)
    PROVE  TakeHeader(GuardOf(a, h, l, r, f, c, o, b), to) = GuardOf(a, h + n, l, r, f - n, c, o, b)
<1> DEFINE g == GuardOf(a, h, l, r, f, c, o, b)
<1>1. g.left = f /\ g.header = h
  BY DEF GuardOf
<1>2. SetHeader(SetLeft(g, f - n), h + n) = GuardOf(a, h + n, l, r, f - n, c, o, b)
  BY Sets
<1> HIDE DEF g
<1>3. TakeHeader(g, to) = SetHeader(SetLeft(g, f - n), h + n)
  BY <1>1 DEF TakeHeader, SetHeader, SetLeft
<1> QED BY <1>2, <1>3 DEF g

(* The guard after the header of a frame that is not refused.              *)
LEMMA JudgeIs ==
    ASSUME NEW a, NEW h, NEW l, NEW r, NEW f, NEW c, NEW o, NEW b, NEW frame
    PROVE  Judge(GuardOf(a, h, l, r, f, c, o, b), frame) =
             IF frame.refused THEN Failed(GuardOf(a, h, l, r, f, c, o, b))
             ELSE IF frame.payload = 0 THEN GuardOf(a + 1, 0, 0, 0, f, c + h, o, b)
             ELSE GuardOf(a, 0, l, frame.payload, f, c + h, o, b)
<1> DEFINE g == GuardOf(a, h, l, r, f, c, o, b)
           t == GuardOf(a, 0, l, frame.payload, f, c + h, o, b)
<1>1. g.collected = c /\ g.header = h
  BY DEF GuardOf
<1>2. SetRemaining(SetHeader(SetCollected(g, c + h), 0), frame.payload) = t
  BY Sets
<1>4. NextFrame(t) = GuardOf(a + 1, 0, 0, frame.payload, f, c + h, o, b)
  BY NextFrameIs
<1> HIDE DEF g, t
<1>5. Judge(g, frame) = IF frame.refused THEN Failed(g)
                        ELSE IF frame.payload = 0 THEN NextFrame(t) ELSE t
  BY <1>1, <1>2 DEF Judge, SetRemaining, SetHeader, SetCollected, SetFailed, Failed
<1> QED BY <1>4, <1>5 DEF g, t

(* A turn that takes header bytes, n of them, ends in the first two, in    *)
(* the rest of them, or at the end of them.                                *)
HeaderTurn(t, stream, a, h, L, f, c, o, b, n) ==
    /\ h + n <= L
    /\ t = IF h + n < 2 THEN GuardOf(a, h + n, 0, 0, f - n, c, o, b)
           ELSE IF h + n < L THEN GuardOf(a, h + n, L, 0, f - n, c, o, b)
           ELSE Judge(GuardOf(a, h + n, L, 0, f - n, c, o, b), stream[a])
    /\ h + n < L => n = f

(* A turn of the loop in a header, field by field.                         *)
LEMMA HeaderTurnIs ==
    ASSUME NEW a, NEW h \in Nat, NEW l \in Nat, NEW f \in Nat \ {0}, NEW c, NEW o, NEW b,
           NEW stream, NEW L \in Nat, L = stream[a].header, L >= 2,
           (h < 2 /\ l = 0) \/ (l = L /\ 2 <= h /\ h < L)
    PROVE  \E n \in 1..f : HeaderTurn(Turn(GuardOf(a, h, l, 0, f, c, o, b), stream),
                                      stream, a, h, L, f, c, o, b, n)
<1> USE DEF HeaderTurn
<1> DEFINE g == GuardOf(a, h, l, 0, f, c, o, b)
           first == IF g.length > 0 THEN g ELSE TakeHeader(g, 2)
           sized == IF first.header < 2 THEN first
                    ELSE [first EXCEPT !.length = IF @ > 0 THEN @ ELSE stream[g.at].header]
           whole == IF sized.length = 0 THEN sized ELSE TakeHeader(sized, sized.length)
<1>1. Turn(g, stream) = IF whole.length = 0 \/ whole.header < whole.length THEN whole
                        ELSE Judge(whole, stream[a])
  <2>1. g.remaining = 0 /\ g.at = a
    BY DEF GuardOf
  <2> HIDE DEF g, first, sized, whole
  <2> QED BY <2>1 DEF Turn, first, sized, whole
<1>2. CASE l = L /\ 2 <= h /\ h < L
  <2> DEFINE n == LeastOf(L - h, f)
             w == GuardOf(a, h + n, L, 0, f - n, c, o, b)
  <2>1. n \in 1..f /\ h + n <= L /\ (h + n < L => n = f) /\ h + n >= 2
    BY <1>2 DEF LeastOf
  <2>2. first = g
    BY <1>2 DEF GuardOf
  <2>3. g.header = h /\ g.length = L /\ L > 0
    BY <1>2 DEF GuardOf
  <2>4. [g EXCEPT !.length = IF @ > 0 THEN @ ELSE stream[g.at].header] = g
    <3>1. SetLength(g, L) = g
      BY <1>2, Sets
    <3> HIDE DEF g
    <3> QED BY <2>3, <3>1 DEF SetLength
  <2> HIDE DEF g
  <2>5. sized = g
    BY <1>2, <2>2, <2>3, <2>4
  <2>6. whole = TakeHeader(g, L)
    BY <2>3, <2>5
  <2>7. whole = w
    <3>1. TakeHeader(g, L) = w
      <4>1. n = LeastOf(L - h, f)
        OBVIOUS
      <4> HIDE DEF n
      <4> QED BY <1>2, <4>1, TakeHeaderIs DEF g
    <3> QED BY <2>6, <3>1
  <2>8. w.length = L /\ w.header = h + n
    BY DEF GuardOf
  <2> HIDE DEF n, w, whole
  <2>9. Turn(g, stream) = IF h + n < L THEN w ELSE Judge(w, stream[a])
    BY <1>1, <2>3, <2>7, <2>8
  <2> QED BY <2>1, <2>9 DEF g, w
<1>3. CASE h < 2 /\ l = 0
  <2> DEFINE m == LeastOf(2 - h, f)
             u == GuardOf(a, h + m, 0, 0, f - m, c, o, b)
  <2>1. m \in 1..f /\ h + m <= 2 /\ (h + m < 2 => m = f) /\ f - m \in Nat
    BY <1>3 DEF LeastOf
  <2>2. first = u
    <3>1. g.length = 0
      BY <1>3 DEF GuardOf
    <3>2. TakeHeader(g, 2) = u
      <4>1. m = LeastOf(2 - h, f)
        OBVIOUS
      <4> HIDE DEF m
      <4> QED BY <1>3, <4>1, TakeHeaderIs
    <3> HIDE DEF g, u
    <3> QED BY <3>1, <3>2
  <2>3. u.header = h + m /\ u.length = 0
    BY DEF GuardOf
  <2>4. CASE h + m < 2
    <3>1. sized = u
      BY <2>2, <2>3, <2>4
    <3> HIDE DEF sized, u, g
    <3>2. Turn(g, stream) = u
      BY <1>1, <2>3, <3>1
    <3> QED BY <2>1, <2>4, <3>2 DEF u, g
  <2>5. CASE h + m = 2
    <3> DEFINE v == GuardOf(a, 2, L, 0, f - m, c, o, b)
               n == LeastOf(L - 2, f - m)
               w == GuardOf(a, 2 + n, L, 0, (f - m) - n, c, o, b)
    <3>1. g.at = a
      BY DEF GuardOf
    <3>2. [u EXCEPT !.length = IF @ > 0 THEN @ ELSE stream[a].header] = v
      <4>1. SetLength(u, L) = v
        BY <2>5, Sets
      <4> HIDE DEF u, v
      <4> QED BY <2>3, <4>1 DEF SetLength
    <3>3. v.length = L /\ v.header = 2 /\ L > 0
      BY DEF GuardOf
    <3>4. w = TakeHeader(v, L)
      <4>1. n = LeastOf(L - 2, f - m)
        OBVIOUS
      <4> HIDE DEF n, m
      <4> QED BY <4>1, TakeHeaderIs
    <3>5. w.length = L /\ w.header = 2 + n
      BY DEF GuardOf
    <3>6. n \in 0..(f - m) /\ 2 + n <= L /\ (2 + n < L => n = f - m)
      BY <2>1 DEF LeastOf
    <3> HIDE DEF g, u, v, w, n, m, first
    <3>7. sized = v
      BY <2>2, <2>3, <2>5, <3>1, <3>2
    <3> HIDE DEF sized
    <3>8. whole = w
      BY <3>3, <3>4, <3>7
    <3> HIDE DEF whole
    <3>9. Turn(g, stream) = IF 2 + n < L THEN w ELSE Judge(w, stream[a])
      BY <1>1, <3>3, <3>5, <3>8
    <3>10. m + n \in 1..f /\ h + (m + n) = 2 + n /\ f - (m + n) = (f - m) - n
           /\ (2 + n < L => m + n = f)
      BY <2>1, <2>5, <3>6
    <3>11. w = GuardOf(a, h + (m + n), L, 0, f - (m + n), c, o, b)
      BY <3>10 DEF w
    <3>12. /\ h + (m + n) <= L /\ ~(h + (m + n) < 2)
           /\ (h + (m + n) < L => m + n = f)
           /\ Turn(g, stream) = IF h + (m + n) < L THEN w ELSE Judge(w, stream[a])
      BY <3>6, <3>9, <3>10
    <3> QED BY <3>10, <3>11, <3>12 DEF g
  <2> QED BY <2>1, <2>4, <2>5
<1> QED BY <1>2, <1>3

(* A guard of typed fields is typed.                                       *)
LEMMA FieldsAreTyped ==
    ASSUME NEW a \in Nat \ {0}, NEW h \in Nat, NEW l \in Nat, NEW r \in Nat, NEW f \in Nat,
           NEW c \in Nat, NEW o \in Nat, NEW b \in BOOLEAN
    PROVE  IsGuard(GuardOf(a, h, l, r, f, c, o, b))
<1> DEFINE g == GuardOf(a, h, l, r, f, c, o, b)
<1>1. /\ g.at = a /\ g.header = h /\ g.length = l /\ g.remaining = r
      /\ g.left = f /\ g.collected = c /\ g.forwarded = o /\ g.failed = b
  BY FieldsAre
<1>2. g = GuardOf(g.at, g.header, g.length, g.remaining, g.left, g.collected, g.forwarded, g.failed)
  BY <1>1
<1> HIDE DEF g
<1> QED BY <1>1, <1>2 DEF IsGuard, g

\* The frames before the one the guard is at were not refused.
Passed(stream, a) == \A i \in 1..(a - 1) : ~stream[i].refused

(* One more frame has passed.                                              *)
LEMMA OnePassed ==
    ASSUME NEW stream, NEW a \in Nat \ {0}, Passed(stream, a), ~stream[a].refused,
           NEW next, next = a + 1
    PROVE  Passed(stream, next)
  BY DEF Passed

(* The three places a guard can be at, in numbers.                         *)
HeaderAt(stream, k, a, h, l, f, c, o) ==
    /\ a \in Nat \ {0} /\ a <= Len(stream) + 1
    /\ h \in Nat /\ l \in Nat /\ f \in Nat /\ c \in Nat /\ o \in Nat
    /\ f <= k /\ Passed(stream, a)
    /\ k - f = Begin(stream, a) + h /\ o + c = Begin(stream, a)
    /\ \/ h < 2 /\ l = 0
       \/ a <= Len(stream) /\ l = stream[a].header /\ 2 <= h /\ h < l
    /\ a = Len(stream) + 1 => h = 0
PayloadAt(stream, k, a, l, r, f, c, o) ==
    /\ a \in Nat \ {0} /\ a <= Len(stream)
    /\ l \in Nat /\ r \in Nat /\ r > 0 /\ f \in Nat /\ c \in Nat /\ o \in Nat
    /\ f <= k /\ Passed(stream, a) /\ ~stream[a].refused
    /\ l = stream[a].header /\ r <= stream[a].payload
    /\ k - f = Begin(stream, a + 1) - r /\ o + c = k - f
RefusedAt(stream, k, a, h, l, f, c, o) ==
    /\ a \in Nat \ {0} /\ a <= Len(stream)
    /\ h \in Nat /\ l \in Nat /\ f \in Nat /\ c \in Nat /\ o \in Nat
    /\ f <= k /\ Passed(stream, a) /\ stream[a].refused
    /\ HeaderEnd(stream, a) <= k /\ o <= Begin(stream, a)

(* Being in a header, put together from the fields.                        *)
LEMMA HeaderPlace ==
    ASSUME NEW stream \in Seq(ClientFrame), NEW k \in Nat, NEW a, NEW h, NEW l, NEW f, NEW c,
           NEW o, NEW b \in BOOLEAN, ~b, HeaderAt(stream, k, a, h, l, f, c, o)
    PROVE  LET t == GuardOf(a, h, l, 0, f, c, o, b) IN Inside(t, stream, k) /\ t.left = f
<1> DEFINE t == GuardOf(a, h, l, 0, f, c, o, b)
<1>1. /\ t.at = a /\ t.header = h /\ t.length = l /\ t.remaining = 0
      /\ t.left = f /\ t.collected = c /\ t.forwarded = o /\ t.failed = b
  BY FieldsAre
<1>2. IsGuard(t)
  BY FieldsAreTyped DEF HeaderAt
<1> HIDE DEF t
<1>3. AtHeader(t, stream, k)
  BY <1>1 DEF AtHeader, HeaderAt
<1> QED BY <1>1, <1>2, <1>3 DEF Inside, Passed, HeaderAt, t

(* Being in a payload, put together from the fields.                       *)
LEMMA PayloadPlace ==
    ASSUME NEW stream \in Seq(ClientFrame), NEW k \in Nat, NEW a, NEW l, NEW r, NEW f, NEW c,
           NEW o, NEW b \in BOOLEAN, ~b, PayloadAt(stream, k, a, l, r, f, c, o)
    PROVE  LET t == GuardOf(a, 0, l, r, f, c, o, b) IN Inside(t, stream, k) /\ t.left = f
<1> DEFINE t == GuardOf(a, 0, l, r, f, c, o, b)
<1>1. /\ t.at = a /\ t.header = 0 /\ t.length = l /\ t.remaining = r
      /\ t.left = f /\ t.collected = c /\ t.forwarded = o /\ t.failed = b
  BY FieldsAre
<1>2. IsGuard(t)
  BY FieldsAreTyped DEF PayloadAt
<1> HIDE DEF t
<1>3. AtPayload(t, stream, k)
  BY <1>1 DEF AtPayload, PayloadAt
<1>4. Len(stream) \in Nat
  OBVIOUS
<1> QED BY <1>1, <1>2, <1>3, <1>4 DEF Inside, Passed, PayloadAt, t

(* Having refused a frame, put together from the fields.                   *)
LEMMA RefusedPlace ==
    ASSUME NEW stream \in Seq(ClientFrame), NEW k \in Nat, NEW a, NEW h, NEW l, NEW f, NEW c,
           NEW o, NEW b \in BOOLEAN, RefusedAt(stream, k, a, h, l, f, c, o)
    PROVE  LET t == Failed(GuardOf(a, h, l, 0, f, c, o, b))
           IN  Inside(t, stream, k) /\ t.left = f
<1> DEFINE t == Failed(GuardOf(a, h, l, 0, f, c, o, b))
<1>0. PICK yes : yes = TRUE
  OBVIOUS
<1> DEFINE u == GuardOf(a, h, l, 0, f, c, o, yes)
<1>1. /\ u.at = a /\ u.left = f /\ u.forwarded = o /\ u.failed = yes
  BY FieldsAre
<1>2. IsGuard(u)
  BY <1>0, FieldsAreTyped DEF RefusedAt
<1>3. SetFailed(GuardOf(a, h, l, 0, f, c, o, b), yes) = u
  BY Sets
<1>4. t = u
  <2> HIDE DEF u
  <2> QED BY Zenon, <1>0, <1>3 DEF t, Failed
<1> HIDE DEF t, u
<1>5. AtRefused(u, stream, k)
  BY <1>1 DEF AtRefused, RefusedAt
<1>6. Len(stream) \in Nat
  OBVIOUS
<1>7. Inside(u, stream, k) /\ u.left = f
  BY <1>0, <1>1, <1>2, <1>5, <1>6 DEF Inside, Passed, RefusedAt
<1> QED BY Zenon, <1>4, <1>7 DEF t

(* A turn that takes payload bytes.                                        *)
LEMMA PayloadTurnKeeps ==
    ASSUME NEW stream \in Seq(ClientFrame), NEW k \in Nat, NEW a, NEW l, NEW r, NEW f, NEW c,
           NEW o, NEW b \in BOOLEAN, ~b, f > 0, PayloadAt(stream, k, a, l, r, f, c, o)
    PROVE  LET t == Turn(GuardOf(a, 0, l, r, f, c, o, b), stream)
           IN  Inside(t, stream, k) /\ t.left < f
<1> DEFINE n == LeastOf(r, f)
           f2 == f - n
           c2 == c + n
           r2 == r - n
           next == a + 1
           g == GuardOf(a, 0, l, r, f, c, o, b)
           u == GuardOf(next, 0, 0, 0, f2, c2, o, b)
           v == GuardOf(a, 0, l, r2, f2, c2, o, b)
<1>0. r \in Nat /\ f \in Nat /\ c \in Nat /\ o \in Nat /\ r > 0 /\ a \in Nat \ {0}
  BY DEF PayloadAt
<1>1. Turn(g, stream) = IF r = n THEN u ELSE v
  <2>1. TakePayload(g) = IF r = n THEN u ELSE v
    BY <1>0, TakePayloadIs
  <2>2. g.remaining = r
    BY FieldsAre
  <2> HIDE DEF g, u, v, n
  <2> QED BY <1>0, <2>1, <2>2 DEF Turn
<1>2. n \in Nat /\ n > 0 /\ n <= f /\ n <= r
  BY <1>0 DEF LeastOf
<1>3. Begin(stream, next) \in Nat /\ Len(stream) \in Nat /\ stream[a].payload \in Nat
  <2>1. Len(stream) \in Nat
    OBVIOUS
  <2>2. a \in 1..Len(stream) /\ next \in 1..(Len(stream) + 1)
    BY <2>1 DEF PayloadAt
  <2> HIDE DEF next
  <2> QED BY <2>2, BeginSteps
<1> HIDE DEF n
<1>4. f2 \in Nat /\ c2 \in Nat /\ r2 \in Nat /\ f2 < f /\ f2 <= k /\ (r2 = 0 <=> r = n)
  BY <1>0, <1>2 DEF PayloadAt
<1>5. Passed(stream, next)
  BY <1>0, OnePassed DEF PayloadAt
<1>6. CASE r = n
  <2>1. HeaderAt(stream, k, next, 0, 0, f2, c2, o)
    <3>1. next \in Nat \ {0} /\ next <= Len(stream) + 1
      BY <1>0, <1>3 DEF PayloadAt
    <3>2. k - f2 = Begin(stream, next) + 0 /\ o + c2 = Begin(stream, next)
      <4> DEFINE e == Begin(stream, next)
      <4>1. k - f = e - r /\ o + c = k - f /\ e \in Nat
        BY <1>3 DEF PayloadAt
      <4> HIDE DEF e
      <4>2. k - f2 = e + 0 /\ o + c2 = e
        BY <1>0, <1>2, <1>6, <4>1
      <4> QED BY <4>2 DEF e
    <3> HIDE DEF next, f2, c2
    <3> QED BY <1>0, <1>4, <1>5, <3>1, <3>2 DEF HeaderAt
  <2> HIDE DEF f2, c2, r2, next
  <2>2. Inside(u, stream, k) /\ u.left = f2
    BY <2>1, HeaderPlace
  <2> HIDE DEF u, v, g
  <2> QED BY <1>1, <1>4, <1>6, <2>2 DEF g
<1>7. CASE r # n
  <2>1. PayloadAt(stream, k, a, l, r2, f2, c2, o)
    <3>2. k - f2 = Begin(stream, next) - r2 /\ o + c2 = k - f2
      <4> DEFINE e == Begin(stream, next)
      <4>1. k - f = e - r /\ o + c = k - f /\ e \in Nat
        BY <1>3 DEF PayloadAt
      <4> HIDE DEF e
      <4>2. k - f2 = e - r2 /\ o + c2 = k - f2
        BY <1>0, <1>2, <4>1
      <4> QED BY <4>2 DEF e
    <3>3. r2 <= stream[a].payload
      BY <1>0, <1>2, <1>3 DEF PayloadAt
    <3> HIDE DEF f2, c2, r2
    <3> QED BY <1>4, <1>7, <3>2, <3>3 DEF PayloadAt
  <2> HIDE DEF f2, c2, r2, next
  <2>2. Inside(v, stream, k) /\ v.left = f2
    BY <2>1, PayloadPlace
  <2> HIDE DEF u, v, g
  <2> QED BY <1>1, <1>4, <1>7, <2>2 DEF g
<1> QED BY <1>6, <1>7

(* A turn that takes header bytes.                                         *)
LEMMA HeaderTurnKeeps ==
    ASSUME NEW stream \in Seq(ClientFrame), NEW k \in Nat, k <= Begin(stream, Len(stream) + 1),
           NEW a, NEW h, NEW l, NEW f, NEW c, NEW o, NEW b \in BOOLEAN, ~b, f > 0,
           HeaderAt(stream, k, a, h, l, f, c, o)
    PROVE  LET t == Turn(GuardOf(a, h, l, 0, f, c, o, b), stream)
           IN  Inside(t, stream, k) /\ t.left < f
<1> DEFINE L == stream[a].header
           B == Begin(stream, a)
           P == stream[a].payload
           t == Turn(GuardOf(a, h, l, 0, f, c, o, b), stream)
<1>0. /\ h \in Nat /\ l \in Nat /\ f \in Nat \ {0} /\ c \in Nat /\ o \in Nat /\ a \in Nat \ {0}
      /\ Len(stream) \in Nat /\ f <= k /\ Passed(stream, a) /\ k - f = B + h /\ o + c = B
  BY DEF HeaderAt
<1>1. B \in Nat /\ a \in 1..Len(stream)
  <2> DEFINE N == Len(stream)
  <2>1. \A i \in 1..(N + 1) : Begin(stream, i) \in Nat
    BY BeginSteps
  <2>2. a \in 1..(N + 1) /\ k <= Begin(stream, N + 1) /\ N \in Nat
    BY DEF HeaderAt
  <2> HIDE DEF N
  <2>3. a # N + 1
    <3> SUFFICES ASSUME a = N + 1 PROVE FALSE
      OBVIOUS
    <3>1. k <= B /\ B \in Nat
      BY <2>1, <2>2
    <3> HIDE DEF B
    <3> QED BY <1>0, <3>1
  <2>4. a \in 1..N
    BY <2>2, <2>3
  <2> QED BY <2>1, <2>2, <2>4 DEF N
<1>2. /\ L \in Nat /\ L >= 2 /\ P \in Nat
      /\ Begin(stream, a + 1) = B + L + P /\ HeaderEnd(stream, a) = B + L
  BY <1>1, BeginSteps DEF Size, HeaderEnd
<1>2a. (h < 2 /\ l = 0) \/ (l = L /\ 2 <= h /\ h < L)
  BY DEF HeaderAt
<1>3. PICK n \in 1..f : HeaderTurn(t, stream, a, h, L, f, c, o, b, n)
  <2>1. L = stream[a].header
    OBVIOUS
  <2>2. /\ h \in Nat /\ l \in Nat /\ f \in Nat \ {0} /\ L \in Nat /\ L >= 2
    BY <1>0, <1>2
  <2> HIDE DEF L
  <2> QED BY <1>2a, <2>1, <2>2, HeaderTurnIs
<1> DEFINE h2 == h + n
           f2 == f - n
           c2 == c + h2
           next == a + 1
<1> HIDE DEF B, L, P
<1>4. /\ h2 \in Nat /\ f2 \in Nat /\ c2 \in Nat /\ h2 <= L /\ f2 < f /\ f2 <= k
      /\ k - f2 = B + h2 /\ o + c2 = B + h2 /\ o <= B
      /\ next \in Nat \ {0} /\ next <= Len(stream) + 1 /\ a # Len(stream) + 1
      /\ a <= Len(stream) /\ a <= Len(stream) + 1
  <2>1. n \in Nat /\ n >= 1 /\ n <= f /\ h + n <= L
    BY <1>0, <1>3 DEF HeaderTurn
  <2>2. next \in Nat \ {0} /\ next <= Len(stream) + 1 /\ a # Len(stream) + 1
        /\ a <= Len(stream) /\ a <= Len(stream) + 1
    BY <1>0, <1>1
  <2> QED BY <1>0, <1>1, <1>2, <2>1, <2>2
<1>5. t = IF h2 < 2 THEN GuardOf(a, h2, 0, 0, f2, c, o, b)
          ELSE IF h2 < L THEN GuardOf(a, h2, L, 0, f2, c, o, b)
          ELSE Judge(GuardOf(a, h2, L, 0, f2, c, o, b), stream[a])
  BY <1>3 DEF HeaderTurn
<1>6. Judge(GuardOf(a, h2, L, 0, f2, c, o, b), stream[a]) =
        IF stream[a].refused THEN Failed(GuardOf(a, h2, L, 0, f2, c, o, b))
        ELSE IF P = 0 THEN GuardOf(next, 0, 0, 0, f2, c2, o, b)
        ELSE GuardOf(a, 0, L, P, f2, c2, o, b)
  <2> DEFINE frame == stream[a]
             x == GuardOf(a, h2, L, 0, f2, c, o, b)
             u == GuardOf(next, 0, 0, 0, f2, c2, o, b)
             v == GuardOf(a, 0, L, frame.payload, f2, c2, o, b)
  <2> HIDE DEF h2, f2, frame
  <2>1. Judge(x, frame) = IF frame.refused THEN Failed(x) ELSE IF frame.payload = 0 THEN u ELSE v
    BY JudgeIs
  <2> QED BY <2>1 DEF P, frame
<1>8. Begin(stream, next) = B + L + P /\ HeaderEnd(stream, a) = B + L
  BY <1>2
<1>9. ~stream[a].refused => Passed(stream, next)
  BY <1>0, OnePassed
<1> HIDE DEF h2, f2, c2, t
<1>10. CASE h2 < 2
  <2> DEFINE u == GuardOf(a, h2, 0, 0, f2, c, o, b)
  <2>1. HeaderAt(stream, k, a, h2, 0, f2, c, o)
    BY <1>0, <1>4, <1>10 DEF HeaderAt, B
  <2>2. Inside(u, stream, k) /\ u.left = f2
    BY <2>1, HeaderPlace
  <2> HIDE DEF u
  <2>3. t = u
    BY <1>5, <1>10 DEF u
  <2>4. Inside(t, stream, k) /\ t.left < f
    BY <1>4, <2>2, <2>3
  <2> QED BY <2>4 DEF t
<1>11. CASE 2 <= h2 /\ h2 < L
  <2> DEFINE u == GuardOf(a, h2, L, 0, f2, c, o, b)
  <2>1. HeaderAt(stream, k, a, h2, L, f2, c, o)
    BY <1>0, <1>2, <1>4, <1>11 DEF HeaderAt, B, L
  <2>2. Inside(u, stream, k) /\ u.left = f2
    BY <2>1, HeaderPlace
  <2> HIDE DEF u
  <2>3. t = u
    BY <1>4, <1>5, <1>11 DEF u
  <2>4. Inside(t, stream, k) /\ t.left < f
    BY <1>4, <2>2, <2>3
  <2> QED BY <2>4 DEF t
<1>12. CASE h2 = L
  <2>1. t = Judge(GuardOf(a, h2, L, 0, f2, c, o, b), stream[a])
    BY <1>2, <1>4, <1>5, <1>12
  <2>2. CASE stream[a].refused
    <3> DEFINE u == Failed(GuardOf(a, h2, L, 0, f2, c, o, b))
    <3>1. RefusedAt(stream, k, a, h2, L, f2, c, o)
      <4>1. HeaderEnd(stream, a) <= k
        BY <1>0, <1>1, <1>2, <1>4, <1>8, <1>12
      <4> QED BY <1>0, <1>2, <1>4, <2>2, <4>1 DEF RefusedAt, B
    <3>2. Inside(u, stream, k) /\ u.left = f2
      BY <3>1, RefusedPlace
    <3>3. t = u
      BY <1>6, <2>1, <2>2
    <3> HIDE DEF u
    <3>4. Inside(t, stream, k) /\ t.left < f
      BY <1>4, <3>2, <3>3
    <3> QED BY <3>4 DEF t
  <2>3. CASE ~stream[a].refused /\ P = 0
    <3> DEFINE u == GuardOf(next, 0, 0, 0, f2, c2, o, b)
    <3>1. HeaderAt(stream, k, next, 0, 0, f2, c2, o)
      <4>1. k - f2 = Begin(stream, next) + 0 /\ o + c2 = Begin(stream, next)
        <5> DEFINE e == Begin(stream, next)
        <5>1. e = B + L + P
          BY <1>8
        <5> HIDE DEF e
        <5>2. k - f2 = e + 0 /\ o + c2 = e
          BY <1>0, <1>1, <1>2, <1>4, <1>12, <2>3, <5>1
        <5> QED BY <5>2 DEF e
      <4> HIDE DEF next
      <4> QED BY <1>0, <1>4, <1>9, <2>3, <4>1 DEF HeaderAt
    <3>2. Inside(u, stream, k) /\ u.left = f2
      <4> HIDE DEF next
      <4> QED BY <3>1, HeaderPlace
    <3>3. t = u
      BY <1>6, <2>1, <2>3
    <3> HIDE DEF u
    <3>4. Inside(t, stream, k) /\ t.left < f
      BY <1>4, <3>2, <3>3
    <3> QED BY <3>4 DEF t
  <2>4. CASE ~stream[a].refused /\ P # 0
    <3> DEFINE u == GuardOf(a, 0, L, P, f2, c2, o, b)
    <3>1. PayloadAt(stream, k, a, L, P, f2, c2, o)
      <4>1. k - f2 = Begin(stream, a + 1) - P /\ o + c2 = k - f2
        <5> DEFINE e == Begin(stream, a + 1)
        <5>1. e = B + L + P
          BY <1>8
        <5> HIDE DEF e
        <5>2. k - f2 = e - P /\ o + c2 = k - f2
          BY <1>0, <1>1, <1>2, <1>4, <1>12, <5>1
        <5> QED BY <5>2 DEF e
      <4>2. P > 0 /\ P <= stream[a].payload /\ L = stream[a].header
        BY <1>2, <2>4 DEF P, L
      <4> QED BY <1>0, <1>2, <1>4, <2>4, <4>1, <4>2 DEF PayloadAt
    <3>2. Inside(u, stream, k) /\ u.left = f2
      BY <3>1, PayloadPlace
    <3>3. t = u
      BY <1>6, <2>1, <2>4
    <3> HIDE DEF u
    <3>4. Inside(t, stream, k) /\ t.left < f
      BY <1>4, <3>2, <3>3
    <3> QED BY <3>4 DEF t
  <2> QED BY <2>2, <2>3, <2>4
<1>13. h2 < 2 \/ (2 <= h2 /\ h2 < L) \/ h2 = L
  BY <1>2, <1>4
<1> QED BY <1>10, <1>11, <1>12, <1>13

(* A turn of the loop consumes a byte and leaves the guard inside.         *)
LEMMA TurnKeeps ==
    ASSUME NEW stream \in Seq(ClientFrame), NEW k \in Nat, k <= Begin(stream, Len(stream) + 1),
           NEW g, Inside(g, stream, k), ~g.failed, g.left > 0
    PROVE  Inside(Turn(g, stream), stream, k) /\ Turn(g, stream).left < g.left
<1> DEFINE a == g.at
           h == g.header
           l == g.length
           r == g.remaining
           f == g.left
           c == g.collected
           o == g.forwarded
           b == g.failed
<1>1. /\ a \in Nat \ {0} /\ h \in Nat /\ l \in Nat /\ r \in Nat /\ f \in Nat /\ c \in Nat
      /\ o \in Nat /\ b \in BOOLEAN /\ ~b /\ f > 0
      /\ a <= Len(stream) + 1 /\ f <= k /\ Passed(stream, a)
  BY DEF Inside, IsGuard, Passed
<1>2. g = GuardOf(a, h, l, r, f, c, o, b)
  BY DEF Inside, IsGuard
<1>3. AtHeader(g, stream, k) \/ AtPayload(g, stream, k)
  BY DEF Inside
<1>4. CASE AtHeader(g, stream, k)
  <2>1. r = 0 /\ HeaderAt(stream, k, a, h, l, f, c, o)
    BY <1>1, <1>4 DEF AtHeader, HeaderAt
  <2> HIDE DEF a, h, l, r, f, c, o, b
  <2> DEFINE t == Turn(GuardOf(a, h, l, 0, f, c, o, b), stream)
  <2>2. Inside(t, stream, k) /\ t.left < f
    BY <1>1, <2>1, HeaderTurnKeeps
  <2>3. t = Turn(g, stream)
    BY <1>2, <2>1
  <2> HIDE DEF t
  <2> QED BY <2>2, <2>3 DEF f
<1>5. CASE AtPayload(g, stream, k)
  <2>1. h = 0 /\ PayloadAt(stream, k, a, l, r, f, c, o)
    BY <1>1, <1>5 DEF AtPayload, PayloadAt
  <2> HIDE DEF a, h, l, r, f, c, o, b
  <2> DEFINE t == Turn(GuardOf(a, 0, l, r, f, c, o, b), stream)
  <2>2. Inside(t, stream, k) /\ t.left < f
    BY <1>1, <2>1, PayloadTurnKeeps
  <2>3. t = Turn(g, stream)
    BY <1>2, <2>1
  <2> HIDE DEF t
  <2> QED BY <2>2, <2>3 DEF f
<1> QED BY <1>3, <1>4, <1>5

(* The turns of one feed() are the steps of a function.                    *)
FeedTurns(g, stream, n) ==
    LET after[i \in 0..n] == IF i = 0 THEN [g EXCEPT !.left = n]
                                      ELSE TurnIfLeft(after[i - 1], stream)
    IN  after

(* The turns of feed() are the function that GuardFeed defines.            *)
LEMMA FeedSteps ==
    ASSUME NEW g, NEW stream, NEW n \in Nat
    PROVE  LET after == FeedTurns(g, stream, n)
           IN  /\ after[0] = SetLeft(g, n)
               /\ \A i \in 1..n : after[i] = TurnIfLeft(after[i - 1], stream)
<1> DEFINE start == [g EXCEPT !.left = n]
           Steps(u, m) == /\ u = [i \in 0..m |-> u[i]] /\ u[0] = start
                          /\ \A i \in 1..m : u[i] = TurnIfLeft(u[i - 1], stream)
           P == {m \in 0..n : \E u : Steps(u, m)}
<1> HIDE DEF start
<1>1. 0 \in P
  <2> DEFINE u == [i \in 0..0 |-> start]
  <2>1. Steps(u, 0)
    OBVIOUS
  <2> HIDE DEF u
  <2> QED BY <2>1
<1>2. ASSUME NEW m \in 1..n, m - 1 \in P PROVE m \in P
  <2>1. PICK u : Steps(u, m - 1)
    BY <1>2
  <2> DEFINE e == [i \in 0..m |-> IF i = m THEN TurnIfLeft(u[m - 1], stream) ELSE u[i]]
  <2>2. e = [i \in 0..m |-> e[i]] /\ e[0] = start
    BY <2>1
  <2>3. ASSUME NEW i \in 1..m PROVE e[i] = TurnIfLeft(e[i - 1], stream)
    <3>1. i - 1 \in 0..m /\ i - 1 # m /\ i \in 0..m /\ (i = m \/ i \in 1..(m - 1))
      OBVIOUS
    <3>2. e[i - 1] = u[i - 1]
      BY <3>1
    <3>3. CASE i = m
      BY <3>1, <3>2, <3>3
    <3>4. CASE i \in 1..(m - 1)
      BY <2>1, <3>1, <3>2, <3>4
    <3> QED BY <3>1, <3>3, <3>4
  <2>4. m \in 0..n
    OBVIOUS
  <2> HIDE DEF e
  <2>5. Steps(e, m)
    BY <2>2, <2>3
  <2> HIDE DEF Steps
  <2> QED BY <2>4, <2>5
<1>3. n \in P
  <2>1. n \in 0..n
    OBVIOUS
  <2> HIDE DEF P
  <2> QED BY <1>1, <1>2, <2>1, CountUp
<1> DEFINE Is(u) == u = [i \in 0..n |-> IF i = 0 THEN start ELSE TurnIfLeft(u[i - 1], stream)]
           after == CHOOSE u : Is(u)
<1>4. \E u : Is(u)
  <2>1. PICK u : Steps(u, n)
    BY <1>3
  <2>2. \A i \in 0..n : u[i] = IF i = 0 THEN start ELSE TurnIfLeft(u[i - 1], stream)
    <3>1. u[0] = start /\ \A i \in 1..n : u[i] = TurnIfLeft(u[i - 1], stream)
      BY Zenon, <2>1
    <3> HIDE DEF Steps
    <3> QED BY <3>1
  <2>3. u = [i \in 0..n |-> u[i]]
    BY <2>1
  <2> HIDE DEF Steps
  <2>4. Is(u)
    BY <2>2, <2>3
  <2> HIDE DEF Is
  <2> QED BY <2>4
<1>5. Is(after)
  <2> HIDE DEF Is
  <2> QED BY <1>4
<1>6. after = FeedTurns(g, stream, n)
  BY DEF FeedTurns, start
<1> HIDE DEF after
<1>7. /\ after[0] = start
      /\ \A i \in 1..n : after[i] = TurnIfLeft(after[i - 1], stream)
  BY <1>5
<1>8. start = SetLeft(g, n)
  BY DEF start, SetLeft
<1> QED BY <1>6, <1>7, <1>8

\* Between two calls of feed(), the guard has no chunk to look at.
Fed(g, stream, k) == Inside(g, stream, k) /\ g.left = 0 /\ g.collected = 0

(* What a guard that is inside its stream is, in numbers.                  *)
LEMMA PlaceOf ==
    ASSUME NEW stream \in Seq(ClientFrame), NEW k \in Nat, NEW g, Inside(g, stream, k),
           NEW a, a = g.at, NEW h, h = g.header, NEW l, l = g.length, NEW r, r = g.remaining,
           NEW f, f = g.left, NEW c, c = g.collected, NEW o, o = g.forwarded,
           NEW b, b = g.failed
    PROVE  /\ g = GuardOf(a, h, l, r, f, c, o, b)
           /\ a \in Nat \ {0} /\ h \in Nat /\ l \in Nat /\ r \in Nat /\ f \in Nat /\ c \in Nat
           /\ o \in Nat /\ b \in BOOLEAN /\ a <= Len(stream) + 1 /\ f <= k /\ Passed(stream, a)
           /\ b => AtRefused(g, stream, k)
           /\ ~b => \/ r = 0 /\ HeaderAt(stream, k, a, h, l, f, c, o)
                    \/ h = 0 /\ PayloadAt(stream, k, a, l, r, f, c, o)
<1>1. g = GuardOf(a, h, l, r, f, c, o, b)
  BY DEF Inside, IsGuard
<1>2. /\ a \in Nat \ {0} /\ h \in Nat /\ l \in Nat /\ r \in Nat /\ f \in Nat /\ c \in Nat
      /\ o \in Nat /\ b \in BOOLEAN /\ a <= Len(stream) + 1 /\ f <= k /\ Passed(stream, a)
  BY DEF Inside, IsGuard, Passed
<1>3. (b => AtRefused(g, stream, k)) /\ (~b => AtHeader(g, stream, k) \/ AtPayload(g, stream, k))
  BY DEF Inside
<1>4. AtHeader(g, stream, k) => r = 0 /\ HeaderAt(stream, k, a, h, l, f, c, o)
  BY <1>2 DEF AtHeader, HeaderAt
<1>5. AtPayload(g, stream, k) => h = 0 /\ PayloadAt(stream, k, a, l, r, f, c, o)
  BY <1>2 DEF AtPayload, PayloadAt
<1> QED BY <1>1, <1>2, <1>3, <1>4, <1>5

(* A new chunk changes nothing but what is left to look at.                *)
LEMMA NewChunk ==
    ASSUME NEW stream \in Seq(ClientFrame), NEW k \in Nat, NEW g, Fed(g, stream, k), ~g.failed,
           NEW n \in Nat
    PROVE  Inside(SetLeft(g, n), stream, k + n) /\ SetLeft(g, n).left = n
<1> DEFINE a == g.at
           h == g.header
           l == g.length
           r == g.remaining
           o == g.forwarded
           b == g.failed
           kn == k + n
<1>0. g.left = 0 /\ g.collected = 0 /\ Inside(g, stream, k)
  BY DEF Fed
<1>1. /\ g = GuardOf(a, h, l, r, 0, 0, o, b)
      /\ b \in BOOLEAN /\ ~b
      /\ \/ r = 0 /\ HeaderAt(stream, k, a, h, l, 0, 0, o)
         \/ h = 0 /\ PayloadAt(stream, k, a, l, r, 0, 0, o)
  BY <1>0, PlaceOf
<1>2. kn \in Nat /\ kn - n = k /\ k - 0 = k /\ n <= kn
  OBVIOUS
<1> HIDE DEF a, h, l, r, o, b, kn
<1>3. SetLeft(g, n) = GuardOf(a, h, l, r, n, 0, o, b)
  <2>1. SetLeft(GuardOf(a, h, l, r, 0, 0, o, b), n) = GuardOf(a, h, l, r, n, 0, o, b)
    BY Sets
  <2> QED BY <1>1, <2>1
<1>4. CASE r = 0 /\ HeaderAt(stream, k, a, h, l, 0, 0, o)
  <2> DEFINE t == GuardOf(a, h, l, 0, n, 0, o, b)
  <2>1. HeaderAt(stream, kn, a, h, l, n, 0, o)
    BY <1>2, <1>4 DEF HeaderAt
  <2>2. Inside(t, stream, kn) /\ t.left = n
    BY <1>1, <1>2, <2>1, HeaderPlace
  <2>3. t = SetLeft(g, n)
    BY <1>3, <1>4
  <2> HIDE DEF t
  <2> QED BY <2>2, <2>3 DEF kn
<1>5. CASE h = 0 /\ PayloadAt(stream, k, a, l, r, 0, 0, o)
  <2> DEFINE t == GuardOf(a, 0, l, r, n, 0, o, b)
  <2>1. PayloadAt(stream, kn, a, l, r, n, 0, o)
    BY <1>2, <1>5 DEF PayloadAt
  <2>2. Inside(t, stream, kn) /\ t.left = n
    BY <1>1, <1>2, <2>1, PayloadPlace
  <2>3. t = SetLeft(g, n)
    BY <1>3, <1>5
  <2> HIDE DEF t
  <2> QED BY <2>2, <2>3 DEF kn
<1> QED BY <1>1, <1>4, <1>5

(* What is collected at the end of a chunk is forwarded, unless the guard  *)
(* raised.                                                                 *)
Forwarding(t) ==
    [t EXCEPT !.forwarded = IF t.failed THEN @ ELSE @ + t.collected,
              !.collected = 0, !.left = 0]

(* With nothing left of its chunk, the guard has been fed.                 *)
LEMMA ChunkEnds ==
    ASSUME NEW stream \in Seq(ClientFrame), NEW k \in Nat, NEW t, Inside(t, stream, k),
           t.failed \/ t.left = 0
    PROVE  Fed(Forwarding(t), stream, k) /\ Forwarding(t).failed = t.failed
<1> DEFINE a == t.at
           h == t.header
           l == t.length
           r == t.remaining
           f == t.left
           c == t.collected
           o == t.forwarded
           b == t.failed
           o2 == IF b THEN o ELSE o + c
           s == GuardOf(a, h, l, r, 0, 0, o2, b)
<1>1. /\ t = GuardOf(a, h, l, r, f, c, o, b)
      /\ a \in Nat \ {0} /\ h \in Nat /\ l \in Nat /\ r \in Nat /\ f \in Nat /\ c \in Nat
      /\ o \in Nat /\ b \in BOOLEAN /\ a <= Len(stream) + 1 /\ f <= k /\ Passed(stream, a)
      /\ b => AtRefused(t, stream, k)
      /\ ~b => \/ r = 0 /\ HeaderAt(stream, k, a, h, l, f, c, o)
               \/ h = 0 /\ PayloadAt(stream, k, a, l, r, f, c, o)
  BY SMTT(30), PlaceOf
<1>2. o2 \in Nat
  BY <1>1
<1>3. Forwarding(t) = s
  <2>1. SetForwarded(GuardOf(a, h, l, r, f, c, o, b), o2) = GuardOf(a, h, l, r, f, c, o2, b)
    BY Sets
  <2>2. SetCollected(GuardOf(a, h, l, r, f, c, o2, b), 0) = GuardOf(a, h, l, r, f, 0, o2, b)
    BY Sets
  <2>3. SetLeft(GuardOf(a, h, l, r, f, 0, o2, b), 0) = s
    BY Sets
  <2>4. Forwarding(t) = SetLeft(SetCollected(SetForwarded(t, o2), 0), 0)
    BY DEF Forwarding, SetLeft, SetCollected, SetForwarded
  <2> HIDE DEF a, h, l, r, f, c, o, b, o2, s
  <2> QED BY <1>1, <2>1, <2>2, <2>3, <2>4
<1>4. s.left = 0 /\ s.collected = 0 /\ s.failed = b
  <2> HIDE DEF a, h, l, r, f, c, o, b, o2
  <2> QED BY FieldsAre
<1>5. CASE b
  <2>1. a <= Len(stream) /\ stream[a].refused /\ HeaderEnd(stream, a) <= k
        /\ o2 <= Begin(stream, a)
    BY <1>1, <1>5 DEF AtRefused
  <2> HIDE DEF a, h, l, r, f, c, o, b, o2
  <2>2. s.at = a /\ s.forwarded = o2 /\ s.left = 0 /\ s.failed = b
    BY FieldsAre
  <2>3. IsGuard(s)
    <3>1. 0 \in Nat
      OBVIOUS
    <3> QED BY <1>1, <1>2, <3>1, FieldsAreTyped
  <2> HIDE DEF s
  <2>4. AtRefused(s, stream, k)
    BY <2>1, <2>2 DEF AtRefused
  <2>5. Inside(s, stream, k)
    BY <1>1, <1>5, <2>2, <2>3, <2>4 DEF Inside, Passed
  <2> QED BY <1>3, <1>4, <2>5 DEF Fed, b
<1>6. CASE ~b
  <2>1. f = 0 /\ o2 = o + c
    BY <1>6
  <2>2. CASE r = 0 /\ HeaderAt(stream, k, a, h, l, f, c, o)
    <3> HIDE DEF a, h, l, r, f, c, o, b, o2
    <3> DEFINE u == GuardOf(a, h, l, 0, 0, 0, o2, b)
    <3>1. HeaderAt(stream, k, a, h, l, 0, 0, o2)
      BY <1>1, <2>1, <2>2 DEF HeaderAt
    <3>2. Inside(u, stream, k)
      BY <1>1, <1>6, <3>1, HeaderPlace
    <3>3. u = s
      BY <2>2
    <3> HIDE DEF u, s
    <3> QED BY <1>3, <1>4, <3>2, <3>3 DEF Fed, b
  <2>3. CASE h = 0 /\ PayloadAt(stream, k, a, l, r, f, c, o)
    <3> HIDE DEF a, h, l, r, f, c, o, b, o2
    <3> DEFINE u == GuardOf(a, 0, l, r, 0, 0, o2, b)
    <3>1. PayloadAt(stream, k, a, l, r, 0, 0, o2)
      BY <1>1, <2>1, <2>3 DEF PayloadAt
    <3>2. Inside(u, stream, k)
      BY <1>1, <1>6, <3>1, PayloadPlace
    <3>3. u = s
      BY <2>3
    <3> HIDE DEF u, s
    <3> QED BY <1>3, <1>4, <3>2, <3>3 DEF Fed, b
  <2> QED BY <1>1, <1>6, <2>2, <2>3
<1> QED BY <1>1, <1>5, <1>6

(* feed() of the next n bytes, which the peer has sent.                    *)
LEMMA GuardFed ==
    ASSUME NEW stream \in Seq(ClientFrame), NEW k \in Nat, NEW g, Fed(g, stream, k), ~g.failed,
           NEW n \in Nat, k + n <= Begin(stream, Len(stream) + 1)
    PROVE  Fed(GuardFeed(g, stream, n), stream, k + n)
<1> DEFINE A == FeedTurns(g, stream, n)
           kn == k + n
           S == {i \in 0..n : Inside(A[i], stream, kn) /\ (A[i].failed \/ A[i].left <= n - i)}
<1>1. /\ A[0] = SetLeft(g, n)
      /\ \A i \in 1..n : A[i] = TurnIfLeft(A[i - 1], stream)
  BY FeedSteps
<1>2. GuardFeed(g, stream, n) = Forwarding(A[n])
  BY DEF GuardFeed, FeedTurns, Forwarding
<1>3. kn \in Nat /\ kn <= Begin(stream, Len(stream) + 1)
  OBVIOUS
<1>4. Inside(SetLeft(g, n), stream, kn) /\ SetLeft(g, n).left = n
  BY NewChunk
<1> HIDE DEF A, kn
<1>5. 0 \in S
  BY <1>1, <1>4
<1>6. ASSUME NEW i \in 1..n, i - 1 \in S PROVE i \in S
  <2> DEFINE x == A[i - 1]
  <2>1. Inside(x, stream, kn) /\ (x.failed \/ x.left <= n - (i - 1)) /\ A[i] = TurnIfLeft(x, stream)
    BY <1>1, <1>6
  <2>2. x.left \in Nat
    BY <2>1 DEF Inside, IsGuard
  <2> HIDE DEF x
  <2>3. CASE x.failed \/ x.left = 0
    <3>1. A[i] = x
      BY <2>1, <2>3 DEF TurnIfLeft
    <3>2. x.failed \/ x.left <= n - i
      BY <2>3
    <3> QED BY <2>1, <3>1, <3>2
  <2>4. CASE ~x.failed /\ x.left > 0
    <3>1. A[i] = Turn(x, stream)
      BY <2>1, <2>4 DEF TurnIfLeft
    <3>2. Inside(Turn(x, stream), stream, kn) /\ Turn(x, stream).left < x.left
      BY <1>3, <2>1, <2>4, TurnKeeps
    <3>3. A[i].left \in Nat
      BY <3>1, <3>2 DEF Inside, IsGuard
    <3>4. A[i].left <= n - i
      BY <2>1, <2>2, <2>4, <3>1, <3>2, <3>3
    <3> QED BY <3>1, <3>2, <3>4
  <2> QED BY <2>2, <2>3, <2>4
<1>7. n \in S
  <2>1. n \in 0..n
    OBVIOUS
  <2> HIDE DEF S
  <2> QED BY <1>5, <1>6, <2>1, CountUp
<1>8. Inside(A[n], stream, kn) /\ (A[n].failed \/ A[n].left = 0)
  <2>1. Inside(A[n], stream, kn) /\ (A[n].failed \/ A[n].left <= 0)
    BY <1>7
  <2>2. A[n].left \in Nat
    BY <2>1 DEF Inside, IsGuard
  <2> QED BY <2>1, <2>2
<1>9. Fed(Forwarding(A[n]), stream, kn)
  BY <1>3, <1>8, ChunkEnds
<1> QED BY <1>2, <1>9 DEF kn

(* A new guard has been fed nothing.                                       *)
LEMMA NewGuardIsFed ==
    ASSUME NEW stream \in Seq(ClientFrame)
    PROVE  Fed(NewGuard, stream, 0) /\ ~NewGuard.failed
<1>1. Begin(stream, 1) = 0 /\ Len(stream) \in Nat
  BY BeginSteps
<1>2. PICK no : no = FALSE
  OBVIOUS
<1> DEFINE g == GuardOf(1, 0, 0, 0, 0, 0, 0, no)
<1>3. NewGuard = g
  BY <1>2 DEF NewGuard, GuardOf
<1>4. HeaderAt(stream, 0, 1, 0, 0, 0, 0, 0)
  BY <1>1 DEF HeaderAt, Passed
<1>5. Inside(g, stream, 0)
  BY <1>2, <1>4, HeaderPlace
<1>6. g.left = 0 /\ g.collected = 0 /\ ~g.failed
  BY <1>2, FieldsAre
<1> HIDE DEF g
<1> QED BY <1>3, <1>5, <1>6 DEF Fed

(* The header of a frame and the next frame, over a stretch of frames.     *)
LEMMA Stretch ==
    ASSUME NEW stream \in Seq(ClientFrame), NEW i \in 1..Len(stream)
    PROVE  /\ Begin(stream, i) \in Nat /\ HeaderEnd(stream, i) \in Nat
           /\ HeaderEnd(stream, i) = Begin(stream, i) + stream[i].header
           /\ stream[i].header >= 2 /\ stream[i].header \in Nat /\ stream[i].payload \in Nat
           /\ Begin(stream, i + 1) = HeaderEnd(stream, i) + stream[i].payload
           /\ \A j \in 1..(Len(stream) + 1) :
                i < j => Begin(stream, j) \in Nat /\ Begin(stream, i + 1) <= Begin(stream, j)
<1> DEFINE N == Len(stream)
<1>1. N \in Nat /\ i \in 1..N /\ i \in 1..(N + 1)
  OBVIOUS
<1>2. /\ Begin(stream, i) \in Nat
      /\ Begin(stream, i + 1) = Begin(stream, i) + Size(stream[i])
      /\ stream[i].header \in Nat /\ stream[i].header >= 2 /\ stream[i].payload \in Nat
  <2> HIDE DEF N
  <2> QED BY <1>1, BeginSteps DEF N
<1>3. HeaderEnd(stream, i) = Begin(stream, i) + stream[i].header
  BY DEF HeaderEnd
<1>4. Begin(stream, i + 1) = HeaderEnd(stream, i) + stream[i].payload
  BY <1>2, <1>3 DEF Size
<1>5. \A j \in 1..(Len(stream) + 1) :
        i < j => Begin(stream, j) \in Nat /\ Begin(stream, i + 1) <= Begin(stream, j)
  BY FramesInOrder
<1> QED BY <1>2, <1>3, <1>4, <1>5

(* A guard that was fed the first k bytes of a stream has done what        *)
(* GuardHolds asks for (websocket.py:171-247).                             *)
LEMMA FedMeans ==
    ASSUME NEW stream \in Seq(ClientFrame), NEW k \in Nat, NEW g, Fed(g, stream, k)
    PROVE  GuardHolds(g, stream, k)
<1> DEFINE N == Len(stream)
           a == g.at
           b(i) == Begin(stream, i)
           e(i) == HeaderEnd(stream, i)
           bad == {i \in DOMAIN stream : stream[i].refused /\ HeaderEnd(stream, i) <= k}
           open == {i \in DOMAIN stream : Begin(stream, i) <= k /\ k < HeaderEnd(stream, i)}
<1>0. N \in Nat /\ DOMAIN stream = 1..N
  OBVIOUS
<1>1. /\ IsGuard(g) /\ a <= N + 1 /\ g.left = 0 /\ g.collected = 0
      /\ \A i \in 1..N : i < a => ~stream[i].refused
  BY DEF Fed, Inside, IsGuard
<1>2. a \in Nat \ {0} /\ g.forwarded \in Nat /\ g.failed \in BOOLEAN /\ g.header \in Nat
  BY <1>1 DEF IsGuard
<1>3. \A i \in 1..N : /\ b(i) \in Nat /\ e(i) \in Nat /\ b(i + 1) \in Nat
                      /\ b(i) < e(i) /\ e(i) <= b(i + 1)
                      /\ e(i) = b(i) + stream[i].header /\ stream[i].header \in Nat
                      /\ stream[i].header >= 2
                      /\ b(i + 1) = e(i) + stream[i].payload /\ stream[i].payload \in Nat
  BY SMTT(30), Stretch
<1>4. \A i \in 1..N : \A j \in 1..(N + 1) : i < j => b(j) \in Nat /\ b(i + 1) <= b(j)
  BY Stretch
<1>5. bad = {i \in 1..N : stream[i].refused /\ e(i) <= k}
      /\ open = {i \in 1..N : b(i) <= k /\ k < e(i)}
  BY <1>0
<1>6. GuardHolds(g, stream, k) =
        (/\ g.failed = (bad # {})
         /\ IF g.failed THEN \A i \in bad : g.forwarded <= b(i)
                        ELSE g.forwarded = (IF open = {} THEN k ELSE b(Max(open))))
  BY DEF GuardHolds
<1> HIDE DEF bad, open
<1>6a. ASSUME ~g.failed, bad = {}, g.forwarded = IF open = {} THEN k ELSE b(Max(open))
       PROVE  GuardHolds(g, stream, k)
  BY <1>2, <1>6, <1>6a
<1>7. CASE g.failed
  <2>1. a <= N /\ stream[a].refused /\ e(a) <= k /\ g.forwarded <= b(a)
    BY <1>7 DEF Fed, Inside, AtRefused
  <2> HIDE DEF N, b, e, bad, open, a
  <2>2. a \in 1..N
    BY <1>0, <1>2, <2>1
  <2>3. a \in bad
    BY <1>5, <2>1, <2>2
  <2>4. ASSUME NEW i \in bad PROVE g.forwarded <= b(i)
    <3>1. i \in 1..N /\ stream[i].refused
      BY <1>5
    <3>2. a <= i
      BY <1>0, <1>1, <1>2, <3>1
    <3>3. CASE i = a
      BY <2>1, <3>3
    <3>4. CASE a < i
      <4>1. i \in 1..(N + 1)
        BY <1>0, <3>1
      <4>2. b(a + 1) <= b(i) /\ b(i) \in Nat
        BY <1>4, <2>2, <3>4, <4>1
      <4> QED BY <1>2, <1>3, <2>1, <2>2, <4>2
    <3> QED BY <1>0, <1>2, <3>1, <3>2, <3>3, <3>4
  <2> QED BY <1>6, <1>7, <2>3, <2>4
<1>8. CASE ~g.failed /\ AtHeader(g, stream, k)
  <2>1. /\ k = b(a) + g.header /\ g.forwarded = b(a)
        /\ a <= N => g.header < stream[a].header
        /\ a = N + 1 => g.header = 0
    <3>1. k - 0 = b(a) + g.header /\ g.forwarded + 0 = b(a) /\ (a = N + 1 => g.header = 0)
      BY <1>1, <1>8 DEF AtHeader
    <3>2. a <= N => g.header < stream[a].header
      <4>1. g.header < 2 \/ g.header < stream[a].header
        BY <1>8 DEF AtHeader
      <4>2. a <= N => stream[a].header \in Nat /\ stream[a].header >= 2
        BY <1>0, <1>2, <1>3
      <4> QED BY <1>2, <4>1, <4>2
    <3> QED BY <1>2, <3>1, <3>2
  <2>2. a \in 1..N \/ a = N + 1
    BY <1>0, <1>1, <1>2
  <2> HIDE DEF N, b, e, bad, open, a
  <2>3. b(a) \in Nat
    BY <1>2, <2>1
  <2>4. ASSUME NEW i \in 1..N, i < a PROVE e(i) <= k
    <3>1. a \in 1..(N + 1)
      BY <1>0, <1>1, <1>2
    <3>2. b(i + 1) <= b(a)
      BY <1>4, <2>4, <3>1
    <3> QED BY <1>2, <1>3, <2>1, <2>3, <3>2
  <2>5. a \in 1..N => b(a) <= k /\ k < e(a)
    <3> SUFFICES ASSUME a \in 1..N PROVE b(a) <= k /\ k < e(a)
      OBVIOUS
    <3>1. e(a) = b(a) + stream[a].header /\ stream[a].header \in Nat
      BY <1>3
    <3>2. g.header < stream[a].header
      BY <1>0, <2>1
    <3> QED BY <1>2, <2>1, <2>3, <3>1, <3>2
  <2>6. ASSUME NEW i \in 1..N, a < i PROVE k < b(i)
    <3>1. i \in 1..(N + 1) /\ a \in 1..N
      BY <1>0, <1>2, <2>6
    <3>2. b(a + 1) <= b(i) /\ b(i) \in Nat
      BY <1>4, <2>6, <3>1
    <3>3. k < e(a) /\ e(a) <= b(a + 1) /\ e(a) \in Nat /\ b(a + 1) \in Nat
      BY <1>3, <2>5, <3>1
    <3> QED BY <1>3, <3>1, <3>2, <3>3
  <2>7. bad = {}
    <3> SUFFICES ASSUME NEW i \in 1..N, stream[i].refused, e(i) <= k PROVE FALSE
      BY <1>5
    <3>1. ~(i < a)
      BY <1>1
    <3>2. i # a
      BY <1>3, <2>5
    <3>3. ~(a < i)
      BY <1>3, <2>6
    <3> QED BY <1>0, <1>2, <3>1, <3>2, <3>3
  <2>8. CASE a \in 1..N
    <3>1. open = {a}
      <4>1. a \in open
        BY <1>5, <2>5, <2>8
      <4>2. ASSUME NEW i \in open PROVE i = a
        <5>1. i \in 1..N /\ b(i) <= k /\ k < e(i)
          BY <1>5
        <5>2. ~(i < a)
          BY <1>3, <2>4, <5>1
        <5>3. ~(a < i)
          BY <1>3, <2>6, <5>1
        <5> QED BY <1>0, <1>2, <5>1, <5>2, <5>3
      <4> QED BY <4>1, <4>2
    <3>2. Max(open) = a
      BY <1>2, <3>1 DEF Max
    <3> QED BY <1>6a, <1>8, <2>1, <2>7, <3>1, <3>2
  <2>9. CASE a = N + 1
    <3>1. open = {}
      <4> SUFFICES ASSUME NEW i \in 1..N, k < e(i) PROVE FALSE
        BY <1>5
      <4>1. i < a
        BY <1>0, <2>9
      <4> QED BY <1>3, <2>4, <4>1
    <3>2. k = b(a)
      BY <2>1, <2>3, <2>9
    <3> QED BY <1>6a, <1>8, <2>1, <2>7, <3>1, <3>2
  <2> QED BY <2>2, <2>8, <2>9
<1>9. CASE ~g.failed /\ AtPayload(g, stream, k)
  <2>1. /\ a <= N /\ ~stream[a].refused /\ g.remaining > 0 /\ g.remaining <= stream[a].payload
        /\ k - 0 = b(a + 1) - g.remaining /\ g.forwarded + 0 = k - 0 /\ g.remaining \in Nat
    BY <1>1, <1>9 DEF AtPayload, IsGuard
  <2> HIDE DEF N, b, e, bad, open, a
  <2>2. a \in 1..N
    BY <1>0, <1>2, <2>1
  <2>3. g.forwarded = k /\ e(a) <= k /\ k < b(a + 1)
    BY SMTT(30), <1>2, <1>3, <2>1, <2>2
  <2>4. ASSUME NEW i \in 1..N, i <= a PROVE e(i) <= k
    <3>1. CASE i = a
      BY <2>3, <3>1
    <3>2. CASE i < a
      <4>1. a \in 1..(N + 1)
        BY <1>0, <2>2
      <4>2. b(i + 1) <= b(a)
        BY <1>4, <3>2, <4>1
      <4> QED BY <1>3, <2>2, <2>3, <4>2
    <3> QED BY <1>2, <2>4, <3>1, <3>2
  <2>5. ASSUME NEW i \in 1..N, a < i PROVE k < b(i)
    <3>1. i \in 1..(N + 1)
      BY <1>0
    <3>2. b(a + 1) <= b(i) /\ b(i) \in Nat
      BY <1>4, <2>2, <2>5, <3>1
    <3> QED BY <1>3, <2>2, <2>3, <3>2
  <2>6. bad = {}
    <3> SUFFICES ASSUME NEW i \in 1..N, stream[i].refused, e(i) <= k PROVE FALSE
      BY <1>5
    <3>1. ~(i < a) /\ i # a
      BY <1>1, <2>1
    <3>2. ~(a < i)
      BY <1>3, <2>5
    <3> QED BY <1>0, <1>2, <3>1, <3>2
  <2>7. open = {}
    <3> SUFFICES ASSUME NEW i \in 1..N, b(i) <= k, k < e(i) PROVE FALSE
      BY <1>5
    <3>1. ~(i <= a)
      BY <1>3, <2>4
    <3>2. ~(a < i)
      BY <1>3, <2>5
    <3> QED BY <1>0, <1>2, <3>1, <3>2
  <2> QED BY <1>6a, <1>9, <2>3, <2>6, <2>7
<1> QED BY <1>7, <1>8, <1>9 DEF Fed, Inside
=============================================================================
