---------------------------- MODULE QuotaProofs ----------------------------
(***************************************************************************)
(* Proofs about Quota for every set of handlers and counters, every limit  *)
(* and every bound.                                                        *)
(*                                                                         *)
(* UntimedOnlyByRace is not inductive: when an INCR recreates a counter    *)
(* without EXPIRE, it must be known that the counter lapsed, which follows *)
(* from what the handler remembers of it.  SeenInv says so.                *)
(*                                                                         *)
(* OvershootBounded is not either: it is the handlers that have compared a *)
(* counter with its limit and have not charged it yet that may still take  *)
(* it past the limit.  ChargeInv counts them with the counter.             *)
(*                                                                         *)
(* AllOrNothing speaks about rest.  In between, a counter is what its      *)
(* callers were allowed less what is still due, and less what errors and   *)
(* expiries have taken, which is PaidInv.  The sum in it is a recursion    *)
(* over a set: the lemmas on Total say how a sum grows with one of its     *)
(* terms, by induction on the size of the set.                             *)
(***************************************************************************)
EXTENDS Quota, FiniteSetTheorems, WellFoundedInduction, TLAPS

(* An absent counter counts nothing, and a handler remembers a positive    *)
(* value only of a counter that still exists or has lapsed under it.       *)
SeenInv ==
    \A k \in Keys :
        /\ value[k] > 0 => present[k]
        /\ \A h \in Handlers : seen[h][k] > 0 => present[k] \/ lapsed[k]

(* A request's turn begins at its first counter, and so does charging. *)
StartInv == \A h \in Handlers : pc[h] \in {"idle", "checking"} => at[h] = 1

(* The request was let through, and will charge its counter i. *)
Due(h, i) ==
    \/ pc[h] = "charging" /\ at[h] <= i
    \/ pc[h] = "expiring" /\ at[h] < i

Dues(k) == {h \in Handlers : \E i \in DOMAIN KeysOf[h] : KeysOf[h][i] = k /\ Due(h, i)}

(* It may be let through: so far it has read its counter i below the limit. *)
Ticket(h, i) ==
    \/ /\ (pc[h] = "reading" /\ i < at[h]) \/ pc[h] = "checking"
       /\ seen[h][KeysOf[h][i]] < Limit[KeysOf[h][i]]
    \/ Due(h, i)

Tickets(k) == {h \in Handlers : \E i \in DOMAIN KeysOf[h] : KeysOf[h][i] = k /\ Ticket(h, i)}

(* A counter stays below its limit, but for one charge of each caller: an  *)
(* expected charge counts as one that was made.                            *)
Within(k) ==
    value[k] + Cost(k) * Cardinality(Tickets(k)) <= Limit[k] - 1 + Cost(k) * Cardinality(Sharing(k))

ChargeInv == \A k \in Keys : Within(k)

(* What the handlers have been allowed, in charges of c each. *)
Total(c, count, S) == MapThenSumSet(LAMBDA h : c * count[h], S)

(* What counter k holds and what is still due to it. *)
Expected(k) == value[k] + Cost(k) * Cardinality(Dues(k))

(* That is at most what was allowed, and, until an expiry, no less than    *)
(* that but for one charge for each error.                                 *)
Paid(k) ==
    /\ Expected(k) <= Total(Cost(k), allowed, Sharing(k))
    /\ resets = 0 => Total(Cost(k), allowed, Sharing(k)) <= Expected(k) + Cost(k) * faults

PaidInv == \A k \in Keys : Paid(k)

QInv == TypeOK /\ SeenInv /\ UntimedOnlyByRace /\ StartInv /\ ChargeInv /\ PaidInv

-----------------------------------------------------------------------------
(* Sums over sets of handlers.  The theorems about induction take an       *)
(* operator as parameter; here a set stands for it.                        *)

LEMMA SetInduction ==
  ASSUME NEW T \in SUBSET Nat, 0 \in T, \A n \in T : n + 1 \in T
  PROVE  T = Nat
  <1> SUFFICES ASSUME Nat \ T # {} PROVE FALSE
    OBVIOUS
  <1>1. \E R : IsWellFoundedOn(R, Nat) /\ \A x, y \in Nat : <<y, x>> \in R <=> y < x
    <2> DEFINE R == OpToRel(<, Nat)
    <2>1. IsWellFoundedOn(R, Nat)
      BY NatLessThanWellFounded
    <2>2. \A x, y \in Nat : <<y, x>> \in R <=> y < x
      BY DEF OpToRel
    <2> HIDE DEF R
    <2>3. QED
      BY <2>1, <2>2
  <1>2. PICK R : IsWellFoundedOn(R, Nat) /\ \A x, y \in Nat : <<y, x>> \in R <=> y < x
    BY <1>1
  <1>3. PICK x \in Nat \ T : \A y \in Nat \ T : ~ (<<y, x>> \in R)
    <2>1. Nat \ T \in SUBSET Nat
      OBVIOUS
    <2>2. QED
      BY <1>2, <2>1, WFMin
  <1>4. x # 0 /\ x - 1 \in Nat /\ x - 1 < x /\ (x - 1) + 1 = x
    BY <1>3
  <1>5. x - 1 \in T
    BY <1>2, <1>3, <1>4
  <1>6. QED
    BY <1>3, <1>4, <1>5

(* The recursion of MapThenSumSet: it takes one handler at a time. *)
One(s) == CHOOSE x \in s : TRUE

Recursion(f, c, count, S) ==
    f = [s \in SUBSET S |-> IF s = {} THEN 0 ELSE c * count[One(s)] + f[s \ {One(s)}]]

LEMMA OneFacts ==
  ASSUME NEW s, IsFiniteSet(s), s # {}
  PROVE  One(s) \in s /\ Cardinality(s \ {One(s)}) = Cardinality(s) - 1
  <1>1. One(s) \in s
    BY DEF One
  <1>2. QED
    BY <1>1, FS_RemoveElement

LEMMA TotalUnfolds ==
  ASSUME NEW c, NEW count, NEW S
  PROVE  Total(c, count, S) = (CHOOSE f : Recursion(f, c, count, S))[S]
  BY DEF Total, MapThenSumSet, MapThenFoldSet, Recursion, One

(* There is such a function, made for larger and larger sets. *)
LEMMA RecursionExists ==
  ASSUME NEW c \in Nat, NEW S, IsFiniteSet(S), NEW count \in [Handlers -> Nat], S \subseteq Handlers
  PROVE  \E f : Recursion(f, c, count, S)
  <1> DEFINE Small(n) == {s \in SUBSET S : Cardinality(s) <= n}
             Step(f, s) == IF s = {} THEN 0 ELSE c * count[One(s)] + f[s \ {One(s)}]
             Good(n) == \E f \in [Small(n) -> Nat] : \A s \in Small(n) : f[s] = Step(f, s)
             T == {n \in Nat : Good(n)}
  <1>1. \A s \in SUBSET S : IsFiniteSet(s) /\ Cardinality(s) \in Nat /\ Cardinality(s) <= Cardinality(S)
    BY FS_Subset, FS_CardinalityType
  <1>2. ASSUME NEW s \in SUBSET S, s # {}
        PROVE  /\ s \ {One(s)} \in SUBSET S /\ Cardinality(s \ {One(s)}) = Cardinality(s) - 1
               /\ c * count[One(s)] \in Nat
    <2>1. One(s) \in s /\ Cardinality(s \ {One(s)}) = Cardinality(s) - 1
      BY <1>1, <1>2, OneFacts
    <2>2. count[One(s)] \in Nat
      BY <2>1
    <2>3. \A m \in Nat : c * m \in Nat
      OBVIOUS
    <2>4. QED
      BY <2>1, <2>2, <2>3
  <1>3. 0 \in T
    <2> DEFINE f == [s \in Small(0) |-> 0]
    <2>1. \A s \in Small(0) : s = {}
      BY <1>1, FS_EmptySet
    <2>2. f \in [Small(0) -> Nat] /\ \A s \in Small(0) : f[s] = Step(f, s)
      BY <2>1
    <2>3. QED
      BY <2>2
  <1>4. ASSUME NEW n \in T PROVE n + 1 \in T
    <2>1. PICK f \in [Small(n) -> Nat] : \A s \in Small(n) : f[s] = Step(f, s)
      BY <1>4
    <2> DEFINE g == [s \in Small(n + 1) |-> Step(f, s)]
    <2>2. ASSUME NEW s \in Small(n + 1), s # {} PROVE s \ {One(s)} \in Small(n)
      BY <1>1, <1>2, <2>2
    <2>3. g \in [Small(n + 1) -> Nat]
      BY <1>2, <2>1, <2>2
    <2>4. \A s \in Small(n) : s \in Small(n + 1) /\ g[s] = f[s]
      <3>1. \A s \in Small(n) : s \in Small(n + 1)
        BY <1>1
      <3>2. QED
        BY <2>1, <3>1
    <2>5. ASSUME NEW s \in Small(n + 1) PROVE g[s] = Step(g, s)
      <3>1. s # {} => g[s \ {One(s)}] = f[s \ {One(s)}]
        BY <2>2, <2>4
      <3>2. QED
        BY <3>1
    <2> HIDE DEF g, Small, Step
    <2>6. Good(n + 1)
      BY <2>3, <2>5
    <2>7. QED
      BY <2>6
  <1>5. T = Nat
    <2> HIDE DEF T
    <2>1. T \in SUBSET Nat
      BY DEF T
    <2>2. QED
      BY <1>3, <1>4, <2>1, SetInduction
  <1>6. Good(Cardinality(S)) /\ Small(Cardinality(S)) = SUBSET S
    <2>1. Cardinality(S) \in T
      BY <1>5, FS_CardinalityType
    <2>2. QED
      BY <1>1, <2>1
  <1>7. PICK f \in [SUBSET S -> Nat] : \A s \in SUBSET S : f[s] = Step(f, s)
    BY <1>6
  <1>8. f = [s \in SUBSET S |-> Step(f, s)]
    BY <1>7
  <1>9. QED
    BY <1>8 DEF Recursion

LEMMA RecursionFacts ==
  ASSUME NEW f, NEW c, NEW count, NEW S, Recursion(f, c, count, S)
  PROVE  /\ {} \in SUBSET S => f[{}] = 0
         /\ \A s \in SUBSET S : s # {} => f[s] = c * count[One(s)] + f[s \ {One(s)}]
  BY DEF Recursion

(* It is a number on every set. *)
LEMMA RecursionNat ==
  ASSUME NEW c \in Nat, NEW S, IsFiniteSet(S), NEW count \in [Handlers -> Nat], S \subseteq Handlers,
         NEW f, Recursion(f, c, count, S)
  PROVE  \A s \in SUBSET S : f[s] \in Nat
  <1> DEFINE T == {n \in Nat : \A s \in SUBSET S : Cardinality(s) = n => f[s] \in Nat}
  <1>0. \A s \in SUBSET S : s # {} => f[s] = c * count[One(s)] + f[s \ {One(s)}]
    BY DEF Recursion
  <1>1. \A s \in SUBSET S : IsFiniteSet(s) /\ Cardinality(s) \in Nat
    BY FS_Subset, FS_CardinalityType
  <1>2. 0 \in T
    BY <1>1, FS_EmptySet, RecursionFacts
  <1>3. ASSUME NEW n \in T PROVE n + 1 \in T
    <2> SUFFICES ASSUME NEW s \in SUBSET S, Cardinality(s) = n + 1 PROVE f[s] \in Nat
      OBVIOUS
    <2>1. s # {}
      <3>1. n \in Nat /\ n + 1 # 0
        BY <1>3
      <3>2. QED
        BY <3>1, FS_EmptySet
    <2>2. One(s) \in s /\ Cardinality(s \ {One(s)}) = n
      BY <1>1, <2>1, OneFacts
    <2>3. f[s \ {One(s)}] \in Nat
      BY <1>3, <2>2
    <2>4. count[One(s)] \in Nat
      BY <2>2
    <2>5. c * count[One(s)] \in Nat
      BY <2>4
    <2>6. f[s] = c * count[One(s)] + f[s \ {One(s)}]
      BY <1>0, <2>1
    <2>7. QED
      BY <2>3, <2>5, <2>6
  <1>4. T = Nat
    <2> HIDE DEF T
    <2>1. T \in SUBSET Nat
      BY DEF T
    <2>2. QED
      BY <1>2, <1>3, <2>1, SetInduction
  <1>5. QED
    BY <1>1, <1>4

(* A charge more for one handler is a charge more in all. *)
LEMMA RecursionAdds ==
  ASSUME NEW c \in Nat, NEW S, IsFiniteSet(S), NEW count \in [Handlers -> Nat], S \subseteq Handlers,
         NEW h \in Handlers, NEW more \in [Handlers -> Nat],
         more[h] = count[h] + 1, \A x \in Handlers \ {h} : more[x] = count[x],
         NEW f, Recursion(f, c, count, S), NEW g, Recursion(g, c, more, S)
  PROVE  \A s \in SUBSET S : g[s] = f[s] + (IF h \in s THEN c ELSE 0)
  <1> DEFINE T == {n \in Nat : \A s \in SUBSET S : Cardinality(s) = n =>
                                  g[s] = f[s] + (IF h \in s THEN c ELSE 0)}
  <1>0. /\ \A s \in SUBSET S : s # {} => f[s] = c * count[One(s)] + f[s \ {One(s)}]
        /\ \A s \in SUBSET S : s # {} => g[s] = c * more[One(s)] + g[s \ {One(s)}]
    BY DEF Recursion
  <1>1. \A s \in SUBSET S : IsFiniteSet(s) /\ Cardinality(s) \in Nat
    BY FS_Subset, FS_CardinalityType
  <1>2. 0 \in T
    <2> SUFFICES ASSUME NEW s \in SUBSET S, Cardinality(s) = 0
                 PROVE  g[s] = f[s] + (IF h \in s THEN c ELSE 0)
      OBVIOUS
    <2>1. s = {}
      BY <1>1, FS_EmptySet
    <2>2. f[{}] = 0 /\ g[{}] = 0
      BY RecursionFacts
    <2>3. QED
      BY <2>1, <2>2
  <1>3. ASSUME NEW n \in T PROVE n + 1 \in T
    <2> SUFFICES ASSUME NEW s \in SUBSET S, Cardinality(s) = n + 1
                 PROVE  g[s] = f[s] + (IF h \in s THEN c ELSE 0)
      OBVIOUS
    <2>1. s # {}
      <3>1. n \in Nat /\ n + 1 # 0
        BY <1>3
      <3>2. QED
        BY <3>1, FS_EmptySet
    <2>2. One(s) \in s /\ Cardinality(s \ {One(s)}) = n
      BY <1>1, <2>1, OneFacts
    <2> DEFINE x == One(s)
               t == s \ {One(s)}
    <2>3. g[t] = f[t] + (IF h \in t THEN c ELSE 0) /\ f[t] \in Nat
      BY <1>3, <2>2, RecursionNat
    <2>4. f[s] = c * count[x] + f[t] /\ g[s] = c * more[x] + g[t]
      BY <1>0, <2>1
    <2>5. x \in Handlers /\ count[x] \in Nat /\ c * count[x] \in Nat
      BY <2>2
    <2>6. CASE x = h
      <3>1. more[x] = count[x] + 1 /\ h \notin t /\ h \in s
        BY <2>2, <2>5, <2>6
      <3>2. c * (count[x] + 1) = c * count[x] + c
        BY <2>5
      <3> HIDE DEF x, t
      <3>3. QED
        BY <2>3, <2>4, <2>5, <3>1, <3>2
    <2>7. CASE x # h
      <3>1. more[x] = count[x] /\ (h \in t <=> h \in s)
        BY <2>2, <2>5, <2>7
      <3> HIDE DEF x, t
      <3>2. QED
        BY <2>3, <2>4, <2>5, <3>1
    <2>8. QED
      BY <2>6, <2>7
  <1>4. T = Nat
    <2> HIDE DEF T
    <2>1. T \in SUBSET Nat
      BY DEF T
    <2>2. QED
      BY <1>2, <1>3, <2>1, SetInduction
  <1>5. QED
    BY <1>1, <1>4

LEMMA RecursionOfZeros ==
  ASSUME NEW c \in Nat, NEW S, IsFiniteSet(S), NEW count, \A h \in S : count[h] = 0,
         NEW f, Recursion(f, c, count, S)
  PROVE  \A s \in SUBSET S : f[s] = 0
  <1> DEFINE T == {n \in Nat : \A s \in SUBSET S : Cardinality(s) = n => f[s] = 0}
  <1>1. \A s \in SUBSET S : IsFiniteSet(s) /\ Cardinality(s) \in Nat
    BY FS_Subset, FS_CardinalityType
  <1>2. 0 \in T
    BY <1>1, FS_EmptySet, RecursionFacts
  <1>3. ASSUME NEW n \in T PROVE n + 1 \in T
    <2> SUFFICES ASSUME NEW s \in SUBSET S, Cardinality(s) = n + 1 PROVE f[s] = 0
      OBVIOUS
    <2>1. s # {}
      <3>1. n \in Nat /\ n + 1 # 0
        BY <1>3
      <3>2. QED
        BY <3>1, FS_EmptySet
    <2>2. One(s) \in s /\ Cardinality(s \ {One(s)}) = n
      BY <1>1, <2>1, OneFacts
    <2>3. f[s \ {One(s)}] = 0 /\ count[One(s)] = 0
      BY <1>3, <2>2
    <2>4. c * 0 = 0
      OBVIOUS
    <2>5. QED
      BY <2>1, <2>3, <2>4, RecursionFacts
  <1>4. T = Nat
    <2> HIDE DEF T
    <2>1. T \in SUBSET Nat
      BY DEF T
    <2>2. QED
      BY <1>2, <1>3, <2>1, SetInduction
  <1>5. QED
    BY <1>1, <1>4

LEMMA TotalIsRecursive ==
  ASSUME NEW c \in Nat, NEW S, IsFiniteSet(S), NEW count \in [Handlers -> Nat], S \subseteq Handlers
  PROVE  \E f : Recursion(f, c, count, S) /\ Total(c, count, S) = f[S]
  <1>1. Recursion(CHOOSE f : Recursion(f, c, count, S), c, count, S)
    BY RecursionExists
  <1>2. QED
    BY <1>1, TotalUnfolds

LEMMA TotalNat ==
  ASSUME NEW c \in Nat, NEW S, IsFiniteSet(S), NEW count \in [Handlers -> Nat], S \subseteq Handlers
  PROVE  Total(c, count, S) \in Nat
  BY TotalIsRecursive, RecursionNat

LEMMA TotalAdds ==
  ASSUME NEW c \in Nat, NEW S, IsFiniteSet(S), NEW count \in [Handlers -> Nat], S \subseteq Handlers,
         NEW h \in Handlers, NEW more \in [Handlers -> Nat],
         more[h] = count[h] + 1, \A x \in Handlers \ {h} : more[x] = count[x]
  PROVE  Total(c, more, S) = Total(c, count, S) + (IF h \in S THEN c ELSE 0)
  <1>1. PICK f : Recursion(f, c, count, S) /\ Total(c, count, S) = f[S]
    BY TotalIsRecursive
  <1>3. PICK g : Recursion(g, c, more, S) /\ Total(c, more, S) = g[S]
    BY TotalIsRecursive
  <1>4. g[S] = f[S] + (IF h \in S THEN c ELSE 0)
    <2>1. S \in SUBSET S
      OBVIOUS
    <2>2. QED
      BY <1>1, <1>3, <2>1, RecursionAdds
  <1>5. QED
    BY <1>1, <1>3, <1>4

LEMMA TotalOfZeros ==
  ASSUME NEW c \in Nat, NEW S, IsFiniteSet(S), NEW count \in [Handlers -> Nat], S \subseteq Handlers,
         \A h \in S : count[h] = 0
  PROVE  Total(c, count, S) = 0
  <1>1. PICK f : Recursion(f, c, count, S) /\ Total(c, count, S) = f[S]
    BY TotalIsRecursive
  <1>2. S \in SUBSET S
    OBVIOUS
  <1>3. QED
    BY <1>1, <1>2, RecursionOfZeros

-----------------------------------------------------------------------------
(* Who has a ticket, and for what it is due. *)

LEMMA KeyInKeys ==
  ASSUME TypeOK, NEW h \in Handlers
  PROVE  Key(h) \in Keys /\ Len(KeysOf[h]) \in Nat \ {0}
  BY KeysAssumption DEF TypeOK, Key

LEMMA Products ==
  ASSUME NEW c \in Nat, NEW m \in Nat
  PROVE  /\ c * m \in Nat
         /\ \A n \in Nat : m <= n => c * m <= c * n
         /\ c * (m - 1) = c * m - c
  <1>1. c * m \in Nat
    OBVIOUS
  <1>2. ASSUME NEW n \in Nat, m <= n PROVE c * m <= c * n
    <2>1. PICK d \in Nat : n = m + d
      BY <1>2
    <2>2. c * n = c * m + c * d
      BY <2>1
    <2>3. c * d \in Nat
      OBVIOUS
    <2>4. QED
      BY <1>1, <2>2, <2>3
  <1>3. c * (m - 1) = c * m - c
    OBVIOUS
  <1>4. QED
    BY <1>1, <1>2, <1>3

(* Only callers that share a counter have a ticket for it: finitely many.  *)
LEMMA TicketSets ==
  ASSUME NEW k \in Keys
  PROVE  /\ Cost(k) \in Nat /\ Limit[k] \in Nat \ {0}
         /\ Cardinality(Sharing(k)) \in Nat
         /\ Tickets(k) \in SUBSET Sharing(k) /\ Tickets(k)' \in SUBSET Sharing(k)
         /\ \A S \in SUBSET Sharing(k) :
               Cardinality(S) \in Nat /\ Cardinality(S) <= Cardinality(Sharing(k))
         /\ \A S, T \in SUBSET Sharing(k) : S \subseteq T => Cardinality(S) <= Cardinality(T)
         /\ \A S \in SUBSET Sharing(k) : \A h \in S : Cardinality(S \ {h}) = Cardinality(S) - 1
  <1>1. Cost(k) \in Nat /\ Limit[k] \in Nat \ {0}
    BY LimitAssumption DEF Cost
  <1>2. Sharing(k) \in SUBSET Handlers
    BY DEF Sharing
  <1>3. IsFiniteSet(Sharing(k))
    BY <1>2, HandlersAssumption, FS_Subset
  <1>4. \A S \in SUBSET Sharing(k) : IsFiniteSet(S) /\ Cardinality(S) <= Cardinality(Sharing(k))
    BY <1>3, FS_Subset
  <1>5. /\ Cardinality(Sharing(k)) \in Nat
        /\ \A S \in SUBSET Sharing(k) : Cardinality(S) \in Nat
    BY <1>3, <1>4, FS_CardinalityType
  <1>6. \A S, T \in SUBSET Sharing(k) : S \subseteq T => Cardinality(S) <= Cardinality(T)
    BY <1>4, FS_Subset
  <1>7. \A S \in SUBSET Sharing(k) : \A h \in S : Cardinality(S \ {h}) = Cardinality(S) - 1
    BY <1>4, FS_RemoveElement
  <1>8. Tickets(k) \in SUBSET Sharing(k) /\ Tickets(k)' \in SUBSET Sharing(k)
    BY DEF Tickets, Sharing
  <1>9. QED
    BY <1>1, <1>4, <1>5, <1>6, <1>7, <1>8

(* At or below its limit before the charges of this round, a counter is    *)
(* within it.                                                              *)
LEMMA WithinBelow ==
  ASSUME NEW k \in Keys, NEW v \in Nat, NEW S \in SUBSET Sharing(k), v < Limit[k]
  PROVE  v + Cost(k) * Cardinality(S) <= Limit[k] - 1 + Cost(k) * Cardinality(Sharing(k))
  <1>1. /\ Cost(k) \in Nat /\ Limit[k] \in Nat /\ Cardinality(S) \in Nat
        /\ Cardinality(Sharing(k)) \in Nat /\ Cardinality(S) <= Cardinality(Sharing(k))
    BY TicketSets
  <1>2. /\ Cost(k) * Cardinality(S) <= Cost(k) * Cardinality(Sharing(k))
        /\ Cost(k) * Cardinality(S) \in Nat /\ Cost(k) * Cardinality(Sharing(k)) \in Nat
    BY <1>1, Products
  <1>3. QED
    BY <1>1, <1>2

LEMMA InitCharges == Init => StartInv /\ ChargeInv
  <1> SUFFICES ASSUME Init PROVE StartInv /\ ChargeInv
    OBVIOUS
  <1>1. StartInv
    BY DEF Init, StartInv
  <1>2. ASSUME NEW k \in Keys PROVE Within(k)
    <2>1. value[k] = 0 /\ 0 < Limit[k]
      BY TicketSets DEF Init
    <2>2. Tickets(k) \in SUBSET Sharing(k)
      BY TicketSets
    <2>3. QED
      BY <2>1, <2>2, WithinBelow DEF Within
  <1>3. QED
    BY <1>1, <1>2 DEF ChargeInv

(* A counter that keeps its value stays within while nobody gets a ticket. *)
LEMMA WithinShrink ==
  ASSUME TypeOK, NEW k \in Keys, Within(k), value'[k] = value[k], Tickets(k)' \subseteq Tickets(k)
  PROVE  Within(k)'
  <1>1. /\ Cost(k) \in Nat /\ Limit[k] \in Nat /\ value[k] \in Nat
        /\ Cardinality(Sharing(k)) \in Nat /\ Cardinality(Tickets(k)) \in Nat
        /\ Cardinality(Tickets(k)') \in Nat /\ Cardinality(Tickets(k)') <= Cardinality(Tickets(k))
    BY TicketSets DEF TypeOK
  <1>2. /\ Cost(k) * Cardinality(Tickets(k)') <= Cost(k) * Cardinality(Tickets(k))
        /\ Cost(k) * Cardinality(Tickets(k)') \in Nat /\ Cost(k) * Cardinality(Tickets(k)) \in Nat
        /\ Cost(k) * Cardinality(Sharing(k)) \in Nat
    BY <1>1, Products
  <1>3. Sharing(k)' = Sharing(k) /\ Cost(k)' = Cost(k)
    BY DEF Sharing, Cost
  <1>4. QED
    BY <1>1, <1>2, <1>3 DEF Within

(* What is allowed grows by one charge with every request let through. *)
LEMMA Totals ==
  ASSUME TypeOK, NEW k \in Keys
  PROVE  /\ Total(Cost(k), allowed, Sharing(k)) \in Nat
         /\ \A h \in Handlers : allowed' = [allowed EXCEPT ![h] = @ + 1] =>
               Total(Cost(k), allowed', Sharing(k))
                  = Total(Cost(k), allowed, Sharing(k)) + (IF h \in Sharing(k) THEN Cost(k) ELSE 0)
  <1>1. /\ Cost(k) \in Nat /\ Sharing(k) \subseteq Handlers /\ IsFiniteSet(Sharing(k))
        /\ allowed \in [Handlers -> Nat]
    <2>1. Sharing(k) \in SUBSET Handlers
      BY DEF Sharing
    <2>2. QED
      BY <2>1, TicketSets, HandlersAssumption, FS_Subset DEF TypeOK
  <1>2. ASSUME NEW h \in Handlers, allowed' = [allowed EXCEPT ![h] = @ + 1]
        PROVE  Total(Cost(k), allowed', Sharing(k))
                  = Total(Cost(k), allowed, Sharing(k)) + (IF h \in Sharing(k) THEN Cost(k) ELSE 0)
    <2>1. /\ allowed' \in [Handlers -> Nat] /\ allowed'[h] = allowed[h] + 1
          /\ \A g \in Handlers \ {h} : allowed'[g] = allowed[g]
      BY <1>1, <1>2
    <2>2. QED
      BY <1>1, <2>1, TotalAdds
  <1>3. QED
    BY <1>1, <1>2, TotalNat

LEMMA InitPaid == Init => PaidInv
  <1> SUFFICES ASSUME Init, NEW k \in Keys PROVE Paid(k)
    BY DEF PaidInv
  <1>1. Dues(k) = {} /\ value[k] = 0 /\ faults = 0
    BY DEF Init, Dues, Due
  <1>2. Cost(k) \in Nat /\ Cardinality(Dues(k)) = 0 /\ Cost(k) * 0 = 0
    BY <1>1, TicketSets, FS_EmptySet
  <1>3. Total(Cost(k), allowed, Sharing(k)) = 0
    <2>1. /\ allowed \in [Handlers -> Nat] /\ \A h \in Sharing(k) : allowed[h] = 0
          /\ Sharing(k) \in SUBSET Handlers
      BY DEF Init, Sharing
    <2>2. IsFiniteSet(Sharing(k))
      BY <2>1, HandlersAssumption, FS_Subset
    <2>3. QED
      BY <1>2, <2>1, <2>2, TotalOfZeros
  <1>4. QED
    BY <1>1, <1>2, <1>3 DEF Paid, Expected

(* A counter that keeps its value and its debts stays paid. *)
LEMMA PaidKept ==
  ASSUME NEW k \in Keys, Paid(k), UNCHANGED <<resets, faults, allowed>>, value'[k] = value[k],
         Dues(k)' = Dues(k)
  PROVE  Paid(k)'
  BY DEF Paid, Expected, Sharing, Cost

(* Only h moved, and owes the counter k what it owed. *)
LEMMA DuesKept ==
  ASSUME NEW h \in Handlers, NEW k,
         \A g \in Handlers \ {h} : pc'[g] = pc[g] /\ at'[g] = at[g],
         \A i \in DOMAIN KeysOf[h] : KeysOf[h][i] = k => (Due(h, i)' <=> Due(h, i))
  PROVE  Dues(k)' = Dues(k)
  <1>1. ASSUME NEW g \in Handlers, NEW i \in DOMAIN KeysOf[g], KeysOf[g][i] = k
        PROVE  Due(g, i)' <=> Due(g, i)
    <2>1. CASE g = h
      BY <1>1, <2>1
    <2>2. CASE g # h
      BY <2>2 DEF Due
    <2>3. QED
      BY <2>1, <2>2
  <1>2. QED
    BY <1>1 DEF Dues

LEMMA DueSets ==
  ASSUME NEW k \in Keys
  PROVE  /\ Dues(k) \subseteq Sharing(k)
         /\ Cardinality(Dues(k)) \in Nat /\ Cardinality(Dues(k)') \in Nat
         /\ \A h \in Dues(k) : Cardinality(Dues(k) \ {h}) = Cardinality(Dues(k)) - 1
         /\ \A h \in Dues(k)' : Cardinality(Dues(k)' \ {h}) = Cardinality(Dues(k)') - 1
  <1>1. Dues(k) \in SUBSET Sharing(k) /\ Dues(k)' \in SUBSET Sharing(k)
    BY DEF Dues, Sharing
  <1>2. QED
    BY <1>1, TicketSets

(* The terms of Paid are numbers. *)
LEMMA PaidTypes ==
  ASSUME TypeOK, NEW k \in Keys
  PROVE  /\ Cost(k) \in Nat /\ value[k] \in Nat /\ faults \in Nat /\ Cost(k) * faults \in Nat
         /\ Cost(k) * Cardinality(Dues(k)) \in Nat /\ Cost(k) * Cardinality(Dues(k)') \in Nat
         /\ Expected(k) \in Nat /\ Total(Cost(k), allowed, Sharing(k)) \in Nat
         /\ Sharing(k)' = Sharing(k) /\ Cost(k)' = Cost(k)
  <1>1. Cost(k) \in Nat /\ value[k] \in Nat /\ faults \in Nat
    BY TicketSets, QuotaBounds DEF TypeOK
  <1>2. Cardinality(Dues(k)) \in Nat /\ Cardinality(Dues(k)') \in Nat
    BY DueSets
  <1>3. /\ Cost(k) * Cardinality(Dues(k)) \in Nat /\ Cost(k) * Cardinality(Dues(k)') \in Nat
        /\ Cost(k) * faults \in Nat
    BY <1>1, <1>2, Products
  <1>4. Total(Cost(k), allowed, Sharing(k)) \in Nat
    BY Totals
  <1>5. QED
    BY <1>1, <1>3, <1>4 DEF Expected, Sharing, Cost

-----------------------------------------------------------------------------
(* QInv is inductive. *)

LEMMA InitQInv == Init => QInv
  <1> SUFFICES ASSUME Init PROVE QInv
    OBVIOUS
  <1>1. TypeOK
    BY KeysAssumption, QuotaBounds DEF Init, TypeOK, Places
  <1>2. SeenInv /\ UntimedOnlyByRace
    BY DEF Init, SeenInv, UntimedOnlyByRace
  <1>3. StartInv /\ ChargeInv /\ PaidInv
    BY InitCharges, InitPaid
  <1>4. QED
    BY <1>1, <1>2, <1>3 DEF QInv

(* The position in the list of counters stays in the list. *)
LEMMA NextKeyType ==
  ASSUME TypeOK, NEW h \in Handlers, NEW again \in Places, NEW after \in Places,
         NextKey(h, again, after)
  PROVE  /\ at' \in [Handlers -> Nat \ {0}]
         /\ \A g \in Handlers : at'[g] \in DOMAIN KeysOf[g]
         /\ pc' \in [Handlers -> Places]
  <1>1. at[h] \in 1..Len(KeysOf[h]) /\ Len(KeysOf[h]) \in Nat \ {0}
    BY KeyInKeys, KeysAssumption DEF TypeOK
  <1>2. DOMAIN KeysOf[h] = 1..Len(KeysOf[h])
    BY KeysAssumption
  <1>3. at'[h] \in 1..Len(KeysOf[h])
    BY <1>1 DEF NextKey, TypeOK
  <1>4. /\ at' \in [Handlers -> Nat \ {0}]
        /\ \A g \in Handlers : g # h => at'[g] = at[g]
    BY <1>1 DEF NextKey, TypeOK
  <1>5. pc' \in [Handlers -> Places]
    BY DEF NextKey, Goto, TypeOK
  <1>6. QED
    BY <1>2, <1>3, <1>4, <1>5 DEF TypeOK

LEMMA TypeStep == TypeOK /\ [Next]_vars => TypeOK'
  <1> SUFFICES ASSUME TypeOK, [Next]_vars PROVE TypeOK'
    OBVIOUS
  <1> USE DEF redis, local
  <1>1. ASSUME NEW h \in Handlers, Begin(h) PROVE TypeOK'
    BY <1>1, QuotaBounds DEF Begin, Goto, TypeOK, Places
  <1>2. ASSUME NEW h \in Handlers, Get(h) PROVE TypeOK'
    <2>1. seen' \in [Handlers -> [Keys -> Nat]]
      BY <1>2, KeyInKeys DEF Get, TypeOK
    <2>2. NextKey(h, "reading", "checking")
      BY <1>2 DEF Get
    <2>3. QED
      BY <1>2, <2>1, <2>2, NextKeyType DEF Get, TypeOK, Places
  <1>3. ASSUME NEW h \in Handlers, Deny(h) PROVE TypeOK'
    BY <1>3 DEF Deny, Goto, Forget, TypeOK, Places
  <1>4. ASSUME NEW h \in Handlers, Admit(h) PROVE TypeOK'
    BY <1>4 DEF Admit, Goto, TypeOK, Places
  <1>5. ASSUME NEW h \in Handlers, Charge(h) PROVE TypeOK'
    <2>1. Key(h) \in Keys /\ Cost(Key(h)) \in Nat
      BY KeyInKeys, LimitAssumption DEF Cost
    <2>2. /\ value' \in [Keys -> Nat]
          /\ present' \in [Keys -> BOOLEAN]
          /\ seen' \in [Handlers -> [Keys -> Nat]]
      BY <1>5, <2>1 DEF Charge, TypeOK
    <2>3. CASE Goto(h, "expiring") /\ UNCHANGED at
      BY <1>5, <2>2, <2>3 DEF Charge, Goto, TypeOK, Places
    <2>4. CASE NextKey(h, "charging", "idle")
      BY <1>5, <2>2, <2>4, NextKeyType DEF Charge, TypeOK, Places
    <2>5. QED
      BY <1>5, <2>3, <2>4 DEF Charge
  <1>6. ASSUME NEW h \in Handlers, SetTtl(h) PROVE TypeOK'
    <2>1. timed' \in [Keys -> BOOLEAN]
      BY <1>6, KeyInKeys DEF SetTtl, TypeOK
    <2>2. NextKey(h, "charging", "idle")
      BY <1>6 DEF SetTtl
    <2>3. QED
      BY <1>6, <2>1, <2>2, NextKeyType DEF SetTtl, TypeOK, Places
  <1>7. ASSUME NEW h \in Handlers, Fault(h) PROVE TypeOK'
    <2>1. 1 \in DOMAIN KeysOf[h]
      BY KeysAssumption
    <2>2. at' = [at EXCEPT ![h] = 1]
      BY <1>7 DEF Fault
    <2>3. at' \in [Handlers -> Nat \ {0}] /\ \A g \in Handlers : at'[g] \in DOMAIN KeysOf[g]
      BY <2>1, <2>2 DEF TypeOK
    <2>4. pc' \in [Handlers -> Places] /\ seen' \in [Handlers -> [Keys -> Nat]]
      BY <1>7 DEF Fault, Goto, Forget, TypeOK, Places
    <2>5. faults' \in 0..MaxFaults
      BY <1>7, QuotaBounds DEF Fault, TypeOK
    <2>6. QED
      BY <1>7, <2>3, <2>4, <2>5 DEF Fault, TypeOK
  <1>8. ASSUME NEW k \in Keys, Expires(k) PROVE TypeOK'
    BY <1>8, QuotaBounds DEF Expires, TypeOK
  <1>9. CASE UNCHANGED vars
    BY <1>9 DEF vars, TypeOK
  <1>10. QED
    BY <1>1, <1>2, <1>3, <1>4, <1>5, <1>6, <1>7, <1>8, <1>9 DEF Next

LEMMA SeenStep == QInv /\ [Next]_vars => SeenInv'
  <1> SUFFICES ASSUME QInv, [Next]_vars PROVE SeenInv'
    OBVIOUS
  <1> USE DEF QInv, SeenInv, TypeOK, redis, local
  <1>1. ASSUME NEW h \in Handlers, Begin(h) \/ Admit(h) \/ SetTtl(h) PROVE SeenInv'
    BY <1>1 DEF Begin, Admit, SetTtl
  <1>2. ASSUME NEW h \in Handlers, Get(h) PROVE SeenInv'
    BY <1>2, KeyInKeys DEF Get
  <1>3. ASSUME NEW h \in Handlers, Deny(h) \/ Fault(h) PROVE SeenInv'
    BY <1>3 DEF Deny, Fault, Forget
  <1>4. ASSUME NEW h \in Handlers, Charge(h) PROVE SeenInv'
    <2>1. Key(h) \in Keys
      BY KeyInKeys
    <2>2. \A k \in Keys : /\ k = Key(h) => present'[k]
                          /\ k # Key(h) => present'[k] = present[k] /\ value'[k] = value[k]
      BY <1>4, <2>1 DEF Charge
    <2>3. \A g \in Handlers, k \in Keys : seen'[g][k] \in {0, seen[g][k]}
      BY <1>4, <2>1 DEF Charge
    <2>4. lapsed' = lapsed
      BY <1>4 DEF Charge
    <2>5. QED
      BY <2>2, <2>3, <2>4
  <1>5. ASSUME NEW k \in Keys, Expires(k) PROVE SeenInv'
    BY <1>5 DEF Expires
  <1>6. CASE UNCHANGED vars
    BY <1>6 DEF vars
  <1>7. QED
    BY <1>1, <1>2, <1>3, <1>4, <1>5, <1>6 DEF Next

LEMMA UntimedStep == QInv /\ [Next]_vars => UntimedOnlyByRace'
  <1> SUFFICES ASSUME QInv, [Next]_vars PROVE UntimedOnlyByRace'
    OBVIOUS
  <1> USE DEF QInv, UntimedOnlyByRace, TypeOK, redis, local
  (* A step that does not touch the counters and interrupts no EXPIRE. *)
  <1>0. ASSUME NEW h \in Handlers, pc[h] # "expiring",
               pc' = [pc EXCEPT ![h] = pc'[h]], at' = [at EXCEPT ![h] = at'[h]],
               UNCHANGED <<present, timed, lapsed, faults>>
        PROVE  UntimedOnlyByRace'
    BY <1>0 DEF Key
  <1>1. ASSUME NEW h \in Handlers, Begin(h) \/ Deny(h) \/ Admit(h) PROVE UntimedOnlyByRace'
    BY <1>0, <1>1 DEF Begin, Deny, Admit, Goto
  <1>2. ASSUME NEW h \in Handlers, Get(h) PROVE UntimedOnlyByRace'
    BY <1>0, <1>2 DEF Get, NextKey, Goto
  <1>3. ASSUME NEW h \in Handlers, Charge(h) PROVE UntimedOnlyByRace'
    <2> SUFFICES ASSUME NEW k \in Keys, present'[k], ~timed'[k], ~lapsed'[k], ~(faults' > 0)
                 PROVE  \E g \in Handlers : pc'[g] = "expiring" /\ Key(g)' = k
      BY DEF UntimedOnlyByRace
    <2>1. pc[h] = "charging" /\ Key(h) \in Keys
      BY <1>3, KeyInKeys DEF Charge
    <2>2. UNCHANGED <<timed, lapsed, faults>>
      BY <1>3 DEF Charge
    <2>3. \A g \in Handlers : g # h => pc'[g] = pc[g] /\ Key(g)' = Key(g)
      BY <1>3 DEF Charge, Goto, NextKey, Key
    <2>4. CASE present[k]
      BY <2>1, <2>2, <2>3, <2>4
    <2>5. CASE ~present[k]
      <3>1. k = Key(h)
        BY <1>3, <2>1, <2>5 DEF Charge
      <3>2. seen[h][k] = 0
        BY <2>2, <2>5 DEF SeenInv
      <3>3. pc'[h] = "expiring" /\ Key(h)' = k
        BY <1>3, <3>1, <3>2 DEF Charge, Goto, Key
      <3>4. QED
        BY <3>3
    <2>6. QED
      BY <2>4, <2>5
  <1>4. ASSUME NEW h \in Handlers, SetTtl(h) PROVE UntimedOnlyByRace'
    <2>1. Key(h) \in Keys /\ pc[h] = "expiring"
      BY <1>4, KeyInKeys DEF SetTtl
    <2>2. UNCHANGED <<present, lapsed, faults>>
      BY <1>4 DEF SetTtl
    <2>3. \A k \in Keys : timed'[k] = IF k = Key(h) THEN present[k] ELSE timed[k]
      BY <1>4, <2>1 DEF SetTtl
    <2>4. \A g \in Handlers : g # h => pc'[g] = pc[g] /\ Key(g)' = Key(g)
      BY <1>4 DEF SetTtl, Goto, NextKey, Key
    <2> SUFFICES ASSUME NEW k \in Keys, present'[k], ~timed'[k], ~lapsed'[k], ~(faults' > 0)
                 PROVE  \E g \in Handlers : pc'[g] = "expiring" /\ Key(g)' = k
      BY DEF UntimedOnlyByRace
    <2>5. k # Key(h) /\ present[k] /\ ~timed[k] /\ ~lapsed[k] /\ ~(faults > 0)
      BY <2>1, <2>2, <2>3
    <2>6. PICK g \in Handlers : pc[g] = "expiring" /\ Key(g) = k
      BY <2>5
    <2>7. QED
      BY <2>4, <2>5, <2>6
  <1>5. ASSUME NEW h \in Handlers, Fault(h) PROVE UntimedOnlyByRace'
    BY <1>5 DEF Fault
  <1>6. ASSUME NEW k \in Keys, Expires(k) PROVE UntimedOnlyByRace'
    BY <1>6 DEF Expires, Key
  <1>7. CASE UNCHANGED vars
    BY <1>7 DEF vars, Key
  <1>8. QED
    BY <1>1, <1>2, <1>3, <1>4, <1>5, <1>6, <1>7 DEF Next

(* The two ways NextKey goes. *)
LEMMA NextKeyFacts ==
  ASSUME TypeOK, NEW h \in Handlers, NEW again, NEW after, NextKey(h, again, after)
  PROVE  /\ \A g \in Handlers \ {h} : pc'[g] = pc[g] /\ at'[g] = at[g]
         /\ \/ at[h] = Len(KeysOf[h]) /\ at'[h] = 1 /\ pc'[h] = after
            \/ at[h] < Len(KeysOf[h]) /\ at'[h] = at[h] + 1 /\ pc'[h] = again
  <1>1. at[h] \in 1..Len(KeysOf[h]) /\ Len(KeysOf[h]) \in Nat
    BY KeysAssumption DEF TypeOK
  <1>2. at' = [at EXCEPT ![h] = IF at[h] = Len(KeysOf[h]) THEN 1 ELSE at[h] + 1]
    BY DEF NextKey, TypeOK
  <1>3. pc' = [pc EXCEPT ![h] = IF at[h] = Len(KeysOf[h]) THEN after ELSE again]
    BY DEF NextKey, Goto
  <1>4. QED
    BY <1>1, <1>2, <1>3 DEF TypeOK

LEMMA StartStep == QInv /\ [Next]_vars => StartInv'
  <1> SUFFICES ASSUME QInv, [Next]_vars PROVE StartInv'
    OBVIOUS
  <1>0. TypeOK /\ StartInv
    BY DEF QInv
  <1>1. ASSUME NEW h \in Handlers, NEW again, NEW after, NextKey(h, again, after),
               again \notin {"idle", "checking"}
        PROVE  StartInv'
    BY <1>0, <1>1, NextKeyFacts DEF StartInv
  <1>2. ASSUME NEW h \in Handlers, Begin(h) \/ Deny(h) \/ Admit(h) \/ Fault(h) PROVE StartInv'
    BY <1>0, <1>2 DEF Begin, Deny, Admit, Fault, Goto, StartInv, TypeOK
  <1>3. ASSUME NEW h \in Handlers, Get(h) \/ SetTtl(h) PROVE StartInv'
    BY <1>1, <1>3 DEF Get, SetTtl
  <1>4. ASSUME NEW h \in Handlers, Charge(h) PROVE StartInv'
    <2>1. CASE NextKey(h, "charging", "idle")
      BY <1>1, <2>1
    <2>2. CASE Goto(h, "expiring") /\ UNCHANGED at
      BY <1>0, <2>2 DEF Goto, StartInv, TypeOK
    <2>3. QED
      BY <1>4, <2>1, <2>2 DEF Charge
  <1>5. CASE UNCHANGED vars \/ \E k \in Keys : Expires(k)
    BY <1>0, <1>5 DEF vars, local, Expires, StartInv
  <1>6. QED
    BY <1>2, <1>3, <1>4, <1>5 DEF Next

(* Only h moved, and for the counter k nobody but h can have got a ticket. *)
LEMMA TicketsShrink ==
  ASSUME NEW h \in Handlers, NEW k,
         \A g \in Handlers \ {h} : pc'[g] = pc[g] /\ at'[g] = at[g] /\ seen'[g] = seen[g],
         \A i \in DOMAIN KeysOf[h] : KeysOf[h][i] = k /\ Ticket(h, i)' => Ticket(h, i)
  PROVE  Tickets(k)' \subseteq Tickets(k)
  <1> SUFFICES ASSUME NEW g \in Handlers, NEW i \in DOMAIN KeysOf[g], KeysOf[g][i] = k, Ticket(g, i)'
               PROVE  Ticket(g, i)
    BY DEF Tickets
  <1>1. CASE g = h
    BY <1>1
  <1>2. CASE g # h
    BY <1>2 DEF Ticket, Due
  <1>3. QED
    BY <1>1, <1>2

(* The one position of a counter in a handler's list. *)
LEMMA Position ==
  ASSUME TypeOK, NEW h \in Handlers
  PROVE  /\ Len(KeysOf[h]) \in Nat \ {0} /\ DOMAIN KeysOf[h] = 1..Len(KeysOf[h])
         /\ at[h] \in 1..Len(KeysOf[h]) /\ Key(h) \in Keys
         /\ \A i \in DOMAIN KeysOf[h] : KeysOf[h][i] = Key(h) <=> i = at[h]
         /\ \A i \in DOMAIN KeysOf[h] : KeysOf[h][i] \in Keys
  <1>1. KeysOf[h] \in Seq(Keys) /\ at[h] \in DOMAIN KeysOf[h]
    BY KeysAssumption DEF TypeOK
  <1>2. /\ Len(KeysOf[h]) \in Nat \ {0} /\ Key(h) \in Keys
        /\ DOMAIN KeysOf[h] = 1..Len(KeysOf[h])
    BY <1>1, KeyInKeys
  <1>3. \A i \in DOMAIN KeysOf[h] : KeysOf[h][i] \in Keys
    BY <1>1
  <1>4. \A i \in DOMAIN KeysOf[h] : KeysOf[h][i] = KeysOf[h][at[h]] <=> i = at[h]
    BY <1>1, KeysAssumption, Zenon
  <1>5. QED
    BY <1>1, <1>2, <1>3, <1>4 DEF Key

(* A value below the limit gives a ticket of a counter that is below it. *)
LEMMA GetWithin ==
  ASSUME TypeOK, ChargeInv, NEW h \in Handlers, Get(h)
  PROVE  ChargeInv'
  <1>1. /\ pc[h] = "reading" /\ value' = value /\ NextKey(h, "reading", "checking")
        /\ seen' = [seen EXCEPT ![h][Key(h)] = value[Key(h)]]
    BY DEF Get, redis
  <1>2. /\ \A g \in Handlers \ {h} : pc'[g] = pc[g] /\ at'[g] = at[g]
        /\ \/ at[h] = Len(KeysOf[h]) /\ at'[h] = 1 /\ pc'[h] = "checking"
           \/ at[h] < Len(KeysOf[h]) /\ at'[h] = at[h] + 1 /\ pc'[h] = "reading"
    BY <1>1, NextKeyFacts
  <1>3. /\ \A g \in Handlers \ {h} : seen'[g] = seen[g]
        /\ \A k \in Keys : seen'[h][k] = IF k = Key(h) THEN value[k] ELSE seen[h][k]
    BY <1>1, Position DEF TypeOK
  <1> SUFFICES ASSUME NEW k \in Keys PROVE Within(k)'
    BY DEF ChargeInv
  <1>4. Within(k)
    BY DEF ChargeInv
  <1>5. CASE k = Key(h) /\ value[k] < Limit[k]
    <2>1. value'[k] \in Nat /\ value'[k] < Limit[k] /\ Tickets(k)' \in SUBSET Sharing(k)
      BY <1>1, <1>5, TicketSets DEF TypeOK
    <2>2. Sharing(k)' = Sharing(k) /\ Cost(k)' = Cost(k)
      BY DEF Sharing, Cost
    <2>3. QED
      BY <2>1, <2>2, WithinBelow DEF Within
  <1>6. CASE k # Key(h) \/ ~(value[k] < Limit[k])
    <2>1. ASSUME NEW i \in DOMAIN KeysOf[h], KeysOf[h][i] = k, Ticket(h, i)' PROVE Ticket(h, i)
      <3>1. i \in 1..Len(KeysOf[h]) /\ at[h] \in 1..Len(KeysOf[h]) /\ Len(KeysOf[h]) \in Nat
        BY Position
      <3>2. i # at[h]
        BY <1>2, <1>3, <1>6, <2>1, Position DEF Ticket, Due
      <3>3. seen'[h][k] = seen[h][k]
        BY <1>3, <2>1, <3>2, Position
      <3>4. seen[h][k] < Limit[k] /\ (pc'[h] = "checking" \/ i < at'[h])
        BY <1>2, <2>1, <3>3 DEF Ticket, Due
      <3>5. i < at[h]
        BY <1>2, <3>1, <3>2, <3>4
      <3>6. QED
        BY <1>1, <2>1, <3>4, <3>5 DEF Ticket, Due
    <2>2. Tickets(k)' \subseteq Tickets(k)
      BY <1>2, <1>3, <2>1, TicketsShrink
    <2>3. QED
      BY <1>1, <1>4, <2>2, WithinShrink
  <1>7. QED
    BY <1>5, <1>6

(* A charge takes the ticket of the counter it charges. *)
LEMMA ChargeWithin ==
  ASSUME TypeOK, ChargeInv, NEW h \in Handlers, Charge(h)
  PROVE  ChargeInv'
  <1>1. /\ pc[h] = "charging" /\ value' = [value EXCEPT ![Key(h)] = value[Key(h)] + Cost(Key(h))]
        /\ seen' = [seen EXCEPT ![h][Key(h)] = 0]
        /\ (Goto(h, "expiring") /\ UNCHANGED at) \/ NextKey(h, "charging", "idle")
    BY Position DEF Charge, TypeOK
  <1>2. /\ \A g \in Handlers \ {h} : pc'[g] = pc[g] /\ at'[g] = at[g] /\ seen'[g] = seen[g]
        /\ \/ at[h] = Len(KeysOf[h]) /\ at'[h] = 1 /\ pc'[h] = "idle"
           \/ at[h] < Len(KeysOf[h]) /\ at'[h] = at[h] + 1 /\ pc'[h] = "charging"
           \/ at'[h] = at[h] /\ pc'[h] = "expiring"
    <2>1. \A g \in Handlers \ {h} : seen'[g] = seen[g]
      BY <1>1 DEF TypeOK
    <2>2. CASE Goto(h, "expiring") /\ UNCHANGED at
      BY <2>1, <2>2 DEF Goto, TypeOK
    <2>3. CASE NextKey(h, "charging", "idle")
      BY <2>1, <2>3, NextKeyFacts
    <2>4. QED
      BY <1>1, <2>2, <2>3
  <1>3. \A i \in DOMAIN KeysOf[h] : Ticket(h, i)' => at[h] < i
    BY <1>2, Position DEF Ticket, Due
  <1>4. \A i \in DOMAIN KeysOf[h] : Ticket(h, i) <=> at[h] <= i
    BY <1>1 DEF Ticket, Due
  <1> SUFFICES ASSUME NEW k \in Keys PROVE Within(k)'
    BY DEF ChargeInv
  <1>5. Tickets(k)' \subseteq Tickets(k)
    <2>1. \A i \in DOMAIN KeysOf[h] : Ticket(h, i)' => Ticket(h, i)
      BY <1>3, <1>4, Position
    <2>2. QED
      BY <1>2, <2>1, TicketsShrink
  <1>6. Within(k)
    BY DEF ChargeInv
  <1>7. CASE k # Key(h)
    <2>1. value'[k] = value[k]
      BY <1>1, <1>7, Position DEF TypeOK
    <2>2. QED
      BY <1>5, <1>6, <2>1, WithinShrink
  <1>8. CASE k = Key(h)
    <2>1. h \in Tickets(k)
      <3>1. at[h] \in DOMAIN KeysOf[h] /\ KeysOf[h][at[h]] = k /\ at[h] <= at[h]
        BY <1>8, Position DEF TypeOK
      <3>2. Ticket(h, at[h])
        BY <1>4, <3>1
      <3>3. QED
        BY <3>1, <3>2 DEF Tickets
    <2>2. h \notin Tickets(k)'
      BY <1>3, <1>8, Position DEF Tickets
    <2>3. /\ Cost(k) \in Nat /\ Limit[k] \in Nat /\ value[k] \in Nat
          /\ Cardinality(Sharing(k)) \in Nat /\ Cardinality(Tickets(k)) \in Nat
          /\ Cardinality(Tickets(k)') \in Nat
          /\ Cardinality(Tickets(k)') <= Cardinality(Tickets(k)) - 1
      <3>1. Tickets(k)' \subseteq Tickets(k) \ {h} /\ Tickets(k) \ {h} \in SUBSET Sharing(k)
        BY <1>5, <2>2, TicketSets
      <3>2. Cardinality(Tickets(k)') <= Cardinality(Tickets(k) \ {h})
        BY <3>1, TicketSets
      <3>3. QED
        BY <2>1, <3>2, TicketSets DEF TypeOK
    <2>4. Cost(k) * Cardinality(Tickets(k)') <= Cost(k) * (Cardinality(Tickets(k)) - 1)
      <3>1. Cardinality(Tickets(k)) - 1 \in Nat
        BY <2>3
      <3>2. QED
        BY <2>3, <3>1, Products
    <2>5. /\ Cost(k) * (Cardinality(Tickets(k)) - 1) = Cost(k) * Cardinality(Tickets(k)) - Cost(k)
          /\ Cost(k) * Cardinality(Tickets(k)) \in Nat /\ Cost(k) * Cardinality(Tickets(k)') \in Nat
          /\ Cost(k) * Cardinality(Sharing(k)) \in Nat
      BY <2>3, Products
    <2>6. value'[k] = value[k] + Cost(k)
      BY <1>1, <1>8, Position DEF TypeOK
    <2>7. Sharing(k)' = Sharing(k) /\ Cost(k)' = Cost(k)
      BY DEF Sharing, Cost
    <2>8. QED
      BY <1>6, <2>3, <2>4, <2>5, <2>6, <2>7 DEF Within
  <1>9. QED
    BY <1>7, <1>8

(* The other steps let nobody through. *)
LEMMA OthersWithin ==
  ASSUME TypeOK, StartInv, ChargeInv, NEW h \in Handlers,
         Begin(h) \/ Deny(h) \/ Admit(h) \/ SetTtl(h) \/ Fault(h)
  PROVE  ChargeInv'
  <1>1. value' = value
    BY DEF Begin, Deny, Admit, SetTtl, Fault, redis
  <1>2. \A g \in Handlers \ {h} : pc'[g] = pc[g] /\ at'[g] = at[g] /\ seen'[g] = seen[g]
    <2>1. CASE Begin(h) \/ Deny(h) \/ Admit(h) \/ Fault(h)
      BY <2>1 DEF Begin, Deny, Admit, Fault, Goto, Forget, TypeOK
    <2>2. CASE SetTtl(h)
      BY <2>2, NextKeyFacts DEF SetTtl
    <2>3. QED
      BY <2>1, <2>2
  <1>3. ASSUME NEW i \in DOMAIN KeysOf[h], Ticket(h, i)' PROVE Ticket(h, i)
    <2>0. i \in 1..Len(KeysOf[h]) /\ Len(KeysOf[h]) \in Nat /\ at[h] \in 1..Len(KeysOf[h])
          /\ KeysOf[h][i] \in Keys
      BY Position
    <2>1. CASE Begin(h)
      <3>1. pc'[h] = "reading" /\ at'[h] = 1
        BY <2>1 DEF Begin, Goto, StartInv, TypeOK
      <3>2. QED
        BY <1>3, <2>0, <3>1 DEF Ticket, Due
    <2>2. CASE Deny(h) \/ Fault(h)
      <3>1. pc'[h] = "idle"
        BY <2>2 DEF Deny, Fault, Goto, TypeOK
      <3>2. QED
        BY <1>3, <3>1 DEF Ticket, Due
    <2>3. CASE Admit(h)
      <3>1. pc[h] = "checking" /\ ~(seen[h][KeysOf[h][i]] >= Limit[KeysOf[h][i]])
        BY <2>3 DEF Admit, Exceeded
      <3>2. seen[h][KeysOf[h][i]] \in Nat /\ Limit[KeysOf[h][i]] \in Nat
        BY <2>0, LimitAssumption DEF TypeOK
      <3>3. QED
        BY <3>1, <3>2 DEF Ticket, Due
    <2>4. CASE SetTtl(h)
      <3>1. pc[h] = "expiring" /\ NextKey(h, "charging", "idle")
        BY <2>4 DEF SetTtl
      <3>2. \/ pc'[h] = "idle"
            \/ pc'[h] = "charging" /\ at'[h] = at[h] + 1
        BY <3>1, NextKeyFacts
      <3>3. pc'[h] = "charging" /\ at[h] + 1 <= i
        BY <1>3, <3>2 DEF Ticket, Due
      <3>4. QED
        BY <2>0, <3>1, <3>3 DEF Ticket, Due
    <2>5. QED
      BY <2>1, <2>2, <2>3, <2>4
  <1> SUFFICES ASSUME NEW k \in Keys PROVE Within(k)'
    BY DEF ChargeInv
  <1>4. Tickets(k)' \subseteq Tickets(k)
    BY <1>2, <1>3, TicketsShrink
  <1>5. Within(k)
    BY DEF ChargeInv
  <1>6. QED
    BY <1>1, <1>4, <1>5, WithinShrink

LEMMA ChargeStep == QInv /\ [Next]_vars => ChargeInv'
  <1> SUFFICES ASSUME QInv, [Next]_vars PROVE ChargeInv'
    OBVIOUS
  <1>0. TypeOK /\ StartInv /\ ChargeInv
    BY DEF QInv
  <1>1. ASSUME NEW c \in Keys, Expires(c), NEW k \in Keys PROVE Within(k)'
    <2>1. Tickets(k)' = Tickets(k)
      BY <1>1 DEF Expires, local, Tickets, Ticket, Due
    <2>2. CASE k # c
      <3>1. value'[k] = value[k] /\ Within(k)
        BY <1>0, <1>1, <2>2 DEF Expires, TypeOK, ChargeInv
      <3>2. QED
        BY <1>0, <2>1, <3>1, WithinShrink
    <2>3. CASE k = c
      <3>1. value'[k] = 0 /\ 0 < Limit[k] /\ Tickets(k)' \in SUBSET Sharing(k)
        BY <1>0, <1>1, <2>3, TicketSets DEF Expires, TypeOK
      <3>2. Sharing(k)' = Sharing(k) /\ Cost(k)' = Cost(k)
        BY DEF Sharing, Cost
      <3>3. QED
        BY <3>1, <3>2, WithinBelow DEF Within
    <2>4. QED
      BY <2>2, <2>3
  <1>2. CASE UNCHANGED vars
    BY <1>0, <1>2 DEF vars, redis, local, ChargeInv, Within, Tickets, Ticket, Due, Sharing, Cost
  <1>3. QED
    BY <1>0, <1>1, <1>2, GetWithin, ChargeWithin, OthersWithin DEF Next, ChargeInv


(* A request that is let through owes a charge to each of its counters. *)
LEMMA AdmitPays ==
  ASSUME TypeOK, StartInv, PaidInv, NEW h \in Handlers, Admit(h), NEW k \in Keys
  PROVE  Paid(k)'
  <1>1. /\ pc[h] = "checking" /\ pc'[h] = "charging" /\ at[h] = 1
        /\ \A g \in Handlers \ {h} : pc'[g] = pc[g]
        /\ UNCHANGED <<value, at, resets, faults>> /\ allowed' = [allowed EXCEPT ![h] = @ + 1]
    BY DEF Admit, Goto, StartInv, TypeOK, redis
  <1>2. \A i \in DOMAIN KeysOf[h] : ~Due(h, i) /\ Due(h, i)'
    <2>1. \A i \in DOMAIN KeysOf[h] : 1 <= i
      BY Position
    <2>2. QED
      BY <1>1, <2>1 DEF Due
  <1>3. \A g \in Handlers \ {h} : g \in Dues(k)' <=> g \in Dues(k)
    BY <1>1 DEF Dues, Due
  <1>4. h \notin Dues(k) /\ (h \in Dues(k)' <=> h \in Sharing(k))
    BY <1>2 DEF Dues, Sharing
  <1>5. Paid(k) /\ Expected(k) \in Nat /\ Cost(k) * faults \in Nat
    BY PaidTypes DEF PaidInv
  <1>6. /\ Expected(k) = value[k] + Cost(k) * Cardinality(Dues(k))
        /\ Expected(k)' = value[k] + Cost(k) * Cardinality(Dues(k)')
        /\ Sharing(k)' = Sharing(k) /\ Cost(k)' = Cost(k)
    BY <1>1 DEF Expected, Sharing, Cost
  <1>7. /\ Cost(k) \in Nat /\ value[k] \in Nat /\ Total(Cost(k), allowed, Sharing(k)) \in Nat
        /\ Total(Cost(k), allowed', Sharing(k))
              = Total(Cost(k), allowed, Sharing(k)) + (IF h \in Sharing(k) THEN Cost(k) ELSE 0)
    BY <1>1, TicketSets, Totals DEF TypeOK
  <1>8. CASE h \in Sharing(k)
    <2>1. Dues(k)' \ {h} = Dues(k) /\ h \in Dues(k)'
      BY <1>3, <1>4, <1>8 DEF Dues
    <2>2. /\ Cardinality(Dues(k)) \in Nat /\ Cardinality(Dues(k)') \in Nat
          /\ Cardinality(Dues(k)) = Cardinality(Dues(k)') - 1
      BY <2>1, DueSets
    <2>3. Cost(k) * (Cardinality(Dues(k)') - 1) = Cost(k) * Cardinality(Dues(k)') - Cost(k)
      BY <1>7, <2>2, Products
    <2>4. Cost(k) * Cardinality(Dues(k)) = Cost(k) * Cardinality(Dues(k)') - Cost(k)
      BY <2>2, <2>3
    <2>5. Cost(k) * Cardinality(Dues(k)) \in Nat /\ Cost(k) * Cardinality(Dues(k)') \in Nat
      BY <1>7, <2>2, Products
    <2>6. Expected(k)' = Expected(k) + Cost(k)
      BY <1>6, <1>7, <2>4, <2>5
    <2>7. QED
      BY <1>1, <1>5, <1>6, <1>7, <1>8, <2>6 DEF Paid
  <1>9. CASE h \notin Sharing(k)
    <2>1. Dues(k)' = Dues(k)
      BY <1>3, <1>4, <1>9 DEF Dues
    <2>2. Total(Cost(k), allowed', Sharing(k)) = Total(Cost(k), allowed, Sharing(k))
      BY <1>7, <1>9
    <2>3. QED
      BY <1>1, <1>5, <1>6, <2>1, <2>2 DEF Paid
  <1>10. QED
    BY <1>8, <1>9

(* A charge pays what was owed to its counter. *)
LEMMA ChargePays ==
  ASSUME TypeOK, PaidInv, NEW h \in Handlers, Charge(h), NEW k \in Keys
  PROVE  Paid(k)'
  <1>1. /\ pc[h] = "charging" /\ value' = [value EXCEPT ![Key(h)] = value[Key(h)] + Cost(Key(h))]
        /\ UNCHANGED <<resets, faults, allowed>>
    BY Position DEF Charge, TypeOK
  <1>2. /\ \A g \in Handlers \ {h} : pc'[g] = pc[g] /\ at'[g] = at[g]
        /\ \/ at[h] = Len(KeysOf[h]) /\ at'[h] = 1 /\ pc'[h] = "idle"
           \/ at[h] < Len(KeysOf[h]) /\ at'[h] = at[h] + 1 /\ pc'[h] = "charging"
           \/ at'[h] = at[h] /\ pc'[h] = "expiring"
    <2>1. CASE Goto(h, "expiring") /\ UNCHANGED at
      BY <2>1 DEF Goto, TypeOK
    <2>2. CASE NextKey(h, "charging", "idle")
      BY <2>2, NextKeyFacts
    <2>3. QED
      BY <2>1, <2>2 DEF Charge
  <1>3. \A i \in DOMAIN KeysOf[h] : (Due(h, i) <=> at[h] <= i) /\ (Due(h, i)' <=> at[h] < i)
    <2> SUFFICES ASSUME NEW i \in DOMAIN KeysOf[h]
                 PROVE  (Due(h, i) <=> at[h] <= i) /\ (Due(h, i)' <=> at[h] < i)
      OBVIOUS
    <2>1. i \in 1..Len(KeysOf[h]) /\ Len(KeysOf[h]) \in Nat /\ at[h] \in 1..Len(KeysOf[h])
      BY Position
    <2>2. QED
      BY <1>1, <1>2, <2>1 DEF Due
  <1>4. Paid(k)
    BY DEF PaidInv
  <1>5. CASE k # Key(h)
    <2>1. \A i \in DOMAIN KeysOf[h] : KeysOf[h][i] = k => (Due(h, i)' <=> Due(h, i))
      <3> SUFFICES ASSUME NEW i \in DOMAIN KeysOf[h], KeysOf[h][i] = k PROVE Due(h, i)' <=> Due(h, i)
        OBVIOUS
      <3>1. i # at[h] /\ i \in Nat /\ at[h] \in Nat
        BY <1>5, Position
      <3>2. QED
        BY <1>3, <3>1
    <2>2. Dues(k)' = Dues(k)
      BY <1>2, <2>1, DuesKept
    <2>3. value'[k] = value[k]
      BY <1>1, <1>5, Position DEF TypeOK
    <2>4. QED
      BY <1>1, <1>4, <2>2, <2>3, PaidKept
  <1>6. CASE k = Key(h)
    <2>1. /\ Expected(k) = value[k] + Cost(k) * Cardinality(Dues(k))
          /\ Expected(k)' = value'[k] + Cost(k) * Cardinality(Dues(k)')
      BY DEF Expected, Cost
    <2>2. Sharing(k)' = Sharing(k) /\ Cost(k)' = Cost(k)
      BY DEF Sharing, Cost
    <2>3. h \in Dues(k)
      <3>1. at[h] \in DOMAIN KeysOf[h] /\ KeysOf[h][at[h]] = k /\ at[h] <= at[h]
        BY <1>6, Position DEF TypeOK
      <3>2. Due(h, at[h])
        BY <1>3, <3>1
      <3>3. QED
        BY <3>1, <3>2 DEF Dues
    <2>4. h \notin Dues(k)'
      BY <1>3, <1>6, Position DEF Dues
    <2>5. Dues(k)' = Dues(k) \ {h}
      <3>1. \A g \in Handlers \ {h} : g \in Dues(k)' <=> g \in Dues(k)
        BY <1>2 DEF Dues, Due
      <3>2. QED
        BY <2>4, <3>1 DEF Dues
    <2>6. /\ Cost(k) \in Nat /\ value[k] \in Nat /\ value'[k] = value[k] + Cost(k)
          /\ Cardinality(Dues(k)) \in Nat /\ Cardinality(Dues(k)') = Cardinality(Dues(k)) - 1
      BY <1>1, <1>6, <2>3, <2>5, DueSets, TicketSets DEF TypeOK
    <2>7. /\ Cost(k) * (Cardinality(Dues(k)) - 1) = Cost(k) * Cardinality(Dues(k)) - Cost(k)
          /\ Cost(k) * Cardinality(Dues(k)) \in Nat
      BY <2>6, Products
    <2>8. Cost(k) * Cardinality(Dues(k)') = Cost(k) * Cardinality(Dues(k)) - Cost(k)
      BY <2>6, <2>7
    <2>9. Expected(k)' = Expected(k)
      BY <2>1, <2>6, <2>7, <2>8
    <2>10. QED
      BY <1>1, <1>4, <2>2, <2>9 DEF Paid
  <1>7. QED
    BY <1>5, <1>6

(* An error costs a counter at most the one charge that was still due. *)
LEMMA FaultPays ==
  ASSUME TypeOK, PaidInv, NEW h \in Handlers, Fault(h), NEW k \in Keys
  PROVE  Paid(k)'
  <1>1. /\ UNCHANGED <<value, resets, allowed>> /\ faults' = faults + 1
        /\ pc'[h] = "idle" /\ \A g \in Handlers \ {h} : pc'[g] = pc[g] /\ at'[g] = at[g]
    BY DEF Fault, Goto, redis, TypeOK
  <1>2. Dues(k)' = Dues(k) \ {h}
    BY <1>1 DEF Dues, Due
  <1>3. /\ Paid(k) /\ Cost(k) \in Nat /\ value[k] \in Nat /\ faults \in Nat
        /\ Cost(k) * faults \in Nat /\ Total(Cost(k), allowed, Sharing(k)) \in Nat
        /\ Expected(k) \in Nat /\ Expected(k)' \in Int
        /\ Sharing(k)' = Sharing(k) /\ Cost(k)' = Cost(k)
        /\ Expected(k) = value[k] + Cost(k) * Cardinality(Dues(k))
        /\ Expected(k)' = value[k] + Cost(k) * Cardinality(Dues(k)')
    BY <1>1, PaidTypes DEF PaidInv, Expected, Cost
  <1>4. Expected(k)' \in {Expected(k), Expected(k) - Cost(k)}
    <2>1. CASE h \in Dues(k)
      <3>1. Cardinality(Dues(k)) \in Nat /\ Cardinality(Dues(k)') = Cardinality(Dues(k)) - 1
        BY <1>2, <2>1, DueSets
      <3>2. Cost(k) * Cardinality(Dues(k)') = Cost(k) * Cardinality(Dues(k)) - Cost(k)
        BY <1>3, <3>1, Products
      <3>3. QED
        BY <1>3, <3>2, PaidTypes
    <2>2. CASE h \notin Dues(k)
      BY <1>2, <1>3, <2>2
    <2>3. QED
      BY <2>1, <2>2
  <1>5. Cost(k) * (faults + 1) = Cost(k) * faults + Cost(k)
    <2>1. faults + 1 \in Nat /\ (faults + 1) - 1 = faults
      BY <1>3
    <2>2. Cost(k) * (faults + 1) \in Nat /\ Cost(k) * ((faults + 1) - 1) = Cost(k) * (faults + 1) - Cost(k)
      BY <1>3, <2>1, Products
    <2>3. QED
      BY <1>3, <2>1, <2>2
  <1>6. /\ Expected(k)' <= Total(Cost(k), allowed, Sharing(k))
        /\ resets = 0 => Total(Cost(k), allowed, Sharing(k)) <= Expected(k)' + Cost(k) * (faults + 1)
    BY <1>3, <1>4, <1>5 DEF Paid
  <1>7. QED
    BY <1>1, <1>3, <1>6 DEF Paid

LEMMA PaidStep == QInv /\ [Next]_vars => PaidInv'
  <1> SUFFICES ASSUME QInv, [Next]_vars, NEW k \in Keys PROVE Paid(k)'
    BY DEF PaidInv
  <1>0. TypeOK /\ StartInv /\ PaidInv /\ Paid(k)
    BY DEF QInv, PaidInv
  <1>1. ASSUME NEW h \in Handlers, Begin(h) \/ Get(h) \/ Deny(h) PROVE Paid(k)'
    <2>1. /\ UNCHANGED <<value, resets, faults, allowed>>
          /\ pc[h] \notin {"charging", "expiring"}
      BY <1>1 DEF Begin, Get, Deny, redis
    <2>2. /\ \A g \in Handlers \ {h} : pc'[g] = pc[g] /\ at'[g] = at[g]
          /\ pc'[h] \notin {"charging", "expiring"}
      <3>1. CASE Begin(h) \/ Deny(h)
        BY <1>0, <3>1 DEF Begin, Deny, Goto, TypeOK
      <3>2. CASE Get(h)
        BY <1>0, <3>2, NextKeyFacts DEF Get
      <3>3. QED
        BY <1>1, <3>1, <3>2
    <2>3. Dues(k)' = Dues(k)
      BY <2>1, <2>2, DuesKept DEF Due
    <2>4. QED
      BY <1>0, <2>1, <2>3, PaidKept
  <1>2. ASSUME NEW h \in Handlers, SetTtl(h) PROVE Paid(k)'
    <2>1. /\ UNCHANGED <<value, resets, faults, allowed>>
          /\ pc[h] = "expiring" /\ NextKey(h, "charging", "idle")
      BY <1>2 DEF SetTtl
    <2>2. /\ \A g \in Handlers \ {h} : pc'[g] = pc[g] /\ at'[g] = at[g]
          /\ \/ at[h] = Len(KeysOf[h]) /\ at'[h] = 1 /\ pc'[h] = "idle"
             \/ at[h] < Len(KeysOf[h]) /\ at'[h] = at[h] + 1 /\ pc'[h] = "charging"
      BY <1>0, <2>1, NextKeyFacts
    <2>3. \A i \in DOMAIN KeysOf[h] : Due(h, i)' <=> Due(h, i)
      <3> SUFFICES ASSUME NEW i \in DOMAIN KeysOf[h] PROVE Due(h, i)' <=> Due(h, i)
        OBVIOUS
      <3>1. i \in 1..Len(KeysOf[h]) /\ Len(KeysOf[h]) \in Nat /\ at[h] \in 1..Len(KeysOf[h])
        BY <1>0, Position
      <3>2. QED
        BY <2>1, <2>2, <3>1 DEF Due
    <2>4. Dues(k)' = Dues(k)
      BY <2>2, <2>3, DuesKept
    <2>5. QED
      BY <1>0, <2>1, <2>4, PaidKept
  <1>3. ASSUME NEW h \in Handlers, Fault(h) PROVE Paid(k)'
    BY <1>0, <1>3, FaultPays
  <1>4. ASSUME NEW c \in Keys, Expires(c) PROVE Paid(k)'
    <2>1. /\ resets' # 0 /\ UNCHANGED <<faults, allowed>> /\ Dues(k)' = Dues(k)
          /\ value'[k] \in {0, value[k]}
      BY <1>0, <1>4, QuotaBounds DEF Expires, TypeOK, local, Dues, Due
    <2>2. Expected(k)' = value'[k] + Cost(k) * Cardinality(Dues(k))
      BY <2>1 DEF Expected, Cost
    <2>3. Expected(k)' <= Expected(k) /\ Expected(k)' \in Nat
      BY <1>0, <2>1, <2>2, PaidTypes DEF Expected
    <2>4. QED
      BY <1>0, <2>1, <2>3, PaidTypes DEF Paid
  <1>5. CASE UNCHANGED vars
    <2>1. Dues(k)' = Dues(k)
      BY <1>5 DEF vars, local, Dues, Due
    <2>2. QED
      BY <1>0, <1>5, <2>1, PaidKept DEF vars, redis
  <1>6. QED
    BY <1>0, <1>1, <1>2, <1>3, <1>4, <1>5, AdmitPays, ChargePays DEF Next

-----------------------------------------------------------------------------
(* QInv holds in every reachable state. *)
THEOREM QuotaInvariance == Spec => []QInv
  <1>1. Init => QInv
    BY InitQInv
  <1>2. QInv /\ [Next]_vars => QInv'
    BY TypeStep, SeenStep, UntimedStep, StartStep, ChargeStep, PaidStep DEF QInv
  <1>3. QED
    BY <1>1, <1>2, PTL DEF Spec

(* check_and_increment keeps its types: no handler runs past its counters. *)
THEOREM QuotaTypeCorrectness == Spec => []TypeOK
  BY QuotaInvariance, PTL DEF QInv

(* A counter loses its time to live only when it expires between the GET   *)
(* and the INCR of a handler, or Redis fails between INCR and EXPIRE.      *)
THEOREM UntimedCounters == Spec => []UntimedOnlyByRace
  BY QuotaInvariance, PTL DEF QInv

(* A counter overshoots its limit by less than one charge of each caller   *)
(* that shares it (FR-26), however their commands interleave.              *)
THEOREM Overshoot == Spec => []OvershootBounded
  <1>1. ASSUME QInv, NEW k \in Keys
        PROVE  value[k] <= Limit[k] - 1 + Cost(k) * Cardinality(Sharing(k))
    <2>1. Within(k) /\ value[k] \in Nat
      BY <1>1 DEF QInv, ChargeInv, TypeOK
    <2>2. /\ Cost(k) \in Nat /\ Limit[k] \in Nat
          /\ Cardinality(Sharing(k)) \in Nat /\ Cardinality(Tickets(k)) \in Nat
      BY TicketSets
    <2>3. Cost(k) * Cardinality(Tickets(k)) \in Nat /\ Cost(k) * Cardinality(Sharing(k)) \in Nat
      BY <2>2, Products
    <2>4. QED
      BY <2>1, <2>2, <2>3 DEF Within
  <1>2. QInv => OvershootBounded
    BY <1>1 DEF OvershootBounded
  <1>3. QED
    BY <1>2, QuotaInvariance, PTL

(* At rest a counter is what its callers were allowed, less one charge for *)
(* each error at most; it is never more, not even after errors and         *)
(* expiries (check_and_increment, "before any mutation").                  *)
THEOREM ChargedWhole == Spec => []AllOrNothing
  <1>1. ASSUME QInv, \A h \in Handlers : pc[h] = "idle", NEW k \in Keys
        PROVE  LET owed == MapThenSumSet(LAMBDA h : Cost(k) * allowed[h], Sharing(k))
               IN /\ value[k] <= owed
                  /\ resets = 0 => owed <= value[k] + Cost(k) * faults
    <2>1. TypeOK /\ Paid(k)
      BY <1>1 DEF QInv, PaidInv
    <2>2. Cardinality(Dues(k)) = 0
      <3>1. Dues(k) = {}
        BY <1>1 DEF Dues, Due
      <3>2. QED
        BY <3>1, FS_EmptySet
    <2>3. Cost(k) \in Nat /\ value[k] \in Nat
      BY <2>1, PaidTypes
    <2>4. Expected(k) = value[k]
      BY <2>2, <2>3 DEF Expected
    <2>5. QED
      BY <2>1, <2>4 DEF Paid, Total
  <1>2. QInv => AllOrNothing
    BY <1>1 DEF AllOrNothing
  <1>3. QED
    BY <1>2, QuotaInvariance, PTL

=============================================================================
