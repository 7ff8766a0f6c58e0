----------------------- MODULE ConstraintEngineProofs -----------------------
(***************************************************************************)
(* Proofs of what the engine guarantees, for days of any length and any   *)
(* shifts, rules, exceptions and limits: the split into local days loses  *)
(* no tick of a shift; the window it fetches holds all it has to add up   *)
(* or count for the day, the week and the streak.                         *)
(*                                                                        *)
(* Total is a fold, that is a recursive function.  Its laws are proved    *)
(* from least members of families of sets (Least), which stands for       *)
(* induction over finite sets.                                            *)
(***************************************************************************)
EXTENDS ConstraintEngine, FiniteSetTheorems, TLAPS

-----------------------------------------------------------------------------
(* Division: days and the ticks in them *)

\* A tick is its day and its place in that day.

LEMMA Division ==
  ASSUME NEW t \in Nat, NEW n \in Nat \ {0}
  PROVE  /\ t = n * (t \div n) + (t % n)
         /\ t % n \in 0..n - 1
         /\ t \div n \in Nat
  OBVIOUS

\* Later ticks are not on earlier days, and on one day they keep their distance.
LEMMA DayOrder ==
  ASSUME NEW n \in Nat \ {0}, NEW t \in Nat, NEW u \in Nat, t =< u
  PROVE  /\ t \div n =< u \div n
         /\ t \div n = u \div n => (u % n) - (t % n) = u - t
<1> DEFINE q == t \div n
           k == u \div n
           a == t % n
           b == u % n
<1>1. t = n * q + a /\ a \in 0..n - 1 /\ q \in Nat
  BY Division
<1>2. u = n * k + b /\ b \in 0..n - 1 /\ k \in Nat
  BY Division
<1> HIDE DEF q, k, a, b
<1>3. n * q \in Nat /\ n * k \in Nat
  BY <1>1, <1>2
<1>4. q =< k
  <2>1. SUFFICES ASSUME k + 1 =< q PROVE FALSE
    BY <1>1, <1>2
  <2>2. n * (k + 1) =< n * q
    BY <2>1, <1>1, <1>2
  <2>3. n * (k + 1) = n * k + n
    BY <1>2
  <2> QED
    BY <1>1, <1>2, <1>3, <2>2, <2>3
<1>5. q = k => b - a = u - t
  <2>1. q = k => n * q = n * k
    OBVIOUS
  <2> QED
    BY <1>1, <1>2, <1>3, <2>1
<1> QED
  BY <1>4, <1>5 DEF q, k, a, b

-----------------------------------------------------------------------------
(* What a call reads is well typed *)

TypeOK ==
  /\ held \subseteq Candidates
  /\ rules \subseteq InitRules \cup RuleChoices
  /\ exceptions \subseteq ExceptionChoices

\* The rows the engine reads stay among those the constants allow.
LEMMA Typed == Spec => []TypeOK
<1>1. Init => TypeOK
  BY DEF Init, TypeOK
<1>2. TypeOK /\ [Next]_vars => TypeOK'
  BY DEF TypeOK, Next, vars, Assign, Unassign, SetRule, SetException
<1> QED
  BY <1>1, <1>2, PTL DEF Spec

-----------------------------------------------------------------------------
(* The split into local days *)

\* Every tick of a shift lies in the segment of its day.
LEMMA TickInSegment ==
  ASSUME NEW w \in Candidates, NEW t \in w.start..w.end - 1
  PROVE  \E g \in Segments(w) :
           g.day = DayOf(t) /\ g.from =< t % DayLength /\ t % DayLength < g.to
           /\ g.from \in Int /\ g.to \in Int
<1> DEFINE n == DayLength
<1> DEFINE g == [day |-> DayOf(t),
                 from |-> IF DayOf(t) = StartDay(w) THEN w.start % DayLength ELSE 0,
                 to |-> IF DayOf(t) = DayOf(w.end) THEN w.end % DayLength ELSE DayLength]
<1>1. n \in Nat \ {0} /\ w.start \in Nat /\ w.end \in Nat /\ t \in Nat /\ w.start =< t /\ t < w.end
  BY CalendarAssumption
<1>2. /\ t % n \in 0..n - 1 /\ t \div n \in Nat
      /\ w.start % n \in 0..n - 1 /\ w.start \div n \in Nat
      /\ w.end % n \in 0..n - 1 /\ w.end \div n \in Nat
  BY <1>1, Division
<1> HIDE DEF n
<1>3. /\ w.start \div n =< t \div n
      /\ t \div n = w.start \div n => w.start % n =< t % n
  <2>1. w.start \div n =< t \div n
    BY <1>1, DayOrder
  <2>2. t \div n = w.start \div n => (t % n) - (w.start % n) = t - w.start
    BY <1>1, DayOrder
  <2> QED
    BY <1>1, <1>2, <2>1, <2>2
<1>4. /\ t \div n =< w.end \div n
      /\ t \div n = w.end \div n => t % n < w.end % n
  <2>1. t =< w.end
    BY <1>1
  <2>2. t \div n =< w.end \div n
    BY <1>1, <2>1, DayOrder
  <2>3. t \div n = w.end \div n => (w.end % n) - (t % n) = w.end - t
    BY <1>1, <2>1, DayOrder
  <2> QED
    BY <1>1, <1>2, <2>2, <2>3
<1>9. g \in Segments(w)
  <2>1. DayOf(t) \in LocalDays(w)
    BY <1>2, <1>3, <1>4 DEF LocalDays, DayOf, StartDay, n
  <2> QED
    BY <2>1 DEF Segments
<1>10. g.day = DayOf(t) /\ g.from =< t % DayLength /\ t % DayLength < g.to
       /\ g.from \in Int /\ g.to \in Int
  BY <1>1, <1>2, <1>3, <1>4 DEF DayOf, StartDay, n
<1> QED
  BY <1>9, <1>10

\* The engine's answer is right at every tick of the shift.
LEMMA AvailableIsIn ==
  ASSUME TypeOK, NEW w \in Candidates, IsAvailable(w), NEW t \in w.start..w.end - 1
  PROVE  InAt(t)
<1> PICK g \in Segments(w) :
         g.day = DayOf(t) /\ g.from =< t % DayLength /\ t % DayLength < g.to
         /\ g.from \in Int /\ g.to \in Int
  BY TickInSegment
<1> DEFINE tick == t % DayLength
<1>1. tick \in Int
  BY CalendarAssumption, Division
<1>2. \A e \in exceptions : e.first \in Int /\ e.last \in Int /\ e.whole \in BOOLEAN
  BY AvailabilityAssumption, CalendarAssumption DEF TypeOK
<1>3. \A r \in rules : r.first \in Int /\ r.last \in Int
  BY AvailabilityAssumption, CalendarAssumption DEF TypeOK
<1>4. ~\E e \in exceptions : /\ e.type = "UNAVAILABLE" /\ e.day = DayOf(t)
                             /\ e.whole \/ (e.first =< tick /\ tick =< e.last)
  <2>1. \A e \in exceptions : ~Blocks(e, g)
    BY DEF IsAvailable
  <2> HIDE DEF tick
  <2> QED
    BY <1>1, <1>2, <2>1 DEF Blocks, InclusiveEnd, tick
<1>5. CASE \E e \in exceptions : Opens(e, g)
  BY <1>1, <1>2, <1>4, <1>5 DEF Opens, Within, InclusiveEnd, InAt
<1>6. CASE \E r \in rules : r.dayOfWeek = DayOfWeek(g.day) /\ Within(g, r)
  BY <1>1, <1>3, <1>4, <1>6 DEF Within, InclusiveEnd, InAt
<1> QED
  BY <1>5, <1>6 DEF IsAvailable

\* UNAVAILABLE blocks.
LEMMA UnavailableIsRefused ==
  ASSUME NEW w, Accepted(w)
  PROVE  IsAvailable(w)
<1>1. SUFFICES ASSUME ~IsAvailable(w) PROVE "UNAVAILABLE" \in Violations(w)
  BY DEF Accepted, Warnings
<1> QED
  BY <1>1 DEF Violations

-----------------------------------------------------------------------------
\* A shift is only ever given to somebody who is in for the whole of it: assign's engine
\* run, with its split into local days, misses no part of a shift.
THEOREM OnlyWhenIn == Spec => GivenOnlyWhenIn
<1>1. ASSUME TypeOK, [Next]_vars, NEW w \in Candidates, Given(w), NEW t \in w.start..w.end - 1
      PROVE  InAt(t)
  <2>1. Assign(w) /\ Accepted(w)
    BY <1>1 DEF Given, Next, vars, Assign, Unassign, SetRule, SetException
  <2>2. IsAvailable(w)
    BY <2>1, UnavailableIsRefused
  <2> QED
    BY <1>1, <2>2, AvailableIsIn
<1>2. TypeOK /\ [Next]_vars =>
        [\A w \in Candidates : Given(w) => \A t \in w.start..w.end - 1 : InAt(t)]_vars
  BY <1>1
<1> QED
  BY <1>2, Typed, PTL DEF Spec, GivenOnlyWhenIn

-----------------------------------------------------------------------------
(* Sums over sets of shifts *)

\* Every family of subsets of a finite set has a least member: induction over finite sets.
LEMMA Least ==
  ASSUME NEW S, IsFiniteSet(S), NEW B, B \subseteq SUBSET S, B # {}
  PROVE  \E s \in B : \A t \in B : t \subseteq s => t = s
<1>1. B \subseteq FiniteSubsetsOf(S)
  BY FS_Subset DEF FiniteSubsetsOf
<1>2. IsWellFoundedOn(StrictSubsetOrdering(S), FiniteSubsetsOf(S))
  BY FS_StrictSubsetOrderingWellFounded
<1>3. \E s \in B : \A t \in B : <<t, s>> \notin StrictSubsetOrdering(S)
  BY <1>1, <1>2, WFMin
<1> QED
  BY <1>1, <1>3 DEF StrictSubsetOrdering

First(s) == CHOOSE x \in s : TRUE

\* f sums hours over the subsets of S, in the order in which First takes the shifts.
Sums(f, S) ==
  f = [s \in SUBSET S |-> IF s = {} THEN 0 ELSE Hours(First(s)) + f[s \ {First(s)}]]

Summed(S) == CHOOSE f : Sums(f, S)

\* The fold of the community modules, for hours.
LEMMA TotalIs ==
  ASSUME NEW S
  PROVE  Total(S) = Summed(S)[S]
BY DEF Total, MapThenSumSet, MapThenFoldSet, Summed, Sums, First

\* Two recursive sums agree where both are defined: they choose the same first elements.
LEMMA Coherent ==
  ASSUME NEW S, IsFiniteSet(S), NEW T \in SUBSET S, NEW f, Sums(f, S), NEW g, Sums(g, T)
  PROVE  \A s \in SUBSET T : f[s] = g[s]
<1> DEFINE Differ == {s \in SUBSET T : f[s] # g[s]}
<1> SUFFICES ASSUME Differ # {} PROVE FALSE
  OBVIOUS
<1>1. IsFiniteSet(T)
  BY FS_Subset
<1>subsets. Differ \subseteq SUBSET T
  OBVIOUS
<1>least. \E s \in Differ : \A t \in Differ : t \subseteq s => t = s
  <2> HIDE DEF Differ
  <2> QED
    BY <1>1, <1>subsets, Least
<1> PICK s \in Differ : \A t \in Differ : t \subseteq s => t = s
  BY <1>least
<1> DEFINE t == s \ {First(s)}
<1>2. f[s] = (IF s = {} THEN 0 ELSE Hours(First(s)) + f[t])
  BY DEF Sums
<1>3. g[s] = (IF s = {} THEN 0 ELSE Hours(First(s)) + g[t])
  BY DEF Sums
<1>4. s # {}
  BY <1>2, <1>3
<1>5. First(s) \in s
  BY <1>4 DEF First
<1>6. t \notin Differ
  BY <1>5
<1> QED
  BY <1>2, <1>3, <1>6

\* The recursive definition of a sum over the subsets of a finite set has a solution.
LEMMA SumsExist ==
  ASSUME NEW S, IsFiniteSet(S)
  PROVE  Sums(Summed(S), S)
<1> DEFINE Bad == {s \in SUBSET S : ~\E f : Sums(f, s)}
<1>1. ASSUME Bad # {} PROVE FALSE
  <2>subsets. Bad \subseteq SUBSET S
    OBVIOUS
  <2>least. \E T \in Bad : \A t \in Bad : t \subseteq T => t = T
    <3> HIDE DEF Bad
    <3> QED
      BY <1>1, <2>subsets, Least
  <2> PICK T \in Bad : \A t \in Bad : t \subseteq T => t = T
    BY <2>least
  <2>1. \A t \in SUBSET T : t # T => Sums(Summed(t), t)
    BY DEF Summed
  <2> DEFINE f == [s \in SUBSET T |->
                     IF s = {} THEN 0
                     ELSE Hours(First(s)) + Summed(s \ {First(s)})[s \ {First(s)}]]
  <2>2. ASSUME NEW t \in SUBSET T, t # T
        PROVE  f[t] = Summed(t)[t]
    <3>1. Summed(t)[t] = (IF t = {} THEN 0 ELSE Hours(First(t)) + Summed(t)[t \ {First(t)}])
      BY <2>1, <2>2 DEF Sums
    <3>2. CASE t = {}
      BY <3>1, <3>2
    <3>3. CASE t # {}
      <4> DEFINE u == t \ {First(t)}
      <4>1. IsFiniteSet(t)
        BY FS_Subset
      <4>2. u \in SUBSET t /\ u \in SUBSET T /\ u # T
        BY <2>2
      <4>3. Summed(t)[u] = Summed(u)[u]
        BY <2>1, <2>2, <4>1, <4>2, Coherent
      <4> QED
        BY <3>1, <3>3, <4>3
    <3> QED
      BY <3>2, <3>3
  <2>3. ASSUME NEW s \in SUBSET T, s # {}
        PROVE  f[s] = Hours(First(s)) + f[s \ {First(s)}]
    <3> DEFINE t == s \ {First(s)}
    <3>1. First(s) \in s
      BY <2>3 DEF First
    <3>2. t \in SUBSET T /\ t # T
      BY <3>1
    <3>3. f[t] = Summed(t)[t]
      BY <2>2, <3>2
    <3> QED
      BY <2>3, <3>3
  <2>4. Sums(f, T)
    <3> HIDE DEF f
    <3>1. f = [s \in SUBSET T |-> f[s]] /\ f[{}] = 0
      BY DEF f
    <3>2. \A s \in SUBSET T : f[s] = IF s = {} THEN 0 ELSE Hours(First(s)) + f[s \ {First(s)}]
      BY <2>3, <3>1
    <3> QED
      BY <3>1, <3>2 DEF Sums
  <2> QED
    BY <2>4
<1> QED
  BY <1>1 DEF Summed

\* What Total computes, one shift at a time.
LEMMA TotalStep ==
  ASSUME NEW S, IsFiniteSet(S)
  PROVE  /\ Total({}) = 0
         /\ S # {} => /\ First(S) \in S
                      /\ Total(S) = Hours(First(S)) + Total(S \ {First(S)})
<1>1. Total({}) = 0
  <2>1. Summed({})[{}] = 0
    BY FS_EmptySet, SumsExist DEF Sums
  <2> QED
    BY <2>1, TotalIs
<1>2. ASSUME S # {}
      PROVE  /\ First(S) \in S
             /\ Total(S) = Hours(First(S)) + Total(S \ {First(S)})
  <2> DEFINE t == S \ {First(S)}
  <2>1. First(S) \in S
    BY <1>2 DEF First
  <2>2. IsFiniteSet(t)
    BY FS_Subset
  <2>3. Sums(Summed(S), S) /\ Sums(Summed(t), t)
    BY <2>2, SumsExist
  <2>4. Summed(S)[t] = Summed(t)[t]
    BY <2>3, Coherent
  <2>5. Summed(S)[S] = Hours(First(S)) + Summed(S)[t]
    BY <1>2, <2>3 DEF Sums
  <2> QED
    BY <2>1, <2>4, <2>5, TotalIs
<1> QED
  BY <1>1, <1>2

\* Hours add up to hours.
LEMMA TotalType ==
  ASSUME NEW S, IsFiniteSet(S), \A w \in S : Hours(w) \in Nat
  PROVE  Total(S) \in Nat
<1> DEFINE Bad == {s \in SUBSET S : Total(s) \notin Nat}
<1> SUFFICES ASSUME Bad # {} PROVE FALSE
  OBVIOUS
<1>subsets. Bad \subseteq SUBSET S
  OBVIOUS
<1>least. \E s \in Bad : \A t \in Bad : t \subseteq s => t = s
  <2> HIDE DEF Bad
  <2> QED
    BY <1>subsets, Least
<1> PICK s \in Bad : \A t \in Bad : t \subseteq s => t = s
  BY <1>least
<1>1. IsFiniteSet(s)
  BY FS_Subset
<1>5. s # {}
  <2>1. Total({}) = 0 /\ Total(s) \notin Nat
    BY <1>1, TotalStep
  <2>2. ASSUME s = {} PROVE Total(s) = Total({})
    BY <2>2
  <2> QED
    BY <2>1, <2>2
<1>2. First(s) \in s /\ Total(s) = Hours(First(s)) + Total(s \ {First(s)})
  BY <1>1, <1>5, TotalStep
<1>3. Total(s \ {First(s)}) \in Nat
  BY <1>2
<1>4. Hours(First(s)) \in Nat
  BY <1>2
<1> QED
  BY <1>2, <1>3, <1>4

\* The order in which Total goes through the shifts does not matter.
LEMMA TotalRemove ==
  ASSUME NEW S, IsFiniteSet(S), \A w \in S : Hours(w) \in Nat, NEW v \in S
  PROVE  Total(S) = Hours(v) + Total(S \ {v})
<1> DEFINE Bad == {s \in SUBSET S : \E y \in s : Total(s) # Hours(y) + Total(s \ {y})}
<1> SUFFICES ASSUME Bad # {} PROVE FALSE
  OBVIOUS
<1>subsets. Bad \subseteq SUBSET S
  OBVIOUS
<1>least. \E s \in Bad : \A t \in Bad : t \subseteq s => t = s
  <2> HIDE DEF Bad
  <2> QED
    BY <1>subsets, Least
<1> PICK s \in Bad : \A t \in Bad : t \subseteq s => t = s
  BY <1>least
<1> PICK y \in s : Total(s) # Hours(y) + Total(s \ {y})
  OBVIOUS
<1> DEFINE x == First(s)
           rest == s \ {x, y}
<1>1. IsFiniteSet(s) /\ IsFiniteSet(s \ {x}) /\ IsFiniteSet(s \ {y}) /\ IsFiniteSet(rest)
  BY FS_Subset
<1>2. x \in s /\ Total(s) = Hours(x) + Total(s \ {x})
  BY <1>1, TotalStep
<1>3. x # y
  BY <1>2
<1>4. s \ {x} \notin Bad /\ s \ {y} \notin Bad
  BY <1>2
<1>5. (s \ {x}) \ {y} = rest /\ (s \ {y}) \ {x} = rest /\ y \in s \ {x} /\ x \in s \ {y}
  BY <1>2, <1>3
<1>6. Total(s \ {x}) = Hours(y) + Total(rest)
  BY <1>4, <1>5
<1>7. Total(s \ {y}) = Hours(x) + Total(rest)
  BY <1>4, <1>5
<1>8. Hours(x) \in Nat /\ Hours(y) \in Nat /\ Total(rest) \in Nat
  BY <1>1, <1>2, TotalType
<1> HIDE DEF x, rest
<1>9. Total(s) = Hours(x) + (Hours(y) + Total(rest))
  BY <1>2, <1>6
<1>10. Total(s \ {y}) = Hours(x) + Total(rest)
  BY <1>7
<1> QED
  BY <1>8, <1>9, <1>10

\* More shifts have no fewer hours.
LEMMA TotalMonotone ==
  ASSUME NEW T, IsFiniteSet(T), \A w \in T : Hours(w) \in Nat, NEW S \in SUBSET T
  PROVE  Total(S) =< Total(T)
<1> DEFINE Bad == {t \in SUBSET T : S \subseteq t /\ ~(Total(S) =< Total(t))}
<1> SUFFICES ASSUME Bad # {} PROVE FALSE
  OBVIOUS
<1>subsets. Bad \subseteq SUBSET T
  OBVIOUS
<1>least. \E t \in Bad : \A u \in Bad : u \subseteq t => u = t
  <2> HIDE DEF Bad
  <2> QED
    BY <1>subsets, Least
<1> PICK t \in Bad : \A u \in Bad : u \subseteq t => u = t
  BY <1>least
<1>1. IsFiniteSet(t) /\ IsFiniteSet(S)
  BY FS_Subset
<1>2. Total(S) \in Nat /\ Total(t) \in Nat
  BY <1>1, TotalType
<1>3. S # t
  BY <1>2
<1> PICK y \in t \ S : TRUE
  BY <1>3
<1>4. IsFiniteSet(t \ {y}) /\ Total(t \ {y}) \in Nat
  BY <1>1, FS_Subset, TotalType
<1>5. Total(t) = Hours(y) + Total(t \ {y}) /\ Hours(y) \in Nat
  BY <1>1, TotalRemove
<1>6. Total(S) =< Total(t \ {y})
  OBVIOUS
<1> QED
  BY <1>2, <1>4, <1>5, <1>6

-----------------------------------------------------------------------------
(* What the engine knows *)

\* A bounded set of numbers that is not empty has its maximum.
LEMMA MaxIsBound ==
  ASSUME NEW c \in Nat, NEW N \in SUBSET (0..c), NEW n \in N
  PROVE  Max(N) \in N /\ n =< Max(N)
<1> DEFINE above(m) == (m + 1)..c
           Tails == {above(m) : m \in N}
           All == 0..c
<1>1. IsFiniteSet(All)
  BY FS_Interval
<1>2. Tails \subseteq SUBSET All /\ Tails # {}
  OBVIOUS
<1>3. PICK s \in Tails : \A t \in Tails : t \subseteq s => t = s
  <2> HIDE DEF Tails, All
  <2> QED
    BY <1>1, <1>2, Least
<1>4. PICK m \in N : s = above(m)
  OBVIOUS
<1>5. ASSUME NEW k \in N PROVE m >= k
  <2> SUFFICES ASSUME k > m PROVE FALSE
    OBVIOUS
  <2>1. above(k) = above(m)
    <3>1. above(k) \in Tails
      OBVIOUS
    <3>2. above(k) \subseteq s
      <4>1. above(k) \subseteq above(m)
        OBVIOUS
      <4> QED
        BY <1>4, <4>1
    <3> HIDE DEF Tails
    <3>3. above(k) = s
      BY <1>3, <3>1, <3>2
    <3> QED
      BY <1>4, <3>3
  <2>2. k \in above(m) /\ k \notin above(k)
    OBVIOUS
  <2> QED
    BY <2>1, <2>2
<1>6. Max(N) \in N /\ \A k \in N : Max(N) >= k
  BY <1>5 DEF Max
<1> QED
  BY <1>6

\* A tick lies between the first tick of its day and that of the next.
LEMMA DayBounds ==
  ASSUME NEW t \in Nat
  PROVE  /\ DayOf(t) \in Nat
         /\ DayLength * DayOf(t) =< t
         /\ t < DayLength * DayOf(t) + DayLength
<1>1. DayLength \in Nat \ {0}
  BY CalendarAssumption
<1>2. t = DayLength * (t \div DayLength) + (t % DayLength) /\ t % DayLength \in 0..DayLength - 1
      /\ t \div DayLength \in Nat
  BY <1>1, Division
<1> QED
  BY <1>1, <1>2 DEF DayOf

\* The days of a shift.
LEMMA ShiftDays ==
  ASSUME NEW w \in Candidates
  PROVE  /\ w.start \in Nat /\ w.end \in Nat /\ w.start < w.end
         /\ Hours(w) \in Nat
         /\ StartDay(w) \in Nat
         /\ DayLength * StartDay(w) =< w.start
         /\ w.start < DayLength * StartDay(w) + DayLength
<1>1. w.start \in Nat /\ w.end \in Nat /\ w.start < w.end
  BY CalendarAssumption
<1> QED
  BY <1>1, DayBounds DEF Hours, StartDay

\* The fetched window holds every other shift that starts on the day of the candidate or
\* on one of the six days before it.
LEMMA FetchedReachesBack ==
  ASSUME TypeOK, NEW w \in Candidates, NEW v \in held, v # w,
         StartDay(v) =< StartDay(w), StartDay(w) - 6 =< StartDay(v)
  PROVE  v \in Fetched(w)
<1> DEFINE n == DayLength
           a == StartDay(v)
           b == StartDay(w)
<1>1. n \in Nat \ {0}
  BY CalendarAssumption
<1>2. /\ v.start \in Nat /\ v.end \in Nat /\ v.start < v.end /\ a \in Nat
      /\ n * a =< v.start /\ v.start < n * a + n
  BY ShiftDays DEF TypeOK
<1>3. /\ w.start \in Nat /\ w.end \in Nat /\ w.start < w.end /\ b \in Nat
      /\ n * b =< w.start /\ w.start < n * b + n
  BY ShiftDays
<1>4. a =< b /\ b - 6 =< a
  OBVIOUS
<1> HIDE DEF n, a, b
<1>5. n * a =< n * b /\ n * b =< n * (a + 6) /\ n * (a + 6) = n * a + 6 * n
  <2>1. n * a =< n * b
    BY <1>1, <1>2, <1>3, <1>4
  <2>2. n * b =< n * (a + 6)
    BY <1>1, <1>2, <1>3, <1>4
  <2>3. n * (a + 6) = n * a + 6 * n
    BY <1>1, <1>2
  <2> QED
    BY <2>1, <2>2, <2>3
<1>6. n * a \in Nat /\ n * b \in Nat
  BY <1>1, <1>2, <1>3
<1>7. v.start < w.end + 2 * n /\ v.end > w.start - 9 * n
  BY <1>1, <1>2, <1>3, <1>5, <1>6
<1>8. v.start < w.end + LookAhead /\ v.end > w.start - LookBehind
  BY <1>1, <1>7 DEF LookAhead, LookBehind, n
<1> QED
  BY <1>8 DEF Fetched

\* DAILY_HOURS_HARD_BLOCK blocks.
LEMMA DailyIsRefused ==
  ASSUME NEW w, Accepted(w)
  PROVE  ~(HoursOn(Fetched(w), StartDay(w)) + Hours(w) > DailyBlock)
<1>1. SUFFICES ASSUME HoursOn(Fetched(w), StartDay(w)) + Hours(w) > DailyBlock
               PROVE  "DAILY_HOURS_HARD_BLOCK" \in Violations(w)
  BY DEF Accepted, Warnings
<1> QED
  BY <1>1 DEF Violations

\* SEVENTH_CONSECUTIVE_DAY blocks.
LEMMA StreakIsRefused ==
  ASSUME NEW w, Accepted(w), StreakBefore(Fetched(w), StartDay(w)) + 1 >= 7
  PROVE  WeekOf(StartDay(w)) \in overrides
<1>1. SUFFICES ASSUME WeekOf(StartDay(w)) \notin overrides
               PROVE  "SEVENTH_CONSECUTIVE_DAY" \in Violations(w)
  BY DEF Accepted, Warnings
<1> QED
  BY <1>1 DEF Violations

\* The weekly warnings say what the engine counted.
LEMMA WarningsCount ==
  ASSUME NEW w
  PROVE  LET weekly == HoursIn(Fetched(w), WeekOf(StartDay(w))) + Hours(w)
         IN  /\ "WEEKLY_HOURS_OVERTIME" \in Violations(w) => weekly > WeeklyOvertime
             /\ "WEEKLY_HOURS_WARNING" \in Violations(w) => weekly > WeeklyWarning
BY DEF Violations

-----------------------------------------------------------------------------
(* The properties of hours and days *)

\* The inductive invariant.
IInv == TypeOK /\ IsFiniteSet(held)

\* Somebody's shifts are Candidates, finitely many.
LEMMA FiniteCalendar == Spec => []IInv
<1>1. Init => IsFiniteSet(held)
  BY FS_EmptySet DEF Init
<1>2. TypeOK /\ IsFiniteSet(held) /\ [Next]_vars => IsFiniteSet(held)'
  <2> SUFFICES ASSUME IsFiniteSet(held), [Next]_vars PROVE IsFiniteSet(held')
    OBVIOUS
  <2>1. ASSUME NEW w \in Candidates, Assign(w) PROVE IsFiniteSet(held')
    BY <2>1, FS_AddElement DEF Assign
  <2>2. ASSUME NEW w \in Candidates, Unassign(w) PROVE IsFiniteSet(held')
    BY <2>2, FS_RemoveElement DEF Unassign
  <2>3. CASE UNCHANGED held
    BY <2>3
  <2> QED
    BY <2>1, <2>2, <2>3 DEF Next, vars, SetRule, SetException
<1> QED
  BY <1>1, <1>2, Typed, PTL DEF Spec, IInv

\* Only an accepted assignment gives a shift.
LEMMA GivenIsAssigned ==
  ASSUME [Next]_vars, NEW w \in Candidates, Given(w)
  PROVE  /\ Accepted(w) /\ w \notin held /\ held' = held \cup {w}
         /\ response' = Violations(w) /\ UNCHANGED <<rules, exceptions, overrides>>
BY DEF Given, Next, vars, Assign, Unassign, SetRule, SetException

\* Hours of a set to which one shift is added.
LEMMA TotalAdd ==
  ASSUME IInv, NEW S \in SUBSET held, NEW w \in Candidates, w \notin S
  PROVE  /\ IsFiniteSet(S \cup {w}) /\ \A v \in S \cup {w} : Hours(v) \in Nat
         /\ Total(S) \in Nat
         /\ Total(S \cup {w}) = Total(S) + Hours(w)
<1>1. IsFiniteSet(S) /\ IsFiniteSet(S \cup {w})
  BY FS_Subset, FS_AddElement DEF IInv
<1>2. \A v \in S \cup {w} : Hours(v) \in Nat
  BY ShiftDays DEF IInv, TypeOK
<1>3. Total(S) \in Nat
  BY <1>1, <1>2, TotalType
<1>4. Total(S \cup {w}) = Hours(w) + Total((S \cup {w}) \ {w})
  BY <1>1, <1>2, TotalRemove
<1>5. (S \cup {w}) \ {w} = S
  OBVIOUS
<1> QED
  BY <1>1, <1>2, <1>3, <1>4, <1>5

\* Assigning a shift keeps the limit of its day: the engine has fetched all other shifts
\* of that day.
LEMMA AssignKeepsLimit ==
  ASSUME IInv, DailyLimitKept, NEW w \in Candidates, Accepted(w), w \notin held,
         held' = held \cup {w}
  PROVE  DailyLimitKept'
<1> SUFFICES ASSUME NEW x \in held'
             PROVE  Total({v \in held' : StartDay(v) = StartDay(x)}) =< DailyBlock
  BY DEF DailyLimitKept
<1> DEFINE before == {v \in held : StartDay(v) = StartDay(x)}
           after == {v \in held' : StartDay(v) = StartDay(x)}
<1>1. CASE StartDay(x) = StartDay(w)
  <2> DEFINE near == {v \in Fetched(w) : StartDay(v) = StartDay(w)}
  <2>1. \A v \in held : StartDay(v) = StartDay(w) => v \in Fetched(w)
    <3> SUFFICES ASSUME NEW v \in held, StartDay(v) = StartDay(w) PROVE v \in Fetched(w)
      OBVIOUS
    <3>1. StartDay(w) \in Nat
      BY ShiftDays
    <3> QED
      BY <3>1, FetchedReachesBack DEF IInv
  <2>2. near \subseteq held /\ w \notin near
    BY DEF Fetched
  <2>3. after = near \cup {w}
    BY <1>1, <2>1, <2>2
  <2>4. Total(near \cup {w}) = Total(near) + Hours(w) /\ Total(near) \in Nat /\ Hours(w) \in Nat
    BY <2>2, TotalAdd
  <2>5. ~(Total(near) + Hours(w) > DailyBlock)
    BY DailyIsRefused DEF HoursOn
  <2> HIDE DEF near, after
  <2>6. Total(after) =< DailyBlock
    BY <2>3, <2>4, <2>5, LimitsAssumption
  <2> QED
    BY <2>6 DEF after
<1>2. CASE StartDay(x) # StartDay(w)
  <2>1. after = before /\ x \in held
    BY <1>2
  <2>2. Total(before) =< DailyBlock
    BY <2>1 DEF DailyLimitKept
  <2> QED
    BY <2>1, <2>2
<1> QED
  BY <1>1, <1>2

\* Fewer shifts have no more hours.
LEMMA UnassignKeepsLimit ==
  ASSUME IInv, DailyLimitKept, NEW w \in held, held' = held \ {w}
  PROVE  DailyLimitKept'
<1> SUFFICES ASSUME NEW x \in held'
             PROVE  Total({v \in held' : StartDay(v) = StartDay(x)}) =< DailyBlock
  BY DEF DailyLimitKept
<1> DEFINE before == {v \in held : StartDay(v) = StartDay(x)}
           after == {v \in held' : StartDay(v) = StartDay(x)}
<1>1. after \subseteq before /\ before \subseteq held /\ x \in held
  OBVIOUS
<1>2. IsFiniteSet(before) /\ IsFiniteSet(after) /\ \A v \in before : Hours(v) \in Nat
  BY <1>1, FS_Subset, ShiftDays DEF IInv, TypeOK
<1>3. Total(after) \in Nat /\ Total(before) \in Nat
  BY <1>1, <1>2, TotalType
<1>4. Total(before) =< DailyBlock
  BY <1>1 DEF DailyLimitKept
<1> HIDE DEF before, after
<1>5. Total(after) =< Total(before)
  BY <1>1, <1>2, TotalMonotone
<1>6. Total(after) =< DailyBlock
  BY <1>3, <1>4, <1>5, LimitsAssumption
<1> QED
  BY <1>6 DEF after

\* The shifts that start on one day never add up to more than the hard daily limit,
\* whatever was assigned and unassigned before, and in whatever order: the engine, which
\* looks at a window around the candidate, has seen all of the day.
THEOREM LimitAlwaysKept == Spec => []DailyLimitKept
<1>1. Init => DailyLimitKept
  BY DEF Init, DailyLimitKept
<1>2. ASSUME IInv, DailyLimitKept, [Next]_vars PROVE DailyLimitKept'
  <2>1. ASSUME NEW w \in Candidates, Assign(w) PROVE DailyLimitKept'
    <3>1. CASE Accepted(w)
      BY <1>2, <2>1, <3>1, AssignKeepsLimit DEF Assign
    <3>2. CASE ~Accepted(w)
      BY <1>2, <2>1, <3>2 DEF Assign, DailyLimitKept
    <3> QED
      BY <3>1, <3>2
  <2>2. ASSUME NEW w \in Candidates, Unassign(w) PROVE DailyLimitKept'
    BY <1>2, <2>2, UnassignKeepsLimit DEF Unassign
  <2>3. CASE UNCHANGED held
    BY <1>2, <2>3 DEF DailyLimitKept
  <2> QED
    BY <1>2, <2>1, <2>2, <2>3 DEF Next, vars, SetRule, SetException
<1> QED
  BY <1>1, <1>2, FiniteCalendar, PTL DEF Spec

\* Whoever has worked each of the six days before has a streak of six: the engine has
\* fetched a shift of each.
LEMMA StreakIsSeen ==
  ASSUME IInv, NEW w \in Candidates, w \notin held,
         \A i \in 1..6 : \E v \in held : StartDay(v) = StartDay(w) - i
  PROVE  StreakBefore(Fetched(w), StartDay(w)) + 1 >= 7
<1> DEFINE near == Fetched(w)
           worked == {StartDay(v) : v \in near}
           day == StartDay(w)
           c == Cardinality(worked)
           N == {n \in 0..c : \A i \in 1..n : day - i \in worked}
<1>1. day \in Nat
  BY ShiftDays
<1>2. \A i \in 1..6 : day - i \in worked
  <2> SUFFICES ASSUME NEW i \in 1..6 PROVE \E v \in near : StartDay(v) = day - i
    OBVIOUS
  <2>1. PICK v \in held : StartDay(v) = day - i
    OBVIOUS
  <2>2. StartDay(v) =< day /\ day - 6 =< StartDay(v)
    BY <1>1, <2>1
  <2>3. v \in near
    BY <2>2, FetchedReachesBack DEF IInv
  <2> QED
    BY <2>1, <2>3
<1>3. IsFiniteSet(near)
  BY FS_Subset DEF IInv, Fetched
<1>4. IsFiniteSet(worked)
  <2> DEFINE f == [v \in near |-> StartDay(v)]
  <2>1. f \in Surjection(near, worked)
    BY DEF Surjection
  <2> QED
    BY <1>3, <2>1, FS_Surjection
<1>5. c \in Nat /\ 6 =< c
  <2> DEFINE six == (day - 6)..(day - 1)
  <2>1. six \subseteq worked
    <3> SUFFICES ASSUME NEW d \in six PROVE d \in worked
      OBVIOUS
    <3>1. day - d \in 1..6 /\ day - (day - d) = d
      BY <1>1
    <3> HIDE DEF worked
    <3> QED
      BY <1>2, <3>1
  <2>2. Cardinality(six) = 6
    BY <1>1, FS_Interval
  <2> HIDE DEF six
  <2>3. Cardinality(six) =< c
    BY <1>4, <2>1, FS_Subset
  <2>4. c \in Nat
    BY <1>4, FS_CardinalityType
  <2> QED
    BY <2>2, <2>3, <2>4
<1> HIDE DEF c
<1>6. 6 \in N
  BY <1>2, <1>5
<1>7. Max(N) \in N /\ 6 =< Max(N)
  <2>1. N \subseteq 0..c
    OBVIOUS
  <2> HIDE DEF N
  <2> QED
    BY <1>5, <1>6, <2>1, MaxIsBound
<1>8. StreakBefore(near, day) = Max(N)
  BY DEF StreakBefore, c
<1> HIDE DEF near, day
<1>9. Max(N) + 1 >= 7
  BY <1>7
<1> QED
  BY <1>8, <1>9 DEF near, day

\* Nobody is given a shift on a seventh day in a row without a documented override of
\* that week: what evaluateConstraints counts backwards is all there is to count.
THEOREM SeventhDayNeedsOverride == Spec => StreakNeedsOverride
<1>1. ASSUME IInv, [Next]_vars, NEW w \in Candidates, Given(w),
             \A i \in 1..6 : \E v \in held : StartDay(v) = StartDay(w) - i
      PROVE  WeekOf(StartDay(w)) \in overrides
  <2>1. Accepted(w) /\ w \notin held
    BY <1>1, GivenIsAssigned
  <2> QED
    BY <1>1, <2>1, StreakIsSeen, StreakIsRefused
<1>2. IInv /\ [Next]_vars =>
        [\A w \in Candidates :
           Given(w) /\ (\A i \in 1..6 : \E v \in held : StartDay(v) = StartDay(w) - i)
             => WeekOf(StartDay(w)) \in overrides]_vars
  BY <1>1
<1> QED
  BY <1>2, FiniteCalendar, PTL DEF Spec, StreakNeedsOverride

\* The report's window holds every shift of the local week.
LEMMA WeekIsReported ==
  ASSUME NEW v \in Candidates, NEW week, WeekOf(StartDay(v)) = week
  PROVE  /\ SundayOf(week) - DayLength =< Utc(v.start)
         /\ Utc(v.start) < SundayOf(week + 1) + DayLength
<1> DEFINE n == DayLength
           d == StartDay(v)
<1>1. /\ n \in Nat \ {0} /\ UtcOffset \in Int /\ -n < UtcOffset /\ UtcOffset < n
      /\ v.start \in Nat /\ d \in Nat /\ n * d =< v.start /\ v.start < n * d + n
  BY CalendarAssumption, ShiftDays
<1>2. week \in Nat /\ 7 * week =< d /\ d + 1 =< 7 * (week + 1)
  BY <1>1 DEF WeekOf
<1> HIDE DEF n, d
<1>3. 7 * week * n =< n * d
  <2>1. n * (7 * week) =< n * d
    BY <1>1, <1>2
  <2>2. n * (7 * week) = 7 * week * n
    BY <1>1, <1>2
  <2> QED
    BY <2>1, <2>2
<1>4. n * d + n =< 7 * (week + 1) * n
  <2>1. n * (d + 1) =< n * (7 * (week + 1))
    BY <1>1, <1>2
  <2>2. n * (d + 1) = n * d + n /\ n * (7 * (week + 1)) = 7 * (week + 1) * n
    BY <1>1, <1>2
  <2> QED
    BY <2>1, <2>2
<1>5. n * d \in Nat /\ 7 * week * n \in Nat /\ 7 * (week + 1) * n \in Nat
  BY <1>1, <1>2
<1>6. 7 * week * n - n =< v.start - UtcOffset /\ v.start - UtcOffset < 7 * (week + 1) * n + n
  BY <1>1, <1>3, <1>4, <1>5
<1> QED
  BY <1>6 DEF SundayOf, Utc, n

\* The hours an engine run counts for the week are on the report once the shift is there.
LEMMA ReportHasThem ==
  ASSUME IInv, NEW w \in Candidates, w \notin held, held' = held \cup {w}, NEW week,
         week = WeekOf(StartDay(w))
  PROVE  LET shown == Total({v \in AroundWeek(week)' : WeekOf(StartDay(v)) = week})
             counted == HoursIn(Fetched(w), week) + Hours(w)
         IN  shown \in Nat /\ counted \in Nat /\ counted =< shown
<1> DEFINE near == {v \in Fetched(w) : WeekOf(StartDay(v)) = week}
           all == {v \in held : WeekOf(StartDay(v)) = week}
           reported == {v \in AroundWeek(week)' : WeekOf(StartDay(v)) = week}
<1>1. near \subseteq all /\ all \subseteq held /\ w \notin all
  BY DEF Fetched
<1>2. reported = all \cup {w}
  <2>1. \A v \in held' : WeekOf(StartDay(v)) = week => v \in AroundWeek(week)'
    <3> SUFFICES ASSUME NEW v \in held', WeekOf(StartDay(v)) = week
                 PROVE  v \in AroundWeek(week)'
      OBVIOUS
    <3>1. v \in Candidates
      BY DEF IInv, TypeOK
    <3> QED
      BY <3>1, WeekIsReported DEF AroundWeek
  <2>2. AroundWeek(week)' \subseteq held'
    BY DEF AroundWeek
  <2> QED
    BY <2>1, <2>2
<1> HIDE DEF near, all, reported
<1>3. /\ Total(near \cup {w}) = Total(near) + Hours(w) /\ Total(near) \in Nat
      /\ IsFiniteSet(all \cup {w}) /\ \A v \in all \cup {w} : Hours(v) \in Nat
      /\ IsFiniteSet(near \cup {w})
  BY <1>1, TotalAdd
<1>4. Total(near \cup {w}) =< Total(all \cup {w})
  BY <1>1, <1>3, TotalMonotone
<1>5. Total(all \cup {w}) \in Nat /\ Hours(w) \in Nat
  BY <1>3, TotalType
<1>6. Total(reported) \in Nat /\ Total(near) + Hours(w) \in Nat
      /\ Total(near) + Hours(w) =< Total(reported)
  BY <1>2, <1>3, <1>4, <1>5
<1>7. HoursIn(Fetched(w), week) = Total(near)
  BY DEF HoursIn, near
<1> QED
  BY <1>6, <1>7 DEF reported

\* When a response to an assignment warns of the hours of the week, the weekly report
\* shows it: the report, which fetches by UTC, loses no shift that the engine counted.
THEOREM ReportConfirmsWarnings == Spec => WarningsAreReported
<1>1. ASSUME IInv, [Next]_vars, NEW w \in Candidates, Given(w)
      PROVE  LET status == ReportStatus(WeekOf(StartDay(w)))'
             IN  /\ "WEEKLY_HOURS_OVERTIME" \in response' => status = "OVERTIME"
                 /\ "WEEKLY_HOURS_WARNING" \in response' => status # "OK"
  <2> DEFINE week == WeekOf(StartDay(w))
             shown == Total({v \in AroundWeek(week)' : WeekOf(StartDay(v)) = week})
             counted == HoursIn(Fetched(w), week) + Hours(w)
  <2>1. w \notin held /\ held' = held \cup {w} /\ response' = Violations(w)
    BY <1>1, GivenIsAssigned
  <2>2. shown \in Nat /\ counted \in Nat /\ counted =< shown
    BY <1>1, <2>1, ReportHasThem
  <2>3. /\ "WEEKLY_HOURS_OVERTIME" \in response' => counted > WeeklyOvertime
        /\ "WEEKLY_HOURS_WARNING" \in response' => counted > WeeklyWarning
    BY <2>1, WarningsCount
  <2>4. ReportStatus(week)' = CASE shown > WeeklyOvertime -> "OVERTIME"
                                [] shown > WeeklyWarning /\ shown =< WeeklyOvertime -> "WARNING"
                                [] OTHER -> "OK"
    BY DEF ReportStatus
  <2> HIDE DEF shown, counted
  <2>5. counted > WeeklyOvertime => shown > WeeklyOvertime
    BY <2>2, LimitsAssumption
  <2>6. counted > WeeklyWarning =>
          shown > WeeklyOvertime \/ (shown > WeeklyWarning /\ shown =< WeeklyOvertime)
    BY <2>2, LimitsAssumption
  <2>7. ASSUME shown > WeeklyOvertime PROVE ReportStatus(week)' = "OVERTIME"
    <3>1. ~(shown > WeeklyWarning /\ shown =< WeeklyOvertime)
      BY <2>2, <2>7, LimitsAssumption
    <3> QED
      BY <2>4, <2>7, <3>1
  <2>8. ASSUME shown > WeeklyWarning /\ shown =< WeeklyOvertime
        PROVE  ReportStatus(week)' = "WARNING"
    <3>1. ~(shown > WeeklyOvertime)
      BY <2>2, <2>8, LimitsAssumption
    <3> QED
      BY <2>4, <2>8, <3>1
  <2> QED
    BY <2>3, <2>5, <2>6, <2>7, <2>8
<1>2. IInv /\ [Next]_vars =>
        [\A w \in Candidates :
           LET status == ReportStatus(WeekOf(StartDay(w)))'
           IN  Given(w) =>
                 /\ "WEEKLY_HOURS_OVERTIME" \in response' => status = "OVERTIME"
                 /\ "WEEKLY_HOURS_WARNING" \in response' => status # "OK"]_vars
  BY <1>1
<1> QED
  BY <1>2, FiniteCalendar, PTL DEF Spec, WarningsAreReported
=============================================================================
