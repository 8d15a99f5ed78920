---------------------- MODULE ConversationTurnProofs ----------------------
(***************************************************************************)
(* What holds of the turns of a conversation for any number of turns,      *)
(* items and threads, any inputs and however often the process is started  *)
(* again.                                                                  *)
(***************************************************************************)
EXTENDS ConversationTurn, FiniteSetTheorems, WellFoundedInduction, TLAPS

-----------------------------------------------------------------------------
(* Recursion, and parts of sequences                                        *)

\* A set of natural numbers that is not empty has a least element.
LEMMA LeastElement ==
    ASSUME NEW S, S \subseteq Nat, S # {}
    PROVE  \E i \in S : \A j \in S : i <= j
<1> DEFINE less == {pair \in Nat \X Nat : pair[1] < pair[2]}
<1>1. IsWellFoundedOn(less, Nat)
  BY NatLessThanWellFounded DEF OpToRel
<1> HIDE DEF less
<1>2. PICK i \in S : \A j \in S : <<j, i>> \notin less
  BY <1>1, WFMin
<1>3. ASSUME NEW j \in S PROVE i <= j
  <2>1. i \in Nat /\ j \in Nat
    OBVIOUS
  <2>2. j < i => <<j, i>> \in less
    BY <2>1 DEF less
  <2> QED
    BY <1>2, <2>1, <2>2
<1> QED
  BY <1>3

\* A recursion over the natural numbers has a solution.
Solvable(S, a, step) ==
    \E f \in [Nat -> S] : f[0] = a /\ \A n \in Nat : f[n + 1] = step[n + 1][f[n]]

LEMMA Recursion ==
    ASSUME NEW S, NEW a \in S, NEW step \in [Nat -> [S -> S]]
    PROVE  Solvable(S, a, step)
<1> DEFINE Starts(k, f) == /\ f \in [0..k -> S] /\ f[0] = a
                           /\ \A n \in 0..(k - 1) : f[n + 1] = step[n + 1][f[n]]
<1>1. \A k \in Nat : \E f : Starts(k, f)
  <2> DEFINE bad == {k \in Nat : ~\E f : Starts(k, f)}
  <2> SUFFICES ASSUME bad # {} PROVE FALSE
    OBVIOUS
  <2>1. PICK k \in bad : \A j \in bad : k <= j
    BY LeastElement
  <2>2. k # 0
    <3>1. Starts(0, [n \in 0..0 |-> a])
      OBVIOUS
    <3> QED
      BY <3>1
  <2>3. k - 1 \in Nat /\ k - 1 \notin bad
    <3>1. k \in Nat /\ k - 1 \in Nat /\ ~(k <= k - 1)
      BY <2>1, <2>2
    <3> QED
      BY <2>1, <3>1
  <2>4. PICK f : Starts(k - 1, f)
    BY <2>3
  <2> DEFINE g == [n \in 0..k |-> IF n < k THEN f[n] ELSE step[k][f[k - 1]]]
  <2>5. g \in [0..k -> S]
    BY <2>1, <2>3, <2>4
  <2>6. g[0] = a
    BY <2>2, <2>3, <2>4
  <2>7. ASSUME NEW n \in 0..(k - 1) PROVE g[n + 1] = step[n + 1][g[n]]
    <3>1. CASE n = k - 1
      <4>1. g[k] = step[k][f[k - 1]] /\ g[k - 1] = f[k - 1]
        BY <2>1, <2>3
      <4> QED
        BY <3>1, <4>1, n + 1 = k
    <3>2. CASE n # k - 1
      <4>1. n \in 0..((k - 1) - 1) /\ n < k /\ n + 1 < k /\ n + 1 \in 0..k /\ n \in 0..k
        BY <2>1, <2>3, <3>2
      <4> QED
        BY <4>1, <2>4
    <3> QED
      BY <3>1, <3>2
  <2>8. Starts(k, g)
    BY <2>5, <2>6, <2>7
  <2> QED
    BY <2>8, <2>1
<1>2. ASSUME NEW k \in Nat, NEW m \in Nat, NEW f, Starts(k, f), NEW g, Starts(m, g),
             NEW n \in 0..k, n <= m
      PROVE  f[n] = g[n]
  <2> DEFINE bad == {i \in 0..k : i <= m /\ f[i] # g[i]}
  <2> SUFFICES ASSUME bad # {} PROVE FALSE
    BY <1>2
  <2>1. PICK i \in bad : \A j \in bad : i <= j
    BY LeastElement, bad \subseteq Nat
  <2>2. i # 0
    BY <1>2, <2>1
  <2>3. i - 1 \in 0..k /\ i - 1 <= m /\ i - 1 \notin bad
    BY <2>1, <2>2
  <2>4. i - 1 \in 0..(k - 1) /\ i - 1 \in 0..(m - 1) /\ (i - 1) + 1 = i
    BY <2>1, <2>2
  <2>5. f[i] = step[i][f[i - 1]] /\ g[i] = step[i][g[i - 1]]
    BY <1>2, <2>4
  <2> QED
    BY <2>1, <2>3, <2>5
<1> DEFINE Start(k) == CHOOSE f : Starts(k, f)
           F == [k \in Nat |-> Start(k)[k]]
<1>3. \A k \in Nat : Starts(k, Start(k))
  BY <1>1
<1> HIDE DEF Start
<1>4. F \in [Nat -> S] /\ F[0] = a
  BY <1>3
<1>5. ASSUME NEW n \in Nat PROVE F[n + 1] = step[n + 1][F[n]]
  <2>1. F[n + 1] = step[n + 1][Start(n + 1)[n]]
    <3>1. n \in 0..((n + 1) - 1) /\ n + 1 \in Nat
      OBVIOUS
    <3>2. Start(n + 1)[n + 1] = step[n + 1][Start(n + 1)[n]]
      BY <1>3, <3>1
    <3> QED
      BY <3>1, <3>2
  <2>2. Start(n + 1)[n] = Start(n)[n]
    <3>1. Starts(n, Start(n)) /\ Starts(n + 1, Start(n + 1))
      BY <1>3
    <3>2. n + 1 \in Nat /\ n \in 0..(n + 1) /\ n <= n
      OBVIOUS
    <3> HIDE DEF Starts
    <3> QED
      BY <1>2, <3>1, <3>2
  <2>3. F[n] = Start(n)[n]
    OBVIOUS
  <2> HIDE DEF F
  <2> QED
    BY <2>1, <2>2, <2>3
<1>6. \A n \in Nat : F[n + 1] = step[n + 1][F[n]]
  BY <1>5, Zenon
<1> HIDE DEF F
<1> QED
  BY <1>4, <1>6, Zenon DEF Solvable
\* Of a finite set of numbers, each but so many has so many below.
LEMMA Ranks ==
    ASSUME NEW P, P \subseteq Nat, IsFiniteSet(P), NEW n \in 1..Cardinality(P)
    PROVE  \E i \in P : Cardinality({j \in P : j <= i}) = n
<1> DEFINE below(i) == {j \in P : j <= i}
           bad == {m \in 1..Cardinality(P) : \A i \in P : Cardinality(below(i)) # m}
<1> SUFFICES ASSUME bad # {} PROVE FALSE
  OBVIOUS
<1>1. Cardinality(P) \in Nat
  BY FS_CardinalityType
<1>2. bad \subseteq Nat
  BY <1>1
<1>3. PICK m \in bad : \A k \in bad : m <= k
  BY <1>2, LeastElement
<1>4. m \in 1..Cardinality(P) /\ \A i \in P : Cardinality(below(i)) # m
  BY <1>3
<1>5. CASE m = 1
  <2>1. P # {}
    BY <1>1, <1>4, FS_EmptySet
  <2>2. PICK i \in P : \A j \in P : i <= j
    BY <2>1, LeastElement
  <2>3. below(i) = {i}
    <3>1. \A j \in P : j <= i <=> j = i
      <4> SUFFICES ASSUME NEW j \in P PROVE j <= i <=> j = i
        OBVIOUS
      <4>1. i \in Nat /\ j \in Nat /\ i <= j
        BY <2>2
      <4> QED
        BY <4>1
    <3> QED
      BY <3>1
  <2>4. Cardinality({i}) = 1
    BY FS_Singleton
  <2> QED
    BY <1>4, <1>5, <2>3, <2>4
<1>6. CASE m # 1
  <2>1. m - 1 \in 1..Cardinality(P) /\ m - 1 \notin bad
    BY <1>1, <1>2, <1>3, <1>6
  <2>2. PICK i \in P : Cardinality(below(i)) = m - 1
    BY <2>1
  <2>3. P \ below(i) # {}
    <3> SUFFICES ASSUME P = below(i) PROVE FALSE
      OBVIOUS
    <3> QED
      BY <1>1, <1>4, <2>2
  <2>4. PICK k \in P \ below(i) : \A j \in P \ below(i) : k <= j
    <3>1. P \ below(i) \subseteq Nat
      OBVIOUS
    <3> HIDE DEF below
    <3> QED
      BY <2>3, <3>1, LeastElement
  <2>5. below(k) = below(i) \cup {k} /\ k \notin below(i)
    <3>1. \A j \in P : j <= k <=> j <= i \/ j = k
      <4> SUFFICES ASSUME NEW j \in P PROVE j <= k <=> j <= i \/ j = k
        OBVIOUS
      <4>1. /\ i \in Nat /\ j \in Nat /\ k \in Nat
            /\ ~(k <= i) /\ (~(j <= i) => k <= j)
        BY <2>2, <2>4
      <4> QED
        BY <4>1
    <3> QED
      BY <2>4, <3>1
  <2>6. IsFiniteSet(below(i))
    BY FS_Subset
  <2>7. Cardinality(below(i) \cup {k}) = (m - 1) + 1
    BY <2>2, <2>5, <2>6, FS_AddElement
  <2>8. Cardinality(below(k)) = m
    BY <2>5, <2>7, <1>4, <1>1
  <2> QED
    BY <1>4, <2>4, <2>8
<1> QED
  BY <1>5, <1>6

\* What is taken out of a list is a list of its members, and no longer than it.
LEMMA SublistType ==
    ASSUME NEW S, NEW list \in Seq(S), NEW places \in SUBSET DOMAIN list
    PROVE  /\ Sublist(list, places) \in Seq(S) /\ Len(Sublist(list, places)) <= Len(list)
           /\ \A n \in DOMAIN Sublist(list, places) : \E i \in places :
                Sublist(list, places)[n] = list[i]
<1>1. /\ IsFiniteSet(places) /\ Cardinality(places) \in Nat
      /\ Cardinality(places) <= Len(list) /\ places \subseteq Nat
  <2>1. /\ DOMAIN list = 1..Len(list) /\ Len(list) \in Nat
    OBVIOUS
  <2>2. IsFiniteSet(1..Len(list)) /\ Cardinality(1..Len(list)) = Len(list)
    <3>1. /\ IsFiniteSet(1..Len(list))
          /\ Cardinality(1..Len(list)) = IF 1 > Len(list) THEN 0 ELSE Len(list) - 1 + 1
      BY <2>1, FS_Interval
    <3> QED
      BY <2>1, <3>1
  <2> QED
    BY <2>1, <2>2, FS_Subset, FS_CardinalityType
<1> DEFINE spot(n) == CHOOSE i \in places : Cardinality({j \in places : j <= i}) = n
<1>2. \A n \in 1..Cardinality(places) : spot(n) \in places
  BY <1>1, Ranks
<1> HIDE DEF spot
<1>3. Sublist(list, places) = [n \in 1..Cardinality(places) |-> list[spot(n)]]
  BY DEF Sublist, spot
<1>4. \A n \in 1..Cardinality(places) : list[spot(n)] \in S
  BY <1>2
<1> QED
  BY <1>1, <1>2, <1>3, <1>4
-----------------------------------------------------------------------------
(* The thread stack                                                         *)

\* Thousandths of at most one.
Fraction == {x \in Nat : x <= One}

\* The parameters that the model takes as fractions of One.
LEMMA Weights ==
    /\ Salience.recencyDecay \in Fraction /\ Salience.recencyFloor \in Fraction
    /\ Salience.depthDecay \in Fraction /\ Salience.depthBoostReference \in Fraction
    /\ Salience.depthBoostStance \in Fraction /\ Salience.recencyWeight \in Fraction
    /\ Salience.depthWeight \in Fraction /\ Salience.floatingDepthDecay \in Fraction
    /\ Salience.floatingRecencyFloor \in Fraction
    /\ Salience.dropThreshold \in Fraction /\ Salience.floatingDropThreshold \in Fraction
    /\ Fraction = 0..One /\ One \in Fraction
<1>1. Fraction = 0..One /\ One \in Fraction /\ 1..One \subseteq Fraction
  BY DEF Fraction, One
<1> QED
  BY <1>1, SalienceAssumption DEF SalienceConfig

\* A product of fractions, rounded, is a fraction.
LEMMA TimesType ==
    ASSUME NEW a \in Nat, NEW b \in Nat
    PROVE  Times(a, b) \in Nat /\ (a \in Fraction /\ b \in Fraction => Times(a, b) \in Fraction)
<1>1. a * b \in Nat
  OBVIOUS
<1>2. ASSUME NEW c \in Nat PROVE c \div 1000 \in Nat /\ (c <= 1000000 => c \div 1000 <= 1000)
  OBVIOUS
<1>3. a <= 1000 /\ b <= 1000 => a * b <= 1000000
  <2> SUFFICES ASSUME a <= 1000, b <= 1000 PROVE a * b <= 1000000
    OBVIOUS
  <2>1. a * b <= 1000 * b
    OBVIOUS
  <2> QED
    BY <1>1, <2>1
<1> HIDE DEF Times
<1>4. Times(a, b) = (a * b) \div 1000
  BY DEF Times, One
<1> QED
  BY <1>1, <1>2, <1>3, <1>4 DEF One, Fraction

\* The power of the decay is solved by a function, so the recursion may be unfolded; it never
\* reaches 0.
LEMMA PowerType ==
    \A n \in Nat : /\ Power[n] \in 1..One
                   /\ Power[0] = One /\ Power[n + 1] = NextPower(Power[n])
<1> DEFINE step == [n \in Nat |-> [x \in 1..One |-> NextPower(x)]]
<1>1. \A x \in 1..One : NextPower(x) \in 1..One
  <2> SUFFICES ASSUME NEW x \in 1..One PROVE NextPower(x) \in 1..One
    OBVIOUS
  <2>1. x \in Fraction /\ x \in Nat /\ Salience.recencyDecay \in Nat
    BY Weights DEF Fraction, One
  <2>2. Times(Salience.recencyDecay, x) \in Fraction
    BY <2>1, Weights, TimesType
  <2> QED
    BY <2>2 DEF NextPower, Fraction, One
<1>2. step \in [Nat -> [1..One -> 1..One]]
  BY <1>1
<1>3. PICK f \in [Nat -> 1..One] : f[0] = One /\ \A n \in Nat : f[n + 1] = step[n + 1][f[n]]
  <2>1. One \in 1..One
    BY DEF One
  <2> DEFINE S == 1..One
  <2>2. One \in S /\ step \in [Nat -> [S -> S]]
    BY <1>2, <2>1
  <2> HIDE DEF step, S
  <2>3. Solvable(S, One, step)
    BY <2>2, Recursion
  <2> QED
    BY <2>3 DEF S, Solvable
<1>4. f = [n \in Nat |-> IF n = 0 THEN One ELSE NextPower(f[n - 1])]
  <2>1. ASSUME NEW n \in Nat, n # 0 PROVE f[n] = NextPower(f[n - 1])
    <3>1. n - 1 \in Nat /\ (n - 1) + 1 = n
      BY <2>1
    <3>2. f[n] = step[n][f[n - 1]]
      BY <1>3, <3>1
    <3> QED
      BY <3>1, <3>2
  <2> QED
    BY <1>3, <2>1
<1>5. Power = [n \in Nat |-> IF n = 0 THEN One ELSE NextPower(Power[n - 1])]
  BY <1>4, SMT DEF Power
<1>a. Power[0] = One
  BY <1>5
<1>b. ASSUME NEW n \in Nat PROVE Power[n + 1] = NextPower(Power[n])
  <2>1. n + 1 \in Nat /\ n + 1 # 0 /\ (n + 1) - 1 = n
    OBVIOUS
  <2> QED
    BY <1>5, <2>1
<1> DEFINE bad == {n \in Nat : Power[n] \notin 1..One}
<1> SUFFICES ASSUME bad # {} PROVE FALSE
  BY <1>a, <1>b
<1>6. PICK n \in bad : \A m \in bad : n <= m
  BY LeastElement
<1>7. CASE n = 0
  <2>1. One \in 1..One
    BY DEF One
  <2> QED
    BY <1>a, <1>6, <1>7, <2>1
<1>8. CASE n # 0
  <2>1. n - 1 \in Nat /\ n - 1 \notin bad
    BY <1>6, <1>8
  <2>2. Power[n] = NextPower(Power[n - 1])
    BY <1>5, <1>6, <1>8
  <2> QED
    BY <1>1, <1>6, <2>1, <2>2
<1> QED
  BY <1>7, <1>8

\* The recency is a number, also over a negative number of turns.
LEMMA RecencyType ==
    ASSUME NEW floor \in Fraction, NEW turns \in Int
    PROVE  Recency(floor, turns) \in Nat
<1> DEFINE decayed == IF turns >= 0 THEN Power[turns] ELSE (One * One) \div Power[-turns]
<1>1. decayed \in Nat
  <2>1. CASE turns >= 0
    <3>1. turns \in Nat
      BY <2>1
    <3>2. Power[turns] \in 1..One
      BY <3>1, PowerType
    <3> QED
      BY <2>1, <3>2 DEF One
  <2>2. CASE turns < 0
    <3>1. PICK p \in 1..One : p = Power[-turns]
      BY <2>2, PowerType, -turns \in Nat
    <3>2. (One * One) \div p \in Nat
      <4>1. One * One \in Nat /\ p \in Nat /\ p > 0
        BY <3>1 DEF One
      <4>2. \A c \in Nat : c \div p \in Nat
        BY <4>1
      <4> QED
        BY <4>1, <4>2
    <3> QED
      BY <2>2, <3>1, <3>2
  <2> QED
    BY <2>1, <2>2
<1> HIDE DEF decayed
<1>2. One - floor \in Nat
  BY DEF One, Fraction
<1>3. Times(One - floor, decayed) \in Nat
  BY <1>1, <1>2, TimesType
<1>4. Recency(floor, turns) = floor + Times(One - floor, decayed)
  BY DEF Recency, decayed
<1> QED
  BY <1>3, <1>4 DEF Fraction

\* So is the weighted mean of recency and depth,
LEMMA BlendType ==
    ASSUME NEW recency \in Nat, NEW depth \in Nat
    PROVE  Blend(recency, depth) \in Nat
<1>1. Times(Salience.recencyWeight, recency) \in Nat /\ Times(Salience.depthWeight, depth) \in Nat
  <2>1. Salience.recencyWeight \in Nat /\ Salience.depthWeight \in Nat
    BY Weights DEF Fraction
  <2> QED
    BY <2>1, TimesType
<1> QED
  BY <1>1 DEF Blend

\* and the depth stays a fraction.
LEMMA DepthType ==
    ASSUME NEW e \in Entry(Thread), NEW referenced \in BOOLEAN, NEW moved \in BOOLEAN
    PROVE  NewDepth(e, referenced, moved) \in Fraction
<1>1. e.depth \in Fraction
  BY Weights DEF Entry
<1>2. Times(e.depth, Salience.depthDecay) \in Fraction
  <2>1. e.depth \in Nat /\ Salience.depthDecay \in Nat
    BY <1>1, Weights DEF Fraction
  <2> QED
    BY <1>1, <2>1, Weights, TimesType
<1>3. \A boost \in Fraction : Cap(e.depth + boost) \in Fraction
  BY <1>1 DEF Cap, Fraction, One
<1> QED
  BY <1>2, <1>3, Weights DEF NewDepth

\* update_salience changes neither the thread nor the type of an entry, and caps its salience.
LEMMA UpdatedEntry ==
    ASSUME NEW e \in Entry(Thread), NEW turn \in Nat, NEW referenced \in BOOLEAN,
           NEW moved \in BOOLEAN
    PROVE  /\ UpdateSalience(e, turn, referenced, moved) \in Entry(Thread)
           /\ UpdateSalience(e, turn, referenced, moved).salience <= One
           /\ UpdateSalience(e, turn, referenced, moved).thread = e.thread
           /\ UpdateSalience(e, turn, referenced, moved).depth = NewDepth(e, referenced, moved)
           /\ referenced => UpdateSalience(e, turn, referenced, moved).touched = turn
           /\ ~referenced => UpdateSalience(e, turn, referenced, moved).touched = e.touched
           /\ UpdateSalience(e, turn, referenced, moved).salience
                = Cap(Blend(Recency(Salience.recencyFloor, turn - e.touched),
                            NewDepth(e, referenced, moved)))
<1>1. PICK depth \in Fraction : depth = NewDepth(e, referenced, moved)
  BY DepthType
<1>2. PICK touched \in Nat : touched = IF referenced THEN turn ELSE e.touched
  BY DEF Entry
<1>3. PICK salience \in Fraction :
        salience = Cap(Blend(Recency(Salience.recencyFloor, turn - e.touched), depth))
  <2>1. Recency(Salience.recencyFloor, turn - e.touched) \in Nat
    <3>1. turn - e.touched \in Int
      BY DEF Entry
    <3> QED
      BY <3>1, Weights, RecencyType
  <2>2. PICK b \in Nat : b = Blend(Recency(Salience.recencyFloor, turn - e.touched), depth)
    <3>1. depth \in Nat
      BY DEF Fraction
    <3> QED
      BY <2>1, <3>1, BlendType
  <2>3. Cap(b) \in Fraction
    BY DEF Cap, Fraction, One
  <2> QED
    BY <2>2, <2>3
<1>4. UpdateSalience(e, turn, referenced, moved)
        = [e EXCEPT !.depth = depth, !.salience = salience, !.touched = touched]
  BY <1>1, <1>2, <1>3, Zenon DEF UpdateSalience
<1>5. PICK d : d = [e EXCEPT !.depth = depth]
  OBVIOUS
<1>6. PICK s : s = [d EXCEPT !.salience = salience]
  OBVIOUS
<1>7. PICK u : u = [s EXCEPT !.touched = touched]
  OBVIOUS
<1>8. d \in Entry(Thread) /\ d.thread = e.thread /\ d.depth = depth
  BY <1>5, Weights DEF Entry
<1>9. s \in Entry(Thread) /\ s.salience = salience /\ s.thread = e.thread /\ s.depth = depth
  BY <1>6, <1>8 DEF Entry, Fraction
<1>10. /\ u \in Entry(Thread) /\ u.salience = salience /\ u.thread = e.thread
       /\ u.depth = depth /\ u.touched = touched
  BY <1>7, <1>9 DEF Entry
<1>11. UpdateSalience(e, turn, referenced, moved) = u
  BY <1>4, <1>5, <1>6, <1>7, Zenon
<1> QED
  BY <1>1, <1>2, <1>3, <1>10, <1>11 DEF Fraction

\* The leader is an entry of the stack whose salience none exceeds.
LEMMA LeaderLeads ==
    ASSUME NEW s \in Seq(Entry(Thread)), s # <<>>, Len(s) <= 2
    PROVE  /\ Leader(s) \in DOMAIN s
           /\ \A j \in DOMAIN s : s[j].salience <= s[Leader(s)].salience
<1> DEFINE Leads(i) == \A j \in DOMAIN s : \/ s[j].salience < s[i].salience
                                           \/ s[j].salience = s[i].salience /\ i <= j
<1>1. \A i \in DOMAIN s : s[i].salience \in Nat
  <2>1. \A i \in DOMAIN s : s[i] \in Entry(Thread)
    OBVIOUS
  <2>2. \A e \in Entry(Thread) : e.salience \in Nat
    BY DEF Entry
  <2> QED
    BY <2>1, <2>2
<1>2. DOMAIN s = {1} \/ DOMAIN s = {1, 2}
  <2>1. Len(s) = 1 \/ Len(s) = 2
    <3>1. Len(s) \in Nat /\ Len(s) # 0
      OBVIOUS
    <3> QED
      BY <3>1
  <2>2. DOMAIN s = 1..Len(s)
    OBVIOUS
  <2> QED
    BY <2>1, <2>2
<1>3. \E i \in DOMAIN s : Leads(i)
  <2>1. CASE DOMAIN s = {1}
    BY <2>1
  <2>2. CASE DOMAIN s = {1, 2}
    <3>1. CASE s[1].salience < s[2].salience
      <4>1. Leads(2)
        BY <2>2, <3>1
      <4> QED
        BY <2>2, <4>1
    <3>2. CASE ~(s[1].salience < s[2].salience)
      <4>1. s[2].salience < s[1].salience \/ s[2].salience = s[1].salience
        BY <1>1, <2>2, <3>2
      <4>2. Leads(1)
        BY <2>2, <4>1
      <4> QED
        BY <2>2, <4>2
    <3> QED
      BY <3>1, <3>2
  <2> QED
    BY <1>2, <2>1, <2>2
<1>4. Leader(s) = CHOOSE i \in DOMAIN s : Leads(i)
  BY DEF Leader
<1>5. Leader(s) \in DOMAIN s /\ Leads(Leader(s))
  BY <1>3, <1>4
<1> QED
  BY <1>1, <1>5

\* A stack as it should be: ForegroundLeads, and what TypeOK says of it.
Ranked(s) ==
    /\ s \in Seq(Entry(Thread)) /\ Len(s) <= 2 /\ \A i \in DOMAIN s : s[i].salience <= One
    /\ s # <<>> =>
         \E i \in DOMAIN s :
            /\ s[i].state = "foreground"
            /\ \A j \in DOMAIN s \ {i} : /\ s[j].state = "peripheral"
                                        /\ s[j].salience <= s[i].salience

\* assign_states ranks any two entries,
LEMMA AssignedIsRanked ==
    ASSUME NEW s \in Seq(Entry(Thread)), Len(s) <= 2, \A i \in DOMAIN s : s[i].salience <= One
    PROVE  Ranked(AssignStates(s))
<1> DEFINE State(i) == IF i = Leader(s) THEN "foreground" ELSE "peripheral"
           a == [i \in DOMAIN s |-> [s[i] EXCEPT !.state = State(i)]]
<1>1. ASSUME NEW i \in DOMAIN s
      PROVE  /\ a[i] \in Entry(Thread) /\ a[i].salience = s[i].salience /\ a[i].state = State(i)
  <2>1. PICK e \in Entry(Thread) : e = s[i]
    OBVIOUS
  <2>2. PICK b \in StackState : b = State(i)
    BY DEF StackState
  <2>3. PICK f : f = [e EXCEPT !.state = b]
    OBVIOUS
  <2>4. f \in Entry(Thread) /\ f.salience = e.salience /\ f.state = b
    BY <2>3 DEF Entry
  <2>5. a[i] = f
    BY <2>1, <2>2, <2>3, Zenon
  <2> QED
    BY <2>1, <2>2, <2>4, <2>5
<1>2. AssignStates(s) = a
  BY Zenon DEF AssignStates
<1> HIDE DEF State
<1>3. DOMAIN a = DOMAIN s /\ DOMAIN s = 1..Len(s) /\ Len(s) \in Nat
  OBVIOUS
<1> HIDE DEF a
<1>4. a \in Seq(Entry(Thread)) /\ Len(a) = Len(s)
  <2>1. a = [i \in 1..Len(s) |-> a[i]]
    BY <1>3 DEF a
  <2> QED
    BY <1>1, <1>3, <2>1
<1>5. \A i \in DOMAIN a : a[i].salience <= One
  BY <1>1, <1>3
<1>6. CASE s # <<>>
  <2>1. Leader(s) \in DOMAIN s /\ \A j \in DOMAIN s : s[j].salience <= s[Leader(s)].salience
    BY <1>6, LeaderLeads
  <2>2. a[Leader(s)].state = "foreground"
    BY <1>1, <2>1 DEF State
  <2>3. \A j \in DOMAIN a \ {Leader(s)} : /\ a[j].state = "peripheral"
                                         /\ a[j].salience <= a[Leader(s)].salience
    BY <1>1, <1>3, <2>1 DEF State
  <2> QED
    BY <1>2, <1>3, <1>4, <1>5, <2>1, <2>2, <2>3 DEF Ranked
<1>7. CASE s = <<>>
  BY <1>2, <1>3, <1>4, <1>5, <1>7 DEF Ranked
<1> QED
  BY <1>6, <1>7

\* so update_stack leaves a ranked stack,
LEMMA UpdatedStack ==
    ASSUME NEW s \in Seq(Entry(Thread)), Len(s) <= 2, NEW turn \in Nat, NEW referenced, NEW moved
    PROVE  Ranked(UpdateStack(s, turn, referenced, moved))
<1> DEFINE new(i) == UpdateSalience(s[i], turn, s[i].thread \in referenced, s[i].thread \in moved)
           updated == [i \in DOMAIN s |-> new(i)]
           places == {i \in DOMAIN updated : updated[i].salience >= Salience.dropThreshold}
           kept == Sublist(updated, places)
<1>1. ASSUME NEW i \in DOMAIN s PROVE new(i) \in Entry(Thread) /\ new(i).salience <= One
  <2> DEFINE r == s[i].thread \in referenced
             m == s[i].thread \in moved
  <2>1. s[i] \in Entry(Thread) /\ r \in BOOLEAN /\ m \in BOOLEAN
    OBVIOUS
  <2>2. new(i) = UpdateSalience(s[i], turn, r, m)
    BY Zenon
  <2> HIDE DEF new, r, m
  <2>3. /\ UpdateSalience(s[i], turn, r, m) \in Entry(Thread)
        /\ UpdateSalience(s[i], turn, r, m).salience <= One
    BY <2>1, UpdatedEntry, Zenon
  <2> QED
    BY <2>2, <2>3
<1>2. UpdateStack(s, turn, referenced, moved)
        = AssignStates(IF Len(kept) > 2 THEN TopTwo(kept) ELSE kept)
  BY Zenon DEF UpdateStack
<1> HIDE DEF new
<1>3. /\ updated \in Seq(Entry(Thread)) /\ Len(updated) = Len(s) /\ DOMAIN updated = DOMAIN s
      /\ \A i \in DOMAIN updated : updated[i].salience <= One
  <2>1. DOMAIN s = 1..Len(s) /\ Len(s) \in Nat
    OBVIOUS
  <2> QED
    BY <1>1, <2>1
<1>4. places \subseteq DOMAIN updated
  OBVIOUS
<1> HIDE DEF updated, places
<1>5. /\ kept \in Seq(Entry(Thread)) /\ Len(kept) <= Len(updated)
      /\ \A n \in DOMAIN kept : \E i \in places : kept[n] = updated[i]
  BY <1>3, <1>4, SublistType
<1> HIDE DEF kept
<1>6. Len(kept) <= 2 /\ \A n \in DOMAIN kept : kept[n].salience <= One
  BY <1>3, <1>4, <1>5
<1>7. UpdateStack(s, turn, referenced, moved) = AssignStates(kept)
  BY <1>2, <1>5, <1>6
<1> QED
  BY <1>5, <1>6, <1>7, AssignedIsRanked

\* A thread put on the stack starts at a legal salience.
LEMMA NewEntryType ==
    ASSUME NEW thread \in Thread, NEW turn \in Nat
    PROVE  NewEntry(thread, turn) \in Entry(Thread) /\ NewEntry(thread, turn).salience <= One
BY DEF NewEntry, Entry, StackState, One

\* add_thread_to_stack leaves a ranked stack too, the cap included.
LEMMA AddedToStack ==
    ASSUME NEW s \in Seq(Entry(Thread)), Len(s) <= 2, \A i \in DOMAIN s : s[i].salience <= One,
           NEW thread \in Thread, NEW turn \in Nat
    PROVE  Ranked(AddThread(s, thread, turn))
<1> DEFINE e == NewEntry(thread, turn)
           rest == IF Len(s) >= 2 THEN <<s[Leader(s)]>> ELSE s
<1>1. /\ rest \in Seq(Entry(Thread)) /\ Len(rest) <= 1
      /\ \A i \in DOMAIN rest : rest[i].salience <= One
  <2>1. CASE Len(s) >= 2
    <3>1. s # <<>>
      BY <2>1
    <3>2. Leader(s) \in DOMAIN s
      BY <3>1, LeaderLeads
    <3> QED
      BY <2>1, <3>2
  <2>2. CASE ~(Len(s) >= 2)
    BY <2>2
  <2> QED
    BY <2>1, <2>2
<1>2. e \in Entry(Thread) /\ e.salience <= One
  BY NewEntryType
<1> HIDE DEF e, rest
<1>3. /\ Append(rest, e) \in Seq(Entry(Thread)) /\ Len(Append(rest, e)) <= 2
      /\ \A i \in DOMAIN Append(rest, e) : Append(rest, e)[i].salience <= One
  BY <1>1, <1>2
<1>4. AddThread(s, thread, turn) = AssignStates(Append(rest, e))
  BY Zenon DEF AddThread, rest, e
<1> QED
  BY <1>3, <1>4, AssignedIsRanked

\* The floating threads stay a list of entries, however many turns are passed over.
LEMMA UpdatedFloating ==
    ASSUME NEW s \in Seq(Entry(Thread)), NEW turn \in Nat
    PROVE  UpdateFloating(s, turn) \in Seq(Entry(Thread))
<1> DEFINE depth(e) == Times(e.depth, Salience.floatingDepthDecay)
           salience(e) == Blend(Recency(Salience.floatingRecencyFloor, turn - e.touched), depth(e))
           new(e) == [e EXCEPT !.depth = depth(e), !.salience = salience(e)]
           decayed == [i \in DOMAIN s |-> new(s[i])]
           places == {i \in DOMAIN decayed :
                        /\ WithinLimit(decayed[i], turn)
                        /\ decayed[i].salience >= Salience.floatingDropThreshold}
<1>1. ASSUME NEW e \in Entry(Thread) PROVE new(e) \in Entry(Thread)
  <2>1. PICK d \in Fraction : d = depth(e)
    <3>1. e.depth \in Fraction
      BY Weights DEF Entry
    <3>2. e.depth \in Nat /\ Salience.floatingDepthDecay \in Nat
      BY <3>1, Weights DEF Fraction
    <3> QED
      BY <3>1, <3>2, Weights, TimesType
  <2>2. PICK b \in Nat : b = salience(e)
    <3>1. turn - e.touched \in Int
      BY DEF Entry
    <3>2. Recency(Salience.floatingRecencyFloor, turn - e.touched) \in Nat
      BY <3>1, Weights, RecencyType
    <3>3. depth(e) \in Nat
      BY <2>1 DEF Fraction
    <3> HIDE DEF depth
    <3> QED
      BY <3>2, <3>3, BlendType
  <2>3. PICK f : f = [e EXCEPT !.depth = d]
    OBVIOUS
  <2>4. PICK g : g = [f EXCEPT !.salience = b]
    OBVIOUS
  <2>5. f \in Entry(Thread)
    BY <2>3, Weights DEF Entry
  <2>6. g \in Entry(Thread)
    BY <2>4, <2>5 DEF Entry
  <2>7. new(e) = g
    BY <2>1, <2>2, <2>3, <2>4, Zenon
  <2> QED
    BY <2>6, <2>7
<1>2. UpdateFloating(s, turn) = Sublist(decayed, places)
  BY Zenon DEF UpdateFloating
<1> HIDE DEF new
<1>3. decayed \in Seq(Entry(Thread))
  <2>1. DOMAIN s = 1..Len(s) /\ Len(s) \in Nat
    OBVIOUS
  <2> QED
    BY <1>1, <2>1
<1>4. places \subseteq DOMAIN decayed
  OBVIOUS
<1> HIDE DEF decayed, places
<1> QED
  BY <1>2, <1>3, <1>4, SublistType
-----------------------------------------------------------------------------
(* The register and the candidate                                           *)

\* The register chosen is one of the four, ties and scores below zero included.
LEMMA WinnerType ==
    ASSUME NEW scores \in [Register -> Int]
    PROVE  Winner(scores) \in Register
<1> DEFINE Best(i) == \A j \in DOMAIN Candidates :
              \/ scores[Candidates[j]] < scores[Candidates[i]]
              \/ scores[Candidates[j]] = scores[Candidates[i]] /\ i <= j
<1>1. DOMAIN Candidates = 1..4 /\ \A i \in 1..4 : Candidates[i] \in Register
  BY DEF Candidates, Register
<1>2. \E i \in 1..4 : Best(i)
  <2>1. PICK f \in [1..4 -> Int] : \A i \in 1..4 : f[i] = scores[Candidates[i]]
    <3>1. [i \in 1..4 |-> scores[Candidates[i]]] \in [1..4 -> Int]
      BY <1>1
    <3> QED
      BY <3>1
  <2>2. \E i \in 1..4 : \A j \in 1..4 : f[j] < f[i] \/ (f[j] = f[i] /\ i <= j)
    <3>1. f[1] \in Int /\ f[2] \in Int /\ f[3] \in Int /\ f[4] \in Int
      OBVIOUS
    <3>a. PICK a \in Int, b \in Int, c \in Int, d \in Int :
            f[1] = a /\ f[2] = b /\ f[3] = c /\ f[4] = d
      BY <3>1
    <3>b. \/ b <= a /\ c <= a /\ d <= a
          \/ a < b /\ c <= b /\ d <= b
          \/ a < c /\ b < c /\ d <= c
          \/ a < d /\ b < d /\ c < d
      OBVIOUS
    <3> DEFINE B(i) == \A j \in 1..4 : f[j] < f[i] \/ (f[j] = f[i] /\ i <= j)
               C(i, j) == f[j] < f[i] \/ (f[j] = f[i] /\ i <= j)
    <3>2. \A i \in 1..4 : C(i, 1) /\ C(i, 2) /\ C(i, 3) /\ C(i, 4) => B(i)
      OBVIOUS
    <3>3. \/ C(1, 1) /\ C(1, 2) /\ C(1, 3) /\ C(1, 4)
          \/ C(2, 1) /\ C(2, 2) /\ C(2, 3) /\ C(2, 4)
          \/ C(3, 1) /\ C(3, 2) /\ C(3, 3) /\ C(3, 4)
          \/ C(4, 1) /\ C(4, 2) /\ C(4, 3) /\ C(4, 4)
      BY <3>a, <3>b
    <3> HIDE DEF C
    <3>4. B(1) \/ B(2) \/ B(3) \/ B(4)
      BY <3>2, <3>3
    <3> QED
      BY <3>4
  <2> QED
    BY <1>1, <2>1, <2>2
<1>3. \/ Winner(scores) = "casual"
      \/ Winner(scores) = Candidates[CHOOSE i \in DOMAIN Candidates : Best(i)]
  BY DEF Winner
<1>4. (CHOOSE i \in DOMAIN Candidates : Best(i)) \in 1..4
  BY <1>1, <1>2
<1>5. "casual" \in Register
  BY DEF Register, Candidates
<1> QED
  BY <1>1, <1>3, <1>4, <1>5

\* How many corrections of a sequence have this register in this field.
Count(list, field, r) == Cardinality({i \in DOMAIN list : list[i][field] = r})

\* Counts of corrections are natural numbers.
LEMMA CountType ==
    ASSUME NEW S, NEW list \in Seq(S), NEW field, NEW r
    PROVE  Count(list, field, r) \in Nat
<1>1. DOMAIN list = 1..Len(list) /\ Len(list) \in Nat
  OBVIOUS
<1>2. IsFiniteSet(DOMAIN list)
  BY <1>1, FS_Interval
<1>3. IsFiniteSet({i \in DOMAIN list : list[i][field] = r})
  BY <1>2, FS_Subset
<1> QED
  BY <1>3, FS_CardinalityType DEF Count

\* The window of corrections is a list of corrections.
LEMMA RecentType ==
    ASSUME NEW list \in Seq(Correction)
    PROVE  Recent(list) \in Seq(Correction)
BY WindowAssumption DEF Recent

\* The scores before the corrections are integers.
LEMMA BaseType ==
    ASSUME NEW m \in Message
    PROVE  BaseScores(m) \in [Register -> Int]
<1> DEFINE timed == m.seconds # None
           structural ==
             [urgent      |-> If(m.exclaims, 30),
              reflective  |-> If(m.words > 50, 50) + If(timed /\ m.seconds > 90, 50),
              exploratory |-> If(m.question /\ m.words < 20, 30),
              casual      |-> If(m.words < 5, 50) + If(timed /\ m.seconds < 4, 30)]
<1>1. \A c, n : n \in Nat => If(c, n) \in Nat
  BY DEF If
<1>2. /\ structural.urgent \in Int /\ structural.reflective \in Int
      /\ structural.exploratory \in Int /\ structural.casual \in Int
  BY <1>1
<1>3. \A r \in Register : r = "urgent" \/ r = "reflective" \/ r = "exploratory" \/ r = "casual"
  BY DEF Register, Candidates
<1> HIDE DEF structural
<1>4. \A r \in Register : structural[r] \in Int
  BY <1>2, <1>3
<1>5. \A r \in Register : 100 * m.signals[r] \in Int
  BY DEF Message
<1>6. BaseScores(m) = [r \in Register |-> 100 * m.signals[r] + structural[r]]
  BY Zenon DEF BaseScores, structural
<1> QED
  BY <1>4, <1>5, <1>6

\* Each register gains 15 for a recent correction to it and loses 15 for one away from it.
LEMMA AdjustedScores ==
    ASSUME NEW scores \in [Register -> Int], NEW list \in Seq(Correction)
    PROVE  /\ Adjusted(scores, list) \in [Register -> Int]
           /\ \A r \in Register :
                Adjusted(scores, list)[r]
                  = scores[r] + 15 * (Count(Recent(list), "corrected", r)
                                      - Count(Recent(list), "inferred", r))
<1>1. Adjusted(scores, list) = [r \in Register |->
        scores[r] + 15 * (Count(Recent(list), "corrected", r) - Count(Recent(list), "inferred", r))]
  BY Zenon DEF Adjusted, Count, HistoryWeight
<1>2. \A r : /\ Count(Recent(list), "corrected", r) \in Nat
             /\ Count(Recent(list), "inferred", r) \in Nat
  BY RecentType, CountType
<1>3. \A r \in Register : scores[r] + 15 * (Count(Recent(list), "corrected", r)
                                           - Count(Recent(list), "inferred", r)) \in Int
  BY <1>2
<1> QED
  BY <1>1, <1>3

\* So infer_register returns one of the four.
LEMMA InferredRegister ==
    ASSUME NEW m \in Message, NEW list \in Seq(Correction)
    PROVE  InferRegister(m, list) \in Register
BY BaseType, AdjustedScores, WinnerType DEF InferRegister

\* One round of the loop of select_discharge_candidate.
Chosen(item, sofar, register, score) ==
    IF /\ Passes(item, register, score)
       /\ (sofar = Nothing \/ score[item.id] > score[sofar])
    THEN item.id ELSE sofar

\* best is the candidate after each round.
Rounds(best, list, register, score) ==
    /\ best[0] = Nothing
    /\ \A n \in 1..Len(list) : best[n] = Chosen(list[n], best[n - 1], register, score)
    /\ SelectCandidate(list, register, score) = best[Len(list)]

\* The loop may be followed round by round.
LEMMA SelectionLoop ==
    ASSUME NEW Id, NEW list, Len(list) \in Nat, \A n \in 1..Len(list) : list[n].id \in Id,
           NEW register, NEW score
    PROVE  \E best : Rounds(best, list, register, score)
<1> DEFINE T == Id \cup {Nothing}
           D == 0..Len(list)
           Choose(n, sofar) ==
             IF /\ Passes(list[n], register, score)
                /\ (sofar = Nothing \/ score[list[n].id] > score[sofar])
             THEN list[n].id ELSE sofar
           step == [n \in Nat |-> [x \in T |-> IF n \in 1..Len(list) THEN Choose(n, x) ELSE x]]
           best == CHOOSE best : best = [n \in D |-> IF n = 0 THEN Nothing
                                                               ELSE Choose(n, best[n - 1])]
<1>1. \A n \in 1..Len(list), x \in T : Choose(n, x) \in T
  OBVIOUS
<1>2. \A n, x : Choose(n, x) = Chosen(list[n], x, register, score)
  BY Zenon DEF Chosen
<1> HIDE DEF Choose
<1>3. Nothing \in T /\ step \in [Nat -> [T -> T]]
  BY <1>1
<1> HIDE DEF T
<1>4. PICK f \in [Nat -> T] : f[0] = Nothing /\ \A n \in Nat : f[n + 1] = step[n + 1][f[n]]
  <2> HIDE DEF step
  <2>1. Solvable(T, Nothing, step)
    BY <1>3, Recursion
  <2> QED
    BY <2>1 DEF Solvable
<1> DEFINE g == [n \in D |-> f[n]]
<1>5. g = [n \in D |-> IF n = 0 THEN Nothing ELSE Choose(n, g[n - 1])]
  <2>1. ASSUME NEW n \in D, n # 0 PROVE f[n] = Choose(n, g[n - 1])
    <3>1. n - 1 \in Nat /\ (n - 1) + 1 = n /\ n \in 1..Len(list) /\ n - 1 \in D /\ n \in Nat
      BY <2>1
    <3>2. f[n] = step[n][f[n - 1]] /\ f[n - 1] \in T
      BY <1>4, <3>1
    <3>3. f[n] = Choose(n, f[n - 1])
      BY <3>1, <3>2
    <3> QED
      BY <3>1, <3>3
  <2>2. 0 \in D /\ g[0] = Nothing
    BY <1>4
  <2> QED
    BY <2>1, <2>2
<1> HIDE DEF g, D
<1>6. best = [n \in D |-> IF n = 0 THEN Nothing ELSE Choose(n, best[n - 1])]
  BY <1>5
<1>7. SelectCandidate(list, register, score) = best[Len(list)]
  BY Zenon DEF SelectCandidate, Choose, D
<1> HIDE DEF best
<1>8. best[0] = Nothing /\ \A n \in 1..Len(list) : best[n] = Choose(n, best[n - 1])
  BY <1>6 DEF D
<1> QED
  BY <1>2, <1>7, <1>8 DEF Rounds

\* What the loop has after k rounds: nothing, if no item so far passes the gates, or the first of
\* those that do with the highest score.
Passing(list, register, score, k) == {n \in 1..k : Passes(list[n], register, score)}
IsBest(list, score, n, among) ==
    /\ n \in among
    /\ \A o \in among : /\ score[list[o].id] <= score[list[n].id]
                        /\ o < n => score[list[o].id] < score[list[n].id]
Found(list, register, score, k, selected) ==
    LET passing == Passing(list, register, score, k)
    IN \/ passing = {} /\ selected = Nothing
       \/ \E n \in passing : IsBest(list, score, n, passing) /\ selected = list[n].id

\* A round of the loop.
LEMMA OneRound ==
    ASSUME NEW Id, Nothing \notin Id, NEW list, NEW k \in Nat, NEW m \in Nat, m = k + 1,
           \A n \in 1..m : list[n].id \in Id,
           NEW register, NEW score \in [Id -> Int], NEW sofar, Found(list, register, score, k, sofar)
    PROVE  Found(list, register, score, m, Chosen(list[m], sofar, register, score))
<1> DEFINE before == Passing(list, register, score, k)
           after == Passing(list, register, score, m)
           selected == Chosen(list[m], sofar, register, score)
           S(n) == score[list[n].id]
<1>1. /\ before \subseteq 1..k /\ after \subseteq 1..m /\ m \notin before /\ m \in 1..m
      /\ Passes(list[m], register, score) => after = before \cup {m}
      /\ ~Passes(list[m], register, score) => after = before
      /\ \A n \in before : n < m /\ ~(m < n)
  BY DEF Passing
<1>2. \A n \in 1..m : S(n) \in Int /\ list[n].id # Nothing
  OBVIOUS
<1>3. CASE ~Passes(list[m], register, score)
  <2>1. selected = sofar
    BY <1>3 DEF Chosen
  <2> QED
    BY <1>1, <1>3, <2>1 DEF Found
<1>4. CASE Passes(list[m], register, score) /\ before = {}
  <2>1. sofar = Nothing
    BY <1>4 DEF Found
  <2>2. selected = list[m].id
    BY <1>4, <2>1 DEF Chosen
  <2>3. after = {m}
    BY <1>1, <1>4
  <2>4. IsBest(list, score, m, after)
    BY <1>2, <2>3 DEF IsBest
  <2> QED
    BY <2>2, <2>3, <2>4 DEF Found
<1>5. CASE Passes(list[m], register, score) /\ before # {}
  <2>1. PICK n \in before : IsBest(list, score, n, before) /\ sofar = list[n].id
    BY <1>5 DEF Found
  <2>2. after = before \cup {m} /\ n \in 1..m /\ n < m
    BY <1>1, <1>5, <2>1
  <2>3. sofar # Nothing /\ score[sofar] = S(n)
    BY <1>2, <2>1, <2>2
  <2>4. /\ \A o \in before : S(o) <= S(n) /\ S(o) \in Int
        /\ \A o \in before : o < n => S(o) < S(n)
        /\ S(n) \in Int /\ S(m) \in Int
    BY <1>1, <1>2, <2>1, <2>2 DEF IsBest
  <2>5. CASE S(m) > S(n)
    <3>1. selected = list[m].id
      BY <1>5, <2>3, <2>5 DEF Chosen
    <3>2. \A o \in before : S(o) < S(m) /\ S(o) <= S(m)
      <4> HIDE DEF S
      <4> QED
        BY <2>4, <2>5
    <3>3. IsBest(list, score, m, after)
      BY <1>1, <2>2, <2>4, <3>2 DEF IsBest
    <3> QED
      BY <2>2, <3>1, <3>3 DEF Found
  <2>6. CASE ~(S(m) > S(n))
    <3>1. selected = sofar
      BY <2>3, <2>6 DEF Chosen
    <3>2. S(m) <= S(n)
      <4> HIDE DEF S
      <4> QED
        BY <2>4, <2>6
    <3>3. IsBest(list, score, n, after)
      BY <1>1, <2>1, <2>2, <2>4, <3>2 DEF IsBest
    <3> QED
      BY <2>1, <2>2, <3>1, <3>3 DEF Found
  <2> QED
    BY <2>5, <2>6
<1> QED
  BY <1>3, <1>4, <1>5

\* discharge.py:108-111, for a list of any length and any scores: no item is selected if none passes
\* the gates; otherwise one that passes, none that passes is more relevant, and none before it is
\* as relevant.
THEOREM TheBestIsSelected ==
    ASSUME NEW Id, Nothing \notin Id, NEW list, Len(list) \in Nat,
           \A n \in 1..Len(list) : list[n].id \in Id, NEW register, NEW score \in [Id -> Int]
    PROVE  LET passing == {n \in 1..Len(list) : Passes(list[n], register, score)}
               selected == SelectCandidate(list, register, score)
           IN /\ passing = {} => selected = Nothing
              /\ passing # {} =>
                   \E n \in passing :
                     /\ selected = list[n].id
                     /\ \A o \in passing : /\ score[list[o].id] <= score[list[n].id]
                                           /\ o < n => score[list[o].id] < score[list[n].id]
<1> DEFINE N == Len(list)
<1>1. PICK best : Rounds(best, list, register, score)
  BY SelectionLoop, Zenon
<1>2. /\ best[0] = Nothing
      /\ \A n \in 1..N : best[n] = Chosen(list[n], best[n - 1], register, score)
      /\ SelectCandidate(list, register, score) = best[N]
  BY <1>1 DEF Rounds
<1> DEFINE bad == {k \in 0..N : ~Found(list, register, score, k, best[k])}
<1>3. bad = {}
  <2> SUFFICES ASSUME bad # {} PROVE FALSE
    OBVIOUS
  <2>1. PICK m \in bad : \A k \in bad : m <= k
    <3>1. bad \subseteq Nat
      OBVIOUS
    <3> HIDE DEF bad
    <3> QED
      BY <3>1, LeastElement
  <2>2. m # 0
    <3>1. Found(list, register, score, 0, Nothing)
      BY DEF Found, Passing
    <3> QED
      BY <1>2, <2>1, <3>1
  <2>3. PICK k \in Nat : m = k + 1 /\ k \in 0..N /\ m \in Nat /\ m \in 1..N
    <3>1. m - 1 \in Nat /\ m = (m - 1) + 1 /\ m - 1 \in 0..N /\ m \in Nat /\ m \in 1..N
      BY <2>1, <2>2
    <3> QED
      BY <3>1
  <2>4. Found(list, register, score, k, best[k])
    BY <2>1, <2>3
  <2>5. best[m] = Chosen(list[m], best[k], register, score)
    BY <1>2, <2>3
  <2>6. \A n \in 1..m : list[n].id \in Id
    BY <2>3
  <2>7. Found(list, register, score, m, best[m])
    BY <2>3, <2>4, <2>5, <2>6, OneRound
  <2> QED
    BY <2>1, <2>7
<1>4. Found(list, register, score, N, SelectCandidate(list, register, score))
  BY <1>2, <1>3
<1> QED
  BY <1>4 DEF Found, Passing, IsBest

\* So a turn selects nothing or one of the items.
LEMMA CandidateType ==
    ASSUME NEW Id, NEW list, Len(list) \in Nat, \A n \in 1..Len(list) : list[n].id \in Id,
           NEW register, NEW score
    PROVE  SelectCandidate(list, register, score) \in Id \cup {Nothing}
<1> DEFINE N == Len(list)
<1>1. PICK best : Rounds(best, list, register, score)
  BY SelectionLoop, Zenon
<1>2. /\ best[0] = Nothing
      /\ \A n \in 1..N : best[n] = Chosen(list[n], best[n - 1], register, score)
      /\ SelectCandidate(list, register, score) = best[N]
  BY <1>1 DEF Rounds
<1> DEFINE bad == {n \in 0..N : best[n] \notin Id \cup {Nothing}}
<1>3. bad = {}
  <2> SUFFICES ASSUME bad # {} PROVE FALSE
    OBVIOUS
  <2>1. PICK n \in bad : \A m \in bad : n <= m
    <3>1. bad \subseteq Nat
      OBVIOUS
    <3> HIDE DEF bad
    <3> QED
      BY <3>1, LeastElement
  <2>2. n # 0
    BY <1>2, <2>1
  <2>3. n - 1 \in 0..N /\ ~(n <= n - 1) /\ n \in 1..N
    BY <2>1, <2>2
  <2>4. best[n - 1] \in Id \cup {Nothing}
    BY <2>1, <2>3
  <2> QED
    BY <1>2, <2>1, <2>3, <2>4 DEF Chosen
<1> QED
  BY <1>2, <1>3
-----------------------------------------------------------------------------
(* What a correction changes                                                *)

Indicator(c) == IF c THEN 1 ELSE 0

\* A correction more counts once at the end of a list,
LEMMA CountAppended ==
    ASSUME NEW S, NEW list \in Seq(S), NEW c, NEW field, NEW r
    PROVE  Count(Append(list, c), field, r) = Count(list, field, r) + Indicator(c[field] = r)
<1> DEFINE n == Len(list)
           new == Append(list, c)
           A == {i \in DOMAIN list : list[i][field] = r}
           B == {i \in DOMAIN new : new[i][field] = r}
<1>1. /\ DOMAIN list = 1..n /\ DOMAIN new = 1..(n + 1) /\ n \in Nat
      /\ new[n + 1] = c /\ \A i \in 1..n : new[i] = list[i]
  OBVIOUS
<1>2. IsFiniteSet(A) /\ Cardinality(A) \in Nat
  <2>1. IsFiniteSet(1..n) /\ A \subseteq 1..n
    BY <1>1, FS_Interval
  <2> QED
    BY <2>1, FS_Subset, FS_CardinalityType
<1> HIDE DEF new
<1>a. Count(list, field, r) = Cardinality(A) /\ Count(new, field, r) = Cardinality(B)
  BY DEF Count
<1> HIDE DEF A, B
<1>3. CASE c[field] = r
  <2>1. B = A \cup {n + 1} /\ n + 1 \notin A
    BY <1>1, <1>3 DEF A, B
  <2>2. Cardinality(B) = Cardinality(A) + 1
    BY <1>2, <2>1, FS_AddElement
  <2> QED
    BY <1>a, <1>3, <2>2 DEF Indicator, new
<1>4. CASE c[field] # r
  <2>1. B = A
    BY <1>1, <1>4 DEF A, B
  <2> QED
    BY <1>a, <1>2, <1>4, <2>1 DEF Indicator, new
<1> QED
  BY <1>3, <1>4

Prepended(list, rest) ==
    Len(list) = Len(rest) + 1 /\ \A i \in 1..Len(rest) : list[i + 1] = rest[i]

\* and once at its beginning.
LEMMA CountPrepended ==
    ASSUME NEW S, NEW list \in Seq(S), NEW rest \in Seq(S), Prepended(list, rest), NEW field, NEW r
    PROVE  Count(list, field, r) = Count(rest, field, r) + Indicator(list[1][field] = r)
<1> DEFINE n == Len(rest)
           A == {i \in DOMAIN rest : rest[i][field] = r}
           B == {i \in DOMAIN list : i # 1 /\ list[i][field] = r}
           C == {i \in DOMAIN list : list[i][field] = r}
           next == [i \in A |-> i + 1]
<1>1. /\ DOMAIN rest = 1..n /\ DOMAIN list = 1..(n + 1) /\ n \in Nat
      /\ \A i \in 1..n : list[i + 1] = rest[i]
  BY DEF Prepended
<1>2. IsFiniteSet(A) /\ Cardinality(A) \in Nat
  <2>1. IsFiniteSet(1..n) /\ A \subseteq 1..n
    BY <1>1, FS_Interval
  <2> QED
    BY <2>1, FS_Subset, FS_CardinalityType
<1>3. \A i \in A : i \in 1..n /\ i + 1 \in B
  BY <1>1
<1>4. \A j \in B : j - 1 \in A /\ (j - 1) + 1 = j
  <2> SUFFICES ASSUME NEW j \in B PROVE j - 1 \in A /\ (j - 1) + 1 = j
    OBVIOUS
  <2>1. j - 1 \in 1..n /\ (j - 1) + 1 = j
    BY <1>1
  <2>2. list[j] = rest[j - 1]
    BY <1>1, <2>1
  <2> QED
    BY <1>1, <2>1, <2>2
<1>5. ExistsBijection(A, B)
  <2>1. next \in [A -> B]
    BY <1>3
  <2>2. \A i, j \in A : next[i] = next[j] => i = j
    BY <1>3
  <2>3. \A j \in B : \E i \in A : next[i] = j
    BY <1>4
  <2> HIDE DEF next, A, B
  <2> QED
    BY <2>1, <2>2, <2>3 DEF ExistsBijection, Bijection, Injection, Surjection, IsInjective
<1>6. IsFiniteSet(B) /\ Cardinality(B) = Cardinality(A)
  BY <1>2, <1>5, FS_Bijection
<1>a. Count(rest, field, r) = Cardinality(A) /\ Count(list, field, r) = Cardinality(C)
  BY DEF Count
<1> HIDE DEF A
<1>7. CASE list[1][field] = r
  <2>1. C = B \cup {1} /\ 1 \notin B
    BY <1>1, <1>7
  <2> HIDE DEF B, C
  <2>2. Cardinality(C) = Cardinality(B) + 1
    BY <1>6, <2>1, FS_AddElement
  <2> QED
    BY <1>a, <1>6, <1>7, <2>2 DEF Indicator
<1>8. CASE list[1][field] # r
  <2>1. C = B
    BY <1>1, <1>8
  <2> HIDE DEF B, C
  <2> QED
    BY <1>a, <1>2, <1>6, <1>8, <2>1 DEF Indicator
<1> QED
  BY <1>7, <1>8

\* The correction that a new one pushes out of the window.
PushesOut(list) == Len(list) >= Window
Outgoing(list) == list[Len(list) - Window + 1]

\* From the first place to the last a list is itself.
LEMMA WholeSequence ==
    ASSUME NEW S, NEW list \in Seq(S)
    PROVE  SubSeq(list, 1, Len(list)) = list
<1>1. /\ SubSeq(list, 1, Len(list)) \in Seq(S) /\ Len(SubSeq(list, 1, Len(list))) = Len(list)
      /\ \A i \in 1..Len(list) : SubSeq(list, 1, Len(list))[i] = list[i]
  OBVIOUS
<1> QED
  BY <1>1

\* A correction more enters the window, and pushes the oldest out when the window is full.
LEMMA CountRecent ==
    ASSUME NEW list \in Seq(Correction), NEW c \in Correction, NEW field, NEW r
    PROVE  Count(Recent(Append(list, c)), field, r)
             = Count(Recent(list), field, r) + Indicator(c[field] = r)
               - Indicator(PushesOut(list) /\ Outgoing(list)[field] = r)
<1> DEFINE n == Len(list)
           new == Append(list, c)
<1>1. /\ n \in Nat /\ Window \in Nat /\ Window > 0 /\ new \in Seq(Correction) /\ Len(new) = n + 1
      /\ new[n + 1] = c /\ \A i \in 1..n : new[i] = list[i]
  BY WindowAssumption
<1> HIDE DEF new
<1>2. CASE n < Window
  <2>1. Recent(list) = list
    <3>1. Recent(list) = SubSeq(list, 1, n)
      <4>1. ~(Len(list) > Window)
        BY <1>1, <1>2
      <4> QED
        BY <4>1, Zenon DEF Recent
    <3> QED
      BY <1>1, <3>1, WholeSequence
  <2>2. Recent(new) = new
    <3>1. Recent(new) = SubSeq(new, 1, Len(new))
      <4>1. ~(Len(new) > Window)
        BY <1>1, <1>2
      <4> QED
        BY <4>1, Zenon DEF Recent
    <3> QED
      BY <1>1, <3>1, WholeSequence
  <2>3. ~PushesOut(list)
    BY <1>1, <1>2 DEF PushesOut
  <2>4. Count(list, field, r) \in Nat
    BY CountType
  <2> QED
    BY <2>1, <2>2, <2>3, <2>4, CountAppended DEF new, Indicator
<1>3. CASE n >= Window
  <2> DEFINE rest == SubSeq(list, n - Window + 2, n)
  <2>1. /\ rest \in Seq(Correction) /\ Len(rest) = Window - 1
        /\ \A i \in 1..(Window - 1) : rest[i] = list[n - Window + 1 + i]
    BY <1>1, <1>3
  <2>2. /\ Recent(list) \in Seq(Correction) /\ Len(Recent(list)) = Window
        /\ \A i \in 1..Window : Recent(list)[i] = list[n - Window + i]
    BY <1>1, <1>3 DEF Recent
  <2>3. /\ Recent(new) \in Seq(Correction) /\ Len(Recent(new)) = Window
        /\ \A i \in 1..Window : Recent(new)[i] = new[n + 1 - Window + i]
    BY <1>1, <1>3 DEF Recent
  <2> HIDE DEF rest
  <2>4. Count(Recent(list), field, r)
          = Count(rest, field, r) + Indicator(Recent(list)[1][field] = r)
    <3>1. Len(Recent(list)) = Len(rest) + 1
      BY <1>1, <2>1, <2>2
    <3>2. \A i \in 1..Len(rest) : Recent(list)[i + 1] = rest[i]
      <4> SUFFICES ASSUME NEW i \in 1..Len(rest) PROVE Recent(list)[i + 1] = rest[i]
        OBVIOUS
      <4>1. /\ i \in 1..(Window - 1) /\ i + 1 \in 1..Window
            /\ n - Window + (i + 1) = n - Window + 1 + i
        BY <1>1, <2>1
      <4>2. Recent(list)[i + 1] = list[n - Window + (i + 1)] /\ rest[i] = list[n - Window + 1 + i]
        BY <4>1, <2>1, <2>2
      <4> QED
        BY <4>1, <4>2
    <3>3. Prepended(Recent(list), rest)
      BY <3>1, <3>2 DEF Prepended
    <3> HIDE DEF n
    <3> QED
      BY <2>1, <2>2, <3>3, CountPrepended
  <2>5. Recent(new) = Append(rest, c)
    <3>1. Append(rest, c) \in Seq(Correction) /\ Len(Append(rest, c)) = Window
      BY <1>1, <2>1
    <3>2. \A i \in 1..Window : Recent(new)[i] = Append(rest, c)[i]
      <4> SUFFICES ASSUME NEW i \in 1..Window PROVE Recent(new)[i] = Append(rest, c)[i]
        OBVIOUS
      <4>1. CASE i = Window
        <5>1. n + 1 - Window + i = n + 1 /\ Append(rest, c)[i] = c
          BY <1>1, <2>1, <4>1
        <5> QED
          BY <1>1, <2>3, <5>1
      <4>2. CASE i # Window
        <5>1. /\ i \in 1..(Window - 1) /\ n - Window + 1 + i \in 1..n
              /\ n + 1 - Window + i = n - Window + 1 + i
          BY <1>1, <1>3, <4>2
        <5>2. Append(rest, c)[i] = rest[i]
          BY <2>1, <5>1
        <5>3. Recent(new)[i] = list[n - Window + 1 + i]
          BY <1>1, <2>3, <5>1
        <5> QED
          BY <2>1, <5>1, <5>2, <5>3
      <4> QED
        BY <4>1, <4>2
    <3> QED
      BY <2>3, <3>1, <3>2
  <2>6. Recent(list)[1] = Outgoing(list)
    BY <1>1, <2>2 DEF Outgoing
  <2>7. Count(rest, field, r) \in Nat
    BY <2>1, CountType
  <2>8. Count(Recent(new), field, r) = Count(rest, field, r) + Indicator(c[field] = r)
    BY <2>1, <2>5, CountAppended
  <2>9. PushesOut(list)
    BY <1>3 DEF PushesOut
  <2> QED
    BY <2>4, <2>6, <2>7, <2>8, <2>9 DEF Indicator, new
<1> QED
  BY <1>1, <1>2, <1>3
-----------------------------------------------------------------------------
(* The steps, and the types of the stores                                   *)

\* The types of the stores and of the histories; and what updating the locals of a turn relies
\* on: that they are a record.
StoreTypes ==
    /\ at = [t \in Turn |-> at[t]]
    /\ local = [t \in Turn |-> [number |-> local[t].number, register |-> local[t].register,
                                known |-> local[t].known, candidate |-> local[t].candidate]]
    /\ items \in Dictionary /\ theirs \in Dictionary /\ file \in Dictionary
    /\ detection \in [runs : BOOLEAN, store : Dictionary, recorded : Items \cup {Nothing}]
    /\ overwritten \in BOOLEAN /\ stale \in BOOLEAN
    /\ shown \in [Items -> SUBSET Turn] /\ past \in [Items -> SUBSET Turn]

ThreadStep == \E thread \in scenario.threads : AddThreadToStack(thread)
SettleStep == \E i \in scenario.items : SettleItem(i)
DetectionStep ==
    StartDetection \/ EndDetection \/ \E i \in scenario.items : RecordContradiction(i)
RespondStep(t) ==
    \E primary \in scenario.primary, secondary \in scenario.secondary,
       moved \in SUBSET scenario.moving, score \in scenario.scores :
      Respond(t, primary, secondary, moved, score)
BeginStep(t) == \E m \in scenario.messages : BeginTurn(t, m)
FinishStep(t) == \E c \in scenario.corrections \cup {None} : FinishTurn(t, c)

\* The steps of the system, those of a turn first.
LEMMA Steps ==
    ASSUME [Next]_vars
    PROVE  \/ \E t \in Turn : BeginStep(t) \/ Retrieve(t) \/ FailTurn(t) \/ Hydrate(t) \/ Surface(t)
                              \/ RespondStep(t) \/ FinishStep(t)
           \/ ThreadStep \/ SettleStep \/ DetectionStep \/ WriteHoldingItem \/ Restart
           \/ UNCHANGED vars
BY DEF Next, BeginStep, RespondStep, FinishStep, ThreadStep, SettleStep, DetectionStep

\* A step of a turn that touches no store: where the turn may go, and what it carries.
LEMMA TurnFrame ==
    ASSUME StoreTypes, NEW t \in Turn,
           BeginStep(t) \/ Retrieve(t) \/ FailTurn(t) \/ Hydrate(t) \/ RespondStep(t)
    PROVE  /\ at' = [u \in Turn |-> at'[u]]
           /\ local' = [u \in Turn |->
                           [number |-> local'[u].number, register |-> local'[u].register,
                            known |-> local'[u].known, candidate |-> local'[u].candidate]]
           /\ at[t] # "answered"
           /\ at'[t] = "noting" => local'[t].candidate = Nothing
           /\ \A u \in Turn \ {t} : at'[u] = at[u] /\ local'[u] = local[u]
           /\ UNCHANGED storeVars
<1> USE DEF StoreTypes, Goto, Leave, NoLocals
<1>1. CASE BeginStep(t)
  <2>1. PICK m \in scenario.messages : BeginTurn(t, m)
    BY <1>1 DEF BeginStep
  <2>2. at[t] = "sent" /\ (Goto(t, "retrieving") \/ Goto(t, "responding")) /\ UNCHANGED storeVars
    BY <2>1 DEF BeginTurn
  <2>3. PICK number, known, register :
          local' = [local EXCEPT ![t] =
            [NoLocals EXCEPT !.number = number, !.known = known, !.register = register]]
    BY <2>1, Zenon DEF BeginTurn
  <2>4. /\ local' = [u \in Turn |-> [number |-> local'[u].number, register |-> local'[u].register,
                                    known |-> local'[u].known, candidate |-> local'[u].candidate]]
        /\ \A u \in Turn \ {t} : local'[u] = local[u]
    <3>a. PICK a : a = [NoLocals EXCEPT !.number = number]
      OBVIOUS
    <3>b. PICK b : b = [a EXCEPT !.known = known]
      OBVIOUS
    <3>c. PICK c : c = [b EXCEPT !.register = register]
      OBVIOUS
    <3>1. a = [number |-> number, register |-> "casual", known |-> {}, candidate |-> Nothing]
      BY <3>a DEF NoLocals
    <3>2. b = [number |-> number, register |-> "casual", known |-> known, candidate |-> Nothing]
      BY <3>b, <3>1
    <3>3. c = [number |-> number, register |-> register, known |-> known, candidate |-> Nothing]
      BY <3>c, <3>2
    <3>4. local' = [local EXCEPT ![t] = c]
      BY <2>3, <3>a, <3>b, <3>c, Zenon
    <3> QED
      BY <3>3, <3>4
  <2> QED
    BY <2>2, <2>4
<1>2. CASE Retrieve(t) \/ Hydrate(t)
  BY <1>2 DEF Retrieve, Hydrate
<1>3. CASE FailTurn(t)
  BY <1>3 DEF FailTurn
<1>4. CASE RespondStep(t)
  <2>1. PICK primary \in scenario.primary, secondary \in scenario.secondary,
             moved \in SUBSET scenario.moving, score \in scenario.scores :
          Respond(t, primary, secondary, moved, score)
    BY <1>4 DEF RespondStep
  <2>2. PICK selected : /\ local' = [local EXCEPT ![t].candidate = selected]
                        /\ \/ Goto(t, "noting") /\ selected = Nothing
                           \/ Goto(t, "hydrating") \/ Goto(t, "surfacing")
    BY <2>1, Zenon DEF Respond
  <2>3. /\ at' = [u \in Turn |-> at'[u]] /\ \A u \in Turn \ {t} : at'[u] = at[u]
    BY <2>2
  <2>4. /\ local' = [u \in Turn |-> [number |-> local'[u].number, register |-> local'[u].register,
                                    known |-> local'[u].known, candidate |-> local'[u].candidate]]
        /\ \A u \in Turn \ {t} : local'[u] = local[u]
        /\ local'[t].candidate = selected
    <3>1. PICK e : e = local[t]
      OBVIOUS
    <3>2. PICK f : f = [e EXCEPT !.candidate = selected]
      OBVIOUS
    <3>3. f = [number |-> e.number, register |-> e.register, known |-> e.known,
               candidate |-> selected]
      BY <3>1, <3>2
    <3>4. local' = [local EXCEPT ![t] = f]
      BY <2>2, <3>1, <3>2, Zenon
    <3> QED
      BY <3>3, <3>4
  <2>5. at'[t] = "noting" => selected = Nothing
    BY <2>2
  <2> QED
    BY <2>1, <2>3, <2>4, <2>5 DEF Respond
<1> QED
  BY <1>1, <1>2, <1>3, <1>4

\* Surface either marks an open item or fails the turn.
LEMMA SurfaceEffect ==
    ASSUME NEW t, Surface(t)
    PROVE  /\ \/ /\ items[local[t].candidate] = "open"
                 /\ items' = [items EXCEPT ![local[t].candidate] = "surfaced"]
                 /\ Save(items') /\ Goto(t, "noting") /\ UNCHANGED <<busy, local>>
              \/ Leave(t, "failed") /\ UNCHANGED <<items, file, overwritten>>
           /\ at[t] = "surfacing" /\ UNCHANGED <<theirs, detection, stale, shown, past>>
BY DEF Surface, CanDischarge, Save

\* The stores are well typed when the process starts,
LEMMA InitStores == Init => StoreTypes
<1> SUFFICES ASSUME Init PROVE StoreTypes
  OBVIOUS
<1>1. file \in Dictionary
  BY DEF Init, Dictionary, ItemState
<1>2. NoDetection \in [runs : BOOLEAN, store : Dictionary, recorded : Items \cup {Nothing}]
  BY DEF NoDetection, Dictionary, ItemState
<1> QED
  BY <1>1, <1>2 DEF Init, StoreTypes, NoLocals

\* and stay so.
LEMMA NextStores == StoreTypes /\ scenario \in Scenario /\ [Next]_vars => StoreTypes'
<1> SUFFICES ASSUME StoreTypes, scenario \in Scenario, [Next]_vars PROVE StoreTypes'
  OBVIOUS
<1> USE DEF StoreTypes
<1>1. ASSUME NEW t \in Turn,
             BeginStep(t) \/ Retrieve(t) \/ FailTurn(t) \/ Hydrate(t) \/ RespondStep(t)
      PROVE  StoreTypes'
  BY <1>1, TurnFrame DEF storeVars
<1>2. ASSUME NEW t \in Turn, Surface(t) PROVE StoreTypes'
  <2>1. CASE Leave(t, "failed") /\ UNCHANGED <<items, file, overwritten>>
    BY <1>2, <2>1, SurfaceEffect DEF Goto, Leave, NoLocals
  <2>2. CASE /\ items' = [items EXCEPT ![local[t].candidate] = "surfaced"] /\ Save(items')
             /\ Goto(t, "noting") /\ UNCHANGED <<busy, local>>
    <3>1. items' \in Dictionary
      BY <2>2 DEF Dictionary, ItemState
    <3>2. file' = items' /\ overwritten' \in BOOLEAN
      BY <2>2 DEF Save
    <3>3. at' = [u \in Turn |-> at'[u]]
      BY <2>2 DEF Goto
    <3> QED
      BY <1>2, <2>2, <3>1, <3>2, <3>3, SurfaceEffect
  <2> QED
    BY <1>2, <2>1, <2>2, SurfaceEffect
<1>3. ASSUME NEW t \in Turn, FinishStep(t) PROVE StoreTypes'
  <2>1. /\ Leave(t, "answered")
        /\ UNCHANGED <<items, theirs, detection, file, overwritten, stale, past>>
        /\ shown' = [i \in Items |-> IF i = local[t].candidate THEN shown[i] \cup {t} ELSE shown[i]]
    BY <1>3 DEF FinishStep, FinishTurn
  <2>2. shown' \in [Items -> SUBSET Turn]
    BY <2>1
  <2>3. at' = [u \in Turn |-> at'[u]]
    BY <2>1 DEF Leave, Goto
  <2>4. local' = [u \in Turn |-> [number |-> local'[u].number, register |-> local'[u].register,
                                 known |-> local'[u].known, candidate |-> local'[u].candidate]]
    BY <2>1 DEF Leave, NoLocals
  <2> QED
    BY <2>1, <2>2, <2>3, <2>4
<1>4. CASE ThreadStep
  BY <1>4 DEF ThreadStep, AddThreadToStack, loopVars, storeVars
<1>5. CASE SettleStep
  <2>1. PICK i \in scenario.items : SettleItem(i)
    BY <1>5 DEF SettleStep
  <2>2. theirs' \in Dictionary
    BY <2>1 DEF SettleItem, Dictionary, ItemState
  <2>3. file' = theirs' /\ overwritten' \in BOOLEAN
    BY <2>1 DEF SettleItem, Save
  <2> QED
    BY <2>1, <2>2, <2>3 DEF SettleItem, loopVars
<1>6. CASE DetectionStep
  <2>1. /\ UNCHANGED detectionUnchanged /\ UNCHANGED <<file, overwritten>>
        /\ detection' \in [runs : BOOLEAN, store : Dictionary, recorded : Items \cup {Nothing}]
    <3>1. CASE StartDetection
      BY <3>1 DEF StartDetection, detectionUnchanged
    <3>2. CASE EndDetection
      BY <3>2 DEF EndDetection, detectionUnchanged, NoDetection, Dictionary, ItemState
    <3>3. ASSUME NEW i \in scenario.items, RecordContradiction(i)
          PROVE  /\ UNCHANGED detectionUnchanged /\ UNCHANGED <<file, overwritten>>
                 /\ detection' \in [runs : BOOLEAN, store : Dictionary,
                                    recorded : Items \cup {Nothing}]
      <4>1. i \in Items
        BY TurnAssumption
      <4> QED
        BY <3>3, <4>1 DEF RecordContradiction, detectionUnchanged
    <3> QED
      BY <1>6, <3>1, <3>2, <3>3 DEF DetectionStep
  <2> QED
    BY <2>1 DEF detectionUnchanged, loopVars
<1>7. CASE WriteHoldingItem
  <2>1. PICK written \in Dictionary :
          detection' = [runs |-> TRUE, store |-> written, recorded |-> Nothing] /\ Save(written)
    BY <1>7 DEF WriteHoldingItem, Dictionary, ItemState
  <2> QED
    BY <1>7, <2>1 DEF WriteHoldingItem, Save, detectionUnchanged, loopVars
<1>8. CASE Restart
  <2>1. /\ at' = [t \in Turn |-> at'[t]] /\ \A t \in Turn : local'[t] = NoLocals
        /\ NoDetection \in [runs : BOOLEAN, store : Dictionary, recorded : Items \cup {Nothing}]
    BY <1>8 DEF Restart, NoDetection, Dictionary, ItemState
  <2>2. local' = [t \in Turn |-> [number |-> local'[t].number, register |-> local'[t].register,
                                 known |-> local'[t].known, candidate |-> local'[t].candidate]]
    BY <1>8, <2>1 DEF Restart, NoLocals
  <2>3. past' \in [Items -> SUBSET Turn]
    BY <1>8 DEF Restart
  <2> QED
    BY <1>8, <2>1, <2>2, <2>3 DEF Restart
<1>9. CASE UNCHANGED vars
  BY <1>9 DEF vars, loopVars, storeVars
<1> QED
  BY <1>1, <1>2, <1>3, <1>4, <1>5, <1>6, <1>7, <1>8, <1>9, Steps

-----------------------------------------------------------------------------
(* Types                                                                    *)

Places == {"sent", "retrieving", "responding", "hydrating", "surfacing", "noting", "answered",
           "failed"}

\* The rest of the types, and what is asked of the stack.
TurnTypes ==
    /\ scenario \in Scenario /\ client \in BOOLEAN /\ busy \in Turn \cup {None}
    /\ at \in [Turn -> Places] /\ local \in [Turn -> Locals]
    /\ turnCount \in Nat /\ Ranked(stack) /\ floating \in Seq(Entry(Thread))
    /\ update \in [turn : Nat, referenced : SUBSET Thread]
    /\ log \in Seq(Correction) /\ history \in Seq(Correction) /\ restarts \in Nat

TypeInv == StoreTypes /\ TurnTypes

\* What a step has to show of the turns' variables.
LEMMA TypesKept ==
    ASSUME TurnTypes, at' \in [Turn -> Places], local' \in [Turn -> Locals],
           busy' \in Turn \cup {None}, Ranked(stack'), floating' \in Seq(Entry(Thread)),
           log' \in Seq(Correction), history' \in Seq(Correction),
           scenario' = scenario, client' = client, turnCount' \in Nat, restarts' \in Nat,
           update' \in [turn : Nat, referenced : SUBSET Thread]
    PROVE  TurnTypes'
<1>1. Ranked(stack)'
  BY DEF Ranked
<1> QED
  BY <1>1 DEF TurnTypes

\* A stack that is left alone stays ranked.
LEMMA StackKept == TurnTypes /\ stack' = stack => Ranked(stack')
BY DEF TurnTypes

\* The inputs of a scenario are those of the system.
LEMMA Inputs ==
    ASSUME scenario \in Scenario
    PROVE  /\ scenario.messages \subseteq Message /\ scenario.threads \subseteq Thread
           /\ scenario.client \subseteq BOOLEAN
BY TurnAssumption

\* The threads of a stack are threads.
LEMMA ThreadsOfStack ==
    ASSUME NEW s \in Seq(Entry(Thread))
    PROVE  ThreadsOf(s) \subseteq Thread
<1>1. \A i \in DOMAIN s : s[i] \in Entry(Thread)
  OBVIOUS
<1>2. \A e \in Entry(Thread) : e.thread \in Thread
  BY DEF Entry
<1> QED
  BY <1>1, <1>2 DEF ThreadsOf

\* The locals of a turn not yet begun are well typed.
LEMMA NoLocalsType == NoLocals \in Locals
BY DEF NoLocals, Locals, Register, Candidates

\* The open items that a turn selects from are items of the store.
LEMMA UnsurfacedIds ==
    Len(Unsurfaced) \in Nat /\ \A n \in 1..Len(Unsurfaced) : Unsurfaced[n].id \in Items
<1> DEFINE places == {n \in DOMAIN Item : items[Item[n]] = "open"}
           held == Sublist(Item, places)
           entry(n) == [id |-> held[n], surfaced |-> FALSE, needed |-> Kind[held[n]].needed,
                        contradiction |-> Kind[held[n]].contradiction]
<1>1. held \in Seq(Items)
  BY TurnAssumption, SublistType
<1>2. Unsurfaced = [n \in DOMAIN held |-> entry(n)]
  BY Zenon DEF Unsurfaced
<1> HIDE DEF held
<1>3. DOMAIN held = 1..Len(held) /\ Len(held) \in Nat /\ \A n \in 1..Len(held) : held[n] \in Items
  BY <1>1
<1>4. \A n : entry(n).id = held[n]
  OBVIOUS
<1> HIDE DEF entry
<1>5. Unsurfaced = [n \in 1..Len(held) |-> entry(n)]
  BY <1>2, <1>3
<1>6. Len(Unsurfaced) = Len(held)
  BY <1>3, <1>5
<1> QED
  BY <1>3, <1>4, <1>5, <1>6

\* The turns are well typed when the process starts.
LEMMA InitTypes == Init => TurnTypes
<1> SUFFICES ASSUME Init PROVE TurnTypes
  OBVIOUS
<1>1. scenario \in Scenario /\ client \in BOOLEAN
  BY Inputs DEF Init
<1>2. <<>> \in Seq(Entry(Thread)) /\ Ranked(<<>>)
  BY DEF Ranked
<1>3. NoUpdate \in [turn : Nat, referenced : SUBSET Thread]
  BY DEF NoUpdate
<1> QED
  BY <1>1, <1>2, <1>3, NoLocalsType DEF Init, TurnTypes, Places

\* Beginning a turn keeps the types: the register is inferred from the corrections so far.
LEMMA BeginTypes ==
    ASSUME TypeInv, NEW t \in Turn, BeginStep(t)
    PROVE  TurnTypes'
<1>1. PICK m \in scenario.messages : BeginTurn(t, m)
  BY DEF BeginStep
<1>2. PICK register \in Register : register = InferRegister(m, history)
  BY Inputs, InferredRegister DEF TypeInv, TurnTypes
<1>3. PICK known \in SUBSET Thread : known = ThreadsOf(stack)
  BY ThreadsOfStack DEF TypeInv, TurnTypes, Ranked
<1>4. PICK number \in Nat : number = turnCount + 1
  BY DEF TypeInv, TurnTypes
<1>5. PICK a : a = [NoLocals EXCEPT !.number = number]
  OBVIOUS
<1>6. PICK b : b = [a EXCEPT !.known = known]
  OBVIOUS
<1>7. PICK c : c = [b EXCEPT !.register = register]
  OBVIOUS
<1>8. a \in Locals
  BY <1>5, NoLocalsType DEF Locals
<1>9. b \in Locals
  BY <1>6, <1>8 DEF Locals
<1>10. c \in Locals
  BY <1>7, <1>9 DEF Locals
<1>11. local' = [local EXCEPT ![t] = c]
  BY <1>1, <1>2, <1>3, <1>4, <1>5, <1>6, <1>7, Zenon DEF BeginTurn
<1>12. local' \in [Turn -> Locals]
  BY <1>10, <1>11 DEF TypeInv, TurnTypes
<1>13. at' \in [Turn -> Places] /\ busy' \in Turn \cup {None}
  BY <1>1 DEF BeginTurn, Goto, TypeInv, TurnTypes, Places
<1> QED
  BY <1>1, <1>4, <1>12, <1>13 DEF BeginTurn, logVars, TypeInv, TurnTypes, Ranked

\* Answering keeps the types: the stack is updated, and an item selected.
LEMMA RespondTypes ==
    ASSUME TypeInv, NEW t \in Turn, RespondStep(t)
    PROVE  TurnTypes'
<1>1. PICK primary \in scenario.primary, secondary \in scenario.secondary,
           moved \in SUBSET scenario.moving, score \in scenario.scores :
        Respond(t, primary, secondary, moved, score)
  BY DEF RespondStep
<1> DEFINE referenced == Referenced(primary, secondary)
           selected == SelectCandidate(Unsurfaced, local[t].register, score)
<1>2. /\ stack' = UpdateStack(stack, local[t].number, referenced, moved)
      /\ floating' = UpdateFloating(floating, local[t].number)
      /\ update' = [turn |-> local[t].number, referenced |-> referenced \cap ThreadsOf(stack)]
      /\ local' = [local EXCEPT ![t].candidate = selected]
      /\ \/ Goto(t, "noting") /\ UNCHANGED busy
         \/ Goto(t, "hydrating") /\ busy' = None
         \/ Goto(t, "surfacing") /\ UNCHANGED busy
      /\ UNCHANGED <<scenario, client, turnCount, logVars, restarts>>
  BY <1>1, Zenon DEF Respond
<1>3. selected \in Items \cup {Nothing}
  BY UnsurfacedIds, CandidateType
<1> HIDE DEF selected, referenced
<1>4. PICK n \in Nat : n = local[t].number
  BY DEF TypeInv, TurnTypes, Locals
<1>5. Ranked(stack')
  <2>1. stack \in Seq(Entry(Thread)) /\ Len(stack) <= 2
    BY DEF TypeInv, TurnTypes, Ranked
  <2> QED
    BY <1>2, <1>4, <2>1, UpdatedStack
<1>6. floating' \in Seq(Entry(Thread))
  BY <1>2, <1>4, UpdatedFloating DEF TypeInv, TurnTypes
<1>7. update' \in [turn : Nat, referenced : SUBSET Thread]
  BY <1>2, <1>4, ThreadsOfStack DEF TypeInv, TurnTypes, Ranked
<1>8. local' \in [Turn -> Locals]
  <2>1. PICK e \in Locals : e = local[t]
    BY DEF TypeInv, TurnTypes
  <2>2. PICK f : f = [e EXCEPT !.candidate = selected]
    OBVIOUS
  <2>3. f \in Locals
    BY <1>3, <2>2 DEF Locals
  <2>4. local' = [local EXCEPT ![t] = f]
    BY <1>2, <2>1, <2>2
  <2> QED
    BY <2>3, <2>4 DEF TypeInv, TurnTypes
<1>9. at' \in [Turn -> Places] /\ busy' \in Turn \cup {None}
  BY <1>2 DEF Goto, TypeInv, TurnTypes, Places
<1>10. /\ scenario' = scenario /\ client' = client /\ turnCount' = turnCount /\ log' = log
       /\ history' = history /\ restarts' = restarts
  BY <1>2 DEF logVars
<1> QED
  BY <1>5, <1>6, <1>7, <1>8, <1>9, <1>10 DEF TypeInv, TurnTypes, Ranked

\* Finishing a turn leaves the log and the history, or makes both the log and one correction.
LEMMA CorrectionApplied ==
    ASSUME NEW t, FinishStep(t)
    PROVE  \/ UNCHANGED <<log, history>>
           \/ \E c \in Correction : log' = Append(log, c) /\ history' = log'
BY Zenon DEF FinishStep, FinishTurn, ApplyCorrection, logVars

\* Every step keeps the types.
LEMMA NextTypes == TypeInv /\ [Next]_vars => TypeInv'
<1> SUFFICES ASSUME TypeInv, [Next]_vars PROVE TypeInv'
  OBVIOUS
<1> USE DEF TypeInv
<1>1. StoreTypes'
  BY NextStores DEF TurnTypes
<1>2. ASSUME NEW t \in Turn, BeginStep(t) \/ RespondStep(t) PROVE TurnTypes'
  BY <1>2, BeginTypes, RespondTypes
<1>3. ASSUME NEW t \in Turn, Retrieve(t) \/ Hydrate(t) \/ FailTurn(t) \/ Surface(t)
      PROVE  TurnTypes'
  <2>1. /\ UNCHANGED <<scenario, client, stackVars, logVars, restarts>>
        /\ \/ /\ Goto(t, "responding") \/ Goto(t, "surfacing") \/ Goto(t, "noting")
              /\ busy' \in {t, busy} /\ UNCHANGED local
           \/ Leave(t, "failed")
    BY <1>3, Zenon DEF Retrieve, Hydrate, FailTurn, Surface
  <2>2. at' \in [Turn -> Places] /\ busy' \in Turn \cup {None} /\ local' \in [Turn -> Locals]
    BY <2>1, NoLocalsType DEF Goto, Leave, TurnTypes, Places
  <2> QED
    BY <2>1, <2>2, TypesKept, StackKept DEF TurnTypes, stackVars, logVars
<1>4. ASSUME NEW t \in Turn, FinishStep(t) PROVE TurnTypes'
  <2>1. Leave(t, "answered") /\ UNCHANGED <<scenario, client, stackVars, restarts>>
    BY <1>4 DEF FinishStep, FinishTurn
  <2>2. log' \in Seq(Correction) /\ history' \in Seq(Correction)
    <3>1. log \in Seq(Correction) /\ history \in Seq(Correction)
      BY DEF TurnTypes
    <3> QED
      <4>1. CASE UNCHANGED <<log, history>>
        BY <3>1, <4>1
      <4>2. CASE \E c \in Correction : log' = Append(log, c) /\ history' = log'
        BY <3>1, <4>2
      <4> QED
        BY <1>4, <4>1, <4>2, CorrectionApplied
  <2>3. at' \in [Turn -> Places] /\ busy' \in Turn \cup {None} /\ local' \in [Turn -> Locals]
    BY <2>1, NoLocalsType DEF Goto, Leave, TurnTypes, Places
  <2> QED
    BY <2>1, <2>2, <2>3, TypesKept, StackKept DEF TurnTypes, stackVars
<1>5. CASE ThreadStep
  <2>1. PICK thread \in Thread : AddThreadToStack(thread)
    BY <1>5, Inputs DEF ThreadStep, TurnTypes
  <2>2. Ranked(stack') /\ floating' \in Seq(Entry(Thread))
    <3>1. CASE stack' = AddThread(stack, thread, turnCount) /\ UNCHANGED floating
      <4>1. /\ stack \in Seq(Entry(Thread)) /\ Len(stack) <= 2 /\ turnCount \in Nat
            /\ \A i \in DOMAIN stack : stack[i].salience <= One
        BY DEF TurnTypes, Ranked
      <4>2. Ranked(AddThread(stack, thread, turnCount))
        BY <4>1, AddedToStack
      <4> QED
        BY <3>1, <4>2 DEF TurnTypes
    <3>2. CASE floating' = AddFloating(floating, thread, turnCount) /\ UNCHANGED stack
      BY <3>2, NewEntryType, StackKept DEF TurnTypes, AddFloating
    <3> QED
      BY <2>1, <3>1, <3>2 DEF AddThreadToStack
  <2>3. UNCHANGED <<scenario, loopVars, turnCount, update, logVars, restarts>>
    BY <2>1 DEF AddThreadToStack
  <2> QED
    <3>1. /\ scenario' = scenario /\ client' = client /\ busy' = busy /\ at' = at /\ local' = local
          /\ turnCount' = turnCount /\ update' = update /\ log' = log /\ history' = history
          /\ restarts' = restarts
      BY <2>3 DEF loopVars, logVars
    <3>2. /\ at' \in [Turn -> Places] /\ local' \in [Turn -> Locals] /\ busy' \in Turn \cup {None}
          /\ log' \in Seq(Correction) /\ history' \in Seq(Correction) /\ turnCount' \in Nat
          /\ restarts' \in Nat /\ update' \in [turn : Nat, referenced : SUBSET Thread]
      BY <3>1 DEF TurnTypes
    <3> QED
      BY <1>1, <2>2, <3>1, <3>2, TypesKept
<1>6. CASE SettleStep \/ DetectionStep \/ WriteHoldingItem \/ UNCHANGED vars
  <2>1. UNCHANGED <<scenario, loopVars, stackVars, logVars, restarts>>
    BY <1>6, Zenon DEF SettleStep, SettleItem, DetectionStep, StartDetection, EndDetection,
                       RecordContradiction, WriteHoldingItem, detectionUnchanged, vars
  <2> QED
    <3>1. /\ scenario' = scenario /\ client' = client /\ busy' = busy /\ at' = at /\ local' = local
          /\ turnCount' = turnCount /\ stack' = stack /\ floating' = floating /\ update' = update
          /\ log' = log /\ history' = history /\ restarts' = restarts
      BY <2>1 DEF loopVars, stackVars, logVars
    <3>2. Ranked(stack')
      BY <3>1, StackKept
    <3>3. /\ at' \in [Turn -> Places] /\ local' \in [Turn -> Locals] /\ busy' \in Turn \cup {None}
          /\ log' \in Seq(Correction) /\ history' \in Seq(Correction) /\ turnCount' \in Nat
          /\ restarts' \in Nat /\ update' \in [turn : Nat, referenced : SUBSET Thread]
          /\ floating' \in Seq(Entry(Thread))
      BY <3>1 DEF TurnTypes
    <3> QED
      BY <1>1, <3>1, <3>2, <3>3, TypesKept
<1>7. CASE Restart
  <2>1. <<>> \in Seq(Entry(Thread)) /\ Ranked(<<>>) /\ <<>> \in Seq(Correction)
    BY DEF Ranked
  <2>2. NoUpdate \in [turn : Nat, referenced : SUBSET Thread]
    BY DEF NoUpdate
  <2>3. at' \in [Turn -> Places] /\ local' \in [Turn -> Locals]
    BY <1>7, NoLocalsType DEF Restart, TurnTypes, Places
  <2>4. /\ stack' = <<>> /\ floating' = <<>> /\ update' = NoUpdate /\ turnCount' = 0 /\ busy' = None
        /\ history' = <<>> /\ restarts' = restarts + 1
        /\ scenario' = scenario /\ client' = client /\ log' = log
    BY <1>7 DEF Restart
  <2>5. /\ Ranked(stack') /\ busy' \in Turn \cup {None} /\ floating' \in Seq(Entry(Thread))
        /\ log' \in Seq(Correction) /\ history' \in Seq(Correction) /\ turnCount' \in Nat
        /\ restarts' \in Nat /\ update' \in [turn : Nat, referenced : SUBSET Thread]
    BY <2>1, <2>2, <2>4 DEF TurnTypes
  <2> QED
    BY <1>1, <2>3, <2>4, <2>5, TypesKept
<1> QED
  BY <1>1, <1>2, <1>3, <1>4, <1>5, <1>6, <1>7, Steps

\* So the types hold throughout.
LEMMA TypeInduction == Spec => []TypeInv
<1>1. Init => TypeInv
  BY InitStores, InitTypes DEF TypeInv
<1> QED
  BY <1>1, NextTypes, PTL DEF Spec

\* The state of a conversation is well-typed, and no salience is above one: for any turns,
\* threads, items and parameters of the salience, however turns are delayed, so that they look
\* back over a negative number of turns.
THEOREM ConversationTypeCorrect == Spec => []TypeOK
<1>1. TypeInv => TypeOK
  BY DEF TypeInv, StoreTypes, TurnTypes, TypeOK, Places, Ranked
<1> QED
  BY <1>1, TypeInduction, PTL

\* The stack holds at most two threads, and the foreground is the one with the highest salience
\* (thread_stack.py:3-9), in whatever order delayed turns update it and threads come up: for any
\* parameters of the salience.
THEOREM ForegroundIsLeading == Spec => []ForegroundLeads
<1>1. TypeInv => ForegroundLeads
  BY DEF TypeInv, TurnTypes, ForegroundLeads, Ranked
<1> QED
  BY <1>1, TypeInduction, PTL

-----------------------------------------------------------------------------
(* A correction helps                                                       *)

\* What one correction more for x and against y, less what leaves the window, does to the
\* difference of their scores.
LEMMA ShiftedDifference ==
    ASSUME NEW x \in Int, NEW y \in Int, NEW a \in Int, NEW b \in Int, NEW e \in Int, NEW f \in Int,
           NEW p \in Int, NEW q \in Int, NEW r \in Int, NEW s \in Int
    PROVE  /\ (x + 15 * (a - b)) - (y + 15 * (e - f)) \in Int
           /\ (x + 15 * ((a + 1 - p) - (b - q))) - (y + 15 * ((e - r) - (f + 1 - s)))
                = (x + 15 * (a - b)) - (y + 15 * (e - f)) + 15 * ((1 - p) + q + r + (1 - s))
OBVIOUS

\* A correction moves the margin of its register in every message, unless the window drops one of
\* the same kind for it.
LEMMA MarginMoves ==
    ASSUME NEW list \in Seq(Correction), NEW c \in Correction, c.inferred # c.corrected,
           NEW m \in Message
    PROVE  IF Len(list) >= Window /\ list[Len(list) - Window + 1] = c
           THEN Margin(m, c, Append(list, c)) = Margin(m, c, list)
           ELSE Margin(m, c, Append(list, c)) > Margin(m, c, list)
<1> DEFINE new == Append(list, c)
           base == BaseScores(m)
           N(l, field, r) == Count(Recent(l), field, r)
           out(field, r) == Indicator(PushesOut(list) /\ Outgoing(list)[field] = r)
<1>1. new \in Seq(Correction) /\ c.inferred \in Register /\ c.corrected \in Register
      /\ base \in [Register -> Int]
  BY BaseType DEF Correction
<1>2. \A l \in Seq(Correction) : \A field, r : N(l, field, r) \in Nat
  BY RecentType, CountType
<1>3. \A field, r : N(new, field, r) = N(list, field, r) + Indicator(c[field] = r) - out(field, r)
  BY CountRecent
<1>4. \A l \in Seq(Correction) :
        Margin(m, c, l) =
          (base[c.corrected] + 15 * (N(l, "corrected", c.corrected) - N(l, "inferred", c.corrected)))
          - (base[c.inferred] + 15 * (N(l, "corrected", c.inferred) - N(l, "inferred", c.inferred)))
  BY <1>1, AdjustedScores DEF Margin
<1> HIDE DEF new, base, N, out
<1>5. /\ N(new, "corrected", c.corrected)
           = N(list, "corrected", c.corrected) + 1 - out("corrected", c.corrected)
      /\ N(new, "inferred", c.corrected)
           = N(list, "inferred", c.corrected) - out("inferred", c.corrected)
      /\ N(new, "corrected", c.inferred)
           = N(list, "corrected", c.inferred) - out("corrected", c.inferred)
      /\ N(new, "inferred", c.inferred)
           = N(list, "inferred", c.inferred) + 1 - out("inferred", c.inferred)
  <2>1. \A field, r : out(field, r) \in {0, 1}
    BY DEF out, Indicator
  <2> QED
    <3>1. /\ N(list, "corrected", c.corrected) \in Nat /\ N(list, "inferred", c.corrected) \in Nat
          /\ N(list, "corrected", c.inferred) \in Nat /\ N(list, "inferred", c.inferred) \in Nat
      BY <1>2
    <3>2. /\ Indicator(c["corrected"] = c.corrected) = 1 /\ Indicator(c["inferred"] = c.inferred) = 1
          /\ Indicator(c["corrected"] = c.inferred) = 0 /\ Indicator(c["inferred"] = c.corrected) = 0
      BY DEF Indicator
    <3>3. \A x \in Nat : \A b \in {0, 1} : x + 0 - b = x - b /\ x + 1 - b = x + 1 - b
      OBVIOUS
    <3> HIDE DEF Indicator
    <3> QED
      BY <1>3, <2>1, <3>1, <3>2, <3>3
<1>6. IF PushesOut(list) /\ Outgoing(list) = c
      THEN /\ out("corrected", c.corrected) = 1 /\ out("inferred", c.inferred) = 1
           /\ out("inferred", c.corrected) = 0 /\ out("corrected", c.inferred) = 0
      ELSE /\ out("corrected", c.corrected) + out("inferred", c.inferred) <= 1
           /\ out("inferred", c.corrected) \in {0, 1} /\ out("corrected", c.inferred) \in {0, 1}
           /\ out("corrected", c.corrected) \in {0, 1} /\ out("inferred", c.inferred) \in {0, 1}
  <2>1. CASE ~PushesOut(list)
    BY <2>1 DEF out, Indicator
  <2>2. CASE PushesOut(list)
    <3>1. PICK o \in Correction : o = Outgoing(list)
      BY <2>2, WindowAssumption DEF PushesOut, Outgoing
    <3>2. o = c <=> o.inferred = c.inferred /\ o.corrected = c.corrected
      BY DEF Correction
    <3> QED
      BY <2>2, <3>1, <3>2 DEF out, Indicator
  <2> QED
    BY <2>1, <2>2
<1> DEFINE d == 15 * ((1 - out("corrected", c.corrected)) + out("inferred", c.corrected)
                      + out("corrected", c.inferred) + (1 - out("inferred", c.inferred)))
<1>7. Margin(m, c, new) = Margin(m, c, list) + d /\ Margin(m, c, list) \in Int
  <2>1. PICK a \in Int, b \in Int, e \in Int, f \in Int :
          /\ a = N(list, "corrected", c.corrected) /\ b = N(list, "inferred", c.corrected)
          /\ e = N(list, "corrected", c.inferred) /\ f = N(list, "inferred", c.inferred)
    BY <1>2
  <2>2. PICK p \in Int, q \in Int, r \in Int, s \in Int :
          /\ p = out("corrected", c.corrected) /\ q = out("inferred", c.corrected)
          /\ r = out("corrected", c.inferred) /\ s = out("inferred", c.inferred)
    BY DEF out, Indicator
  <2>3. PICK x \in Int, y \in Int : x = base[c.corrected] /\ y = base[c.inferred]
    BY <1>1
  <2>4. Margin(m, c, list) = (x + 15 * (a - b)) - (y + 15 * (e - f))
    BY <1>4, <2>1, <2>3
  <2>5. Margin(m, c, new) = (x + 15 * ((a + 1 - p) - (b - q))) - (y + 15 * ((e - r) - (f + 1 - s)))
    BY <1>1, <1>4, <1>5, <2>1, <2>2, <2>3
  <2>6. d = 15 * ((1 - p) + q + r + (1 - s))
    BY <2>2
  <2>7. /\ (x + 15 * (a - b)) - (y + 15 * (e - f)) \in Int
        /\ (x + 15 * ((a + 1 - p) - (b - q))) - (y + 15 * ((e - r) - (f + 1 - s)))
             = (x + 15 * (a - b)) - (y + 15 * (e - f)) + 15 * ((1 - p) + q + r + (1 - s))
    BY ShiftedDifference
  <2> HIDE DEF d
  <2> QED
    BY <2>4, <2>5, <2>6, <2>7
<1>8. IF PushesOut(list) /\ Outgoing(list) = c THEN d = 0 ELSE d > 0 /\ d \in Int
  BY <1>6
<1> HIDE DEF d
<1>9. IF PushesOut(list) /\ Outgoing(list) = c
      THEN Margin(m, c, new) = Margin(m, c, list) ELSE Margin(m, c, new) > Margin(m, c, list)
  BY <1>7, <1>8
<1> QED
  BY <1>9 DEF PushesOut, Outgoing, new

\* The log grows by one correction at a time, and the history is then the whole log.
LEMMA LogGrows ==
    ASSUME [Next]_vars, log' # log
    PROVE  \E c \in Correction : log' = Append(log, c) /\ history' = log'
<1>1. ASSUME NEW t \in Turn,
             BeginStep(t) \/ Retrieve(t) \/ FailTurn(t) \/ Hydrate(t) \/ Surface(t) \/ RespondStep(t)
      PROVE  log' = log
  BY <1>1, Zenon DEF BeginStep, BeginTurn, Retrieve, FailTurn, Hydrate, Surface, RespondStep,
                     Respond,
                     logVars
<1>2. CASE ThreadStep \/ SettleStep \/ DetectionStep \/ WriteHoldingItem \/ Restart \/ UNCHANGED vars
  BY <1>2, Zenon DEF ThreadStep, AddThreadToStack, SettleStep, SettleItem, DetectionStep,
                     StartDetection, EndDetection, RecordContradiction, WriteHoldingItem,
                     detectionUnchanged, Restart, vars, logVars
<1> QED
  BY <1>1, <1>2, CorrectionApplied, Steps

\* A correction moves every message towards the register that the user meant
\* (register_inference.py:255), also when it pushes the oldest out of the window, unless that one
\* said the same: for any window, messages and log.
THEOREM CorrectionsHelp == Spec => CorrectionHelps
<1>1. ASSUME TypeInv, [Next]_vars, log' # log, history = log
      PROVE  LET c == log'[Len(log')]
                 repeats == Len(log) >= Window /\ log[Len(log) - Window + 1] = c
             IN c.inferred = c.corrected \/
                \A m \in scenario.messages :
                  IF repeats THEN Margin(m, c, history') = Margin(m, c, history)
                             ELSE Margin(m, c, history') > Margin(m, c, history)
  <2>1. PICK c \in Correction : log' = Append(log, c) /\ history' = log'
    BY <1>1, LogGrows
  <2>2. log'[Len(log')] = c /\ log \in Seq(Correction)
    BY <1>1, <2>1 DEF TypeInv, TurnTypes
  <2>3. \A m \in scenario.messages : m \in Message
    BY <1>1, Inputs DEF TypeInv, TurnTypes
  <2> QED
    BY <1>1, <2>1, <2>2, <2>3, MarginMoves
<1>2. TypeInv /\ [Next]_vars =>
        [log' # log /\ history = log =>
           LET c == log'[Len(log')]
               repeats == Len(log) >= Window /\ log[Len(log) - Window + 1] = c
           IN c.inferred = c.corrected \/
              \A m \in scenario.messages :
                IF repeats THEN Margin(m, c, history') = Margin(m, c, history)
                           ELSE Margin(m, c, history') > Margin(m, c, history)]_vars
  BY <1>1
<1> QED
  BY <1>2, TypeInduction, PTL DEF Spec, CorrectionHelps
-----------------------------------------------------------------------------
(* What is dropped                                                          *)

\* What is at one of the places is in what is taken out of the list.
LEMMA SublistHas ==
    ASSUME NEW S, NEW list \in Seq(S), NEW places \in SUBSET DOMAIN list, NEW i \in places
    PROVE  \E n \in DOMAIN Sublist(list, places) : Sublist(list, places)[n] = list[i]
<1> DEFINE below(k) == {j \in places : j <= k}
           n == Cardinality(below(i))
           spot == CHOOSE k \in places : Cardinality(below(k)) = n
<1>1. IsFiniteSet(places) /\ places \subseteq Nat
  <2>1. DOMAIN list = 1..Len(list) /\ Len(list) \in Nat
    OBVIOUS
  <2>2. IsFiniteSet(1..Len(list))
    BY <2>1, FS_Interval
  <2> QED
    BY <2>1, <2>2, FS_Subset
<1>2. \A k \in places : IsFiniteSet(below(k)) /\ Cardinality(below(k)) \in Nat
  BY <1>1, FS_Subset, FS_CardinalityType
<1>3. n \in 1..Cardinality(places)
  <2>1. below(i) \in SUBSET places /\ i \in below(i)
    BY <1>1
  <2>2. n \in Nat /\ IsFiniteSet(below(i))
    BY <1>2
  <2> HIDE DEF below
  <2>3. n <= Cardinality(places) /\ Cardinality(places) \in Nat
    BY <1>1, <2>1, FS_Subset, FS_CardinalityType
  <2>4. n # 0
    BY <2>1, <2>2, FS_EmptySet
  <2> HIDE DEF n
  <2> QED
    BY <2>2, <2>3, <2>4
<1>4. ASSUME NEW k \in places, Cardinality(below(k)) = n PROVE k = i
  <2>1. CASE k <= i
    <3>1. below(k) \subseteq below(i)
      BY <1>1, <2>1
    <3>2. below(k) = below(i)
      BY <1>2, <1>4, <3>1, FS_Subset
    <3> QED
      BY <1>1, <2>1, <3>2
  <2>2. CASE i <= k
    <3>1. below(i) \subseteq below(k)
      BY <1>1, <2>2
    <3>2. below(k) = below(i)
      BY <1>2, <1>4, <3>1, FS_Subset
    <3> QED
      BY <1>1, <2>2, <3>2
  <2> QED
    BY <1>1, <2>1, <2>2
<1>5. spot = i
  BY <1>4
<1> DEFINE place(m) == CHOOSE k \in places : Cardinality(below(k)) = m
<1>6. Sublist(list, places) = [m \in 1..Cardinality(places) |-> list[place(m)]]
  BY Zenon DEF Sublist
<1>7. place(n) = i
  BY <1>5
<1> HIDE DEF n, place
<1> QED
  BY <1>3, <1>6, <1>7

\* assign_states changes no more than the states.
LEMMA AssignedKeeps ==
    ASSUME NEW s \in Seq(Entry(Thread))
    PROVE  /\ DOMAIN AssignStates(s) = DOMAIN s
           /\ \A i \in DOMAIN s : /\ AssignStates(s)[i].thread = s[i].thread
                                  /\ AssignStates(s)[i].depth = s[i].depth
                                  /\ AssignStates(s)[i].touched = s[i].touched
<1> DEFINE State(i) == IF i = Leader(s) THEN "foreground" ELSE "peripheral"
           a == [i \in DOMAIN s |-> [s[i] EXCEPT !.state = State(i)]]
<1>1. ASSUME NEW i \in DOMAIN s
      PROVE  a[i].thread = s[i].thread /\ a[i].depth = s[i].depth /\ a[i].touched = s[i].touched
  <2>1. PICK e \in Entry(Thread) : e = s[i]
    OBVIOUS
  <2>2. PICK b : b = State(i)
    OBVIOUS
  <2>3. PICK f : f = [e EXCEPT !.state = b]
    OBVIOUS
  <2>4. f.thread = e.thread /\ f.depth = e.depth /\ f.touched = e.touched
    BY <2>3 DEF Entry
  <2>5. a[i] = f
    BY <2>1, <2>2, <2>3, Zenon
  <2> QED
    BY <2>1, <2>4, <2>5
<1>2. AssignStates(s) = a
  BY Zenon DEF AssignStates
<1> HIDE DEF State
<1>3. DOMAIN a = DOMAIN s
  OBVIOUS
<1> HIDE DEF a
<1> QED
  BY <1>1, <1>2, <1>3

\* update_stack: what is on the stack was there, updated, with a salience that is high enough, and
\* whatever has one stays.
NewEntryOf(e, turn, referenced, moved) ==
    UpdateSalience(e, turn, e.thread \in referenced, e.thread \in moved)

LEMMA UpdatedEntries ==
    ASSUME NEW s \in Seq(Entry(Thread)), Len(s) <= 2, NEW turn \in Nat, NEW referenced, NEW moved
    PROVE  /\ \A n \in DOMAIN UpdateStack(s, turn, referenced, moved) : \E i \in DOMAIN s :
                LET e == UpdateStack(s, turn, referenced, moved)[n]
                    new == NewEntryOf(s[i], turn, referenced, moved)
                IN e.depth = new.depth /\ e.touched = new.touched
                   /\ new.salience >= Salience.dropThreshold
           /\ \A i \in DOMAIN s :
                NewEntryOf(s[i], turn, referenced, moved).salience >= Salience.dropThreshold
                => s[i].thread \in ThreadsOf(UpdateStack(s, turn, referenced, moved))
<1> DEFINE new(i) == NewEntryOf(s[i], turn, referenced, moved)
           updated == [i \in DOMAIN s |-> new(i)]
           places == {i \in DOMAIN updated : updated[i].salience >= Salience.dropThreshold}
           kept == Sublist(updated, places)
<1>1. ASSUME NEW i \in DOMAIN s PROVE new(i) \in Entry(Thread) /\ new(i).thread = s[i].thread
  <2> DEFINE r == s[i].thread \in referenced
             m == s[i].thread \in moved
  <2>1. s[i] \in Entry(Thread) /\ r \in BOOLEAN /\ m \in BOOLEAN
    OBVIOUS
  <2>2. new(i) = UpdateSalience(s[i], turn, r, m)
    BY Zenon DEF NewEntryOf
  <2> HIDE DEF new, r, m
  <2>3. PICK e \in Entry(Thread) : e = s[i]
    BY <2>1
  <2>4. PICK u : u = UpdateSalience(e, turn, r, m)
    OBVIOUS
  <2>5. u \in Entry(Thread)
    BY <2>1, <2>4, UpdatedEntry, Zenon
  <2>6. u.thread = e.thread
    BY <2>1, <2>4, UpdatedEntry, Zenon
  <2> QED
    BY <2>2, <2>3, <2>4, <2>5, <2>6
<1>2. UpdateStack(s, turn, referenced, moved)
        = AssignStates(IF Len(kept) > 2 THEN TopTwo(kept) ELSE kept)
  BY Zenon DEF UpdateStack, NewEntryOf
<1> HIDE DEF new
<1>3. /\ updated \in Seq(Entry(Thread)) /\ Len(updated) = Len(s) /\ DOMAIN updated = DOMAIN s
      /\ \A i \in DOMAIN s : updated[i] = new(i)
  <2>1. DOMAIN s = 1..Len(s) /\ Len(s) \in Nat
    OBVIOUS
  <2> QED
    BY <1>1, <2>1
<1>4. /\ places \subseteq DOMAIN updated
      /\ \A i \in DOMAIN s : i \in places <=> new(i).salience >= Salience.dropThreshold
  BY <1>3
<1> HIDE DEF updated, places
<1>5. /\ kept \in Seq(Entry(Thread)) /\ Len(kept) <= Len(updated)
      /\ \A n \in DOMAIN kept : \E i \in places : kept[n] = updated[i]
      /\ \A i \in places : \E n \in DOMAIN kept : kept[n] = updated[i]
  BY <1>3, <1>4, SublistType, SublistHas
<1> HIDE DEF kept
<1>6. PICK result : result = UpdateStack(s, turn, referenced, moved)
  OBVIOUS
<1>7. /\ DOMAIN result = DOMAIN kept
      /\ \A n \in DOMAIN kept : /\ result[n].thread = kept[n].thread
                                /\ result[n].depth = kept[n].depth
                                /\ result[n].touched = kept[n].touched
  <2>1. result = AssignStates(kept)
    BY <1>2, <1>3, <1>5, <1>6
  <2> QED
    BY <1>5, <2>1, AssignedKeeps
<1>8. ASSUME NEW n \in DOMAIN result
      PROVE  \E i \in DOMAIN s : /\ result[n].depth = new(i).depth
                                  /\ result[n].touched = new(i).touched
                                 /\ new(i).salience >= Salience.dropThreshold
  <2>1. PICK i \in places : kept[n] = updated[i]
    BY <1>5, <1>7
  <2> QED
    BY <1>3, <1>4, <1>7, <2>1
<1>9. ASSUME NEW i \in DOMAIN s, new(i).salience >= Salience.dropThreshold
      PROVE  s[i].thread \in ThreadsOf(result)
  <2>1. PICK n \in DOMAIN kept : kept[n] = updated[i]
    BY <1>4, <1>5, <1>9
  <2>2. result[n].thread = s[i].thread /\ n \in DOMAIN result
    BY <1>1, <1>3, <1>7, <2>1
  <2> QED
    BY <2>2 DEF ThreadsOf
<1> QED
  BY <1>6, <1>8, <1>9 DEF new

\* More than the whole of a number is more than the number, rounded or not.
LEMMA TimesGrows ==
    ASSUME NEW a \in Nat, NEW b \in Nat, b >= One
    PROVE  Times(a, b) >= a
<1>1. a * 1000 <= a * b /\ a * b \in Nat /\ a * 1000 \in Nat
  BY DEF One
<1>2. \A x \in Nat : a * 1000 <= x => a <= x \div 1000
  OBVIOUS
<1> QED
  BY <1>1, <1>2 DEF Times, One

\* The rounded product is monotonic.
LEMMA TimesOrdered ==
    ASSUME NEW a \in Nat, NEW b \in Nat, NEW c \in Nat, b <= c
    PROVE  Times(a, b) <= Times(a, c)
<1>1. a * b <= a * c /\ a * b \in Nat /\ a * c \in Nat
  OBVIOUS
<1>2. \A x, y \in Nat : x <= y => x \div 1000 <= y \div 1000
  OBVIOUS
<1> QED
  BY <1>1, <1>2 DEF Times, One

\* And what is divided by a fraction grows.
LEMMA DivisionGrows ==
    ASSUME NEW p \in 1..One
    PROVE  (One * One) \div p \in Nat /\ (One * One) \div p >= One
<1>1. One * One \in Nat /\ p \in Nat /\ p > 0 /\ One \in Nat /\ One * p <= One * One
  BY DEF One
<1>2. ASSUME NEW c \in Nat, NEW o \in Nat, o * p <= c PROVE c \div p \in Nat /\ o <= c \div p
  BY <1>1, <1>2
<1> HIDE DEF One
<1> QED
  BY <1>1, <1>2

\* The recency never falls below its floor, and is whole for a thread just touched, or touched by a
\* later turn.
LEMMA RecencyBounds ==
    ASSUME NEW floor \in Fraction, NEW turns \in Int
    PROVE  Recency(floor, turns) >= floor /\ (turns <= 0 => Recency(floor, turns) >= One)
<1> DEFINE decayed == IF turns >= 0 THEN Power[turns] ELSE (One * One) \div Power[-turns]
<1>1. decayed \in Nat /\ (turns <= 0 => decayed >= One)
  <2>1. CASE turns >= 0
    <3>1. turns \in Nat
      BY <2>1
    <3>2. Power[turns] \in 1..One /\ Power[0] = One
      BY <3>1, PowerType
    <3> QED
      BY <2>1, <3>2 DEF One
  <2>2. CASE turns < 0
    <3>1. PICK p \in 1..One : p = Power[-turns]
      BY <2>2, PowerType, -turns \in Nat
    <3>2. (One * One) \div p \in Nat /\ (One * One) \div p >= One
      BY DivisionGrows
    <3> QED
      BY <2>2, <3>1, <3>2
  <2> QED
    BY <2>1, <2>2
<1> HIDE DEF decayed
<1>2. One - floor \in Nat /\ floor \in Nat
  BY DEF One, Fraction
<1>3. /\ Times(One - floor, decayed) \in Nat
      /\ turns <= 0 => Times(One - floor, decayed) >= One - floor
  BY <1>1, <1>2, TimesType, TimesGrows
<1>4. Recency(floor, turns) = floor + Times(One - floor, decayed)
  BY DEF Recency, decayed
<1> QED
  BY <1>2, <1>3, <1>4 DEF One

\* A thread whose recency is whole is in view.
LEMMA TouchedIsInView ==
    ASSUME ReferenceSaves, NEW recency \in Nat, recency >= One, NEW depth \in Nat
    PROVE  Blend(recency, depth) >= Salience.dropThreshold
<1>1. Salience.recencyWeight \in Nat /\ Salience.depthWeight \in Nat
  BY Weights DEF Fraction
<1>2. Times(Salience.recencyWeight, recency) >= Salience.recencyWeight
      /\ Times(Salience.recencyWeight, recency) \in Nat /\ Times(Salience.depthWeight, depth) \in Nat
  BY <1>1, TimesGrows, TimesType
<1>3. Salience.recencyWeight >= Salience.dropThreshold
  BY Zenon DEF ReferenceSaves
<1>4. Salience.dropThreshold \in Nat
  BY Weights DEF Fraction
<1> QED
  BY <1>1, <1>2, <1>3, <1>4 DEF Blend

\* A thread in view when n turns have passed is in view after one more if it is referenced.
LEMMA Comeback ==
    ASSUME ReferenceSaves, NEW n \in Int, NEW depth \in Fraction,
           NEW boost \in {Salience.depthBoostReference, Salience.depthBoostStance},
           n > 0 => Blend(Recency(Salience.recencyFloor, n), depth) >= Salience.dropThreshold
    PROVE  Blend(Recency(Salience.recencyFloor, n + 1), Cap(depth + boost)) >= Salience.dropThreshold
<1> DEFINE floor == Salience.recencyFloor
<1>1. floor \in Fraction /\ depth \in Nat /\ depth \in 0..One
  BY Weights DEF Fraction
<1>2. Cap(depth + boost) \in Nat
  BY <1>1, Weights DEF Cap, Fraction, One
<1>3. CASE n < 0
  <2>1. n + 1 \in Int /\ n + 1 <= 0
    BY <1>3
  <2>2. Recency(floor, n + 1) \in Nat /\ Recency(floor, n + 1) >= One
    BY <1>1, <2>1, RecencyType, RecencyBounds
  <2> QED
    BY <1>2, <2>2, TouchedIsInView
<1>4. CASE n >= 0
  <2>1. n \in Nat /\ n + 1 \in Nat
    BY <1>4
  <2>2. PICK p \in 1..One : p = Power[n] /\ Power[n + 1] = NextPower(p)
    BY <2>1, PowerType
  <2>3. /\ Recency(floor, n) = floor + Times(One - floor, p)
        /\ Recency(floor, n + 1) = floor + Times(One - floor, NextPower(p))
    BY <2>1, <2>2 DEF Recency
  <2>4. Blend(Recency(floor, n), depth) >= Salience.dropThreshold
    <3>1. CASE n = 0
      <4>1. n \in Int /\ n <= 0
        BY <3>1
      <4>2. Recency(floor, n) \in Nat /\ Recency(floor, n) >= One
        BY <1>1, <4>1, RecencyType, RecencyBounds
      <4> QED
        BY <1>1, <4>2, TouchedIsInView
    <3> QED
      BY <1>4, <3>1
  <2>5. InView(p, depth)
    BY <2>3, <2>4 DEF InView
  <2>6. InView(NextPower(p), Cap(depth + boost))
    BY <1>1, <2>5 DEF ReferenceSaves
  <2> QED
    BY <2>3, <2>6 DEF InView
<1> QED
  BY <1>3, <1>4

\* What is known of the stack before an update: the last update and every turn under way have a
\* number that was given out, and what was last touched before the last update was in view at it.
StaysInv ==
    /\ update.turn <= turnCount
    /\ \A t \in Turn : local[t].number <= turnCount
    /\ \A i \in DOMAIN stack :
         stack[i].touched < update.turn =>
           Blend(Recency(Salience.recencyFloor, update.turn - stack[i].touched), stack[i].depth)
             >= Salience.dropThreshold

\* The steps that leave the stack, the floating threads and the numbers alone.
Quiet ==
    /\ UNCHANGED <<turnCount, stack, floating, update>>
    /\ \A t \in Turn : local'[t].number \in {0, local[t].number}

\* Which steps change the stack, and which only the numbers of the turns.
LEMMA StackSteps ==
    ASSUME TypeInv, [Next]_vars
    PROVE  \/ Quiet \/ Restart \/ ThreadStep
           \/ \E t \in Turn : BeginStep(t) \/ RespondStep(t)
<1>1. local \in [Turn -> Locals] /\ NoLocals.number = 0
  BY DEF TypeInv, TurnTypes, NoLocals
<1>2. ASSUME NEW t \in Turn,
             Retrieve(t) \/ FailTurn(t) \/ Hydrate(t) \/ Surface(t) \/ FinishStep(t)
      PROVE  Quiet
  <2>1. UNCHANGED stackVars /\ (local' = local \/ local' = [local EXCEPT ![t] = NoLocals])
    BY <1>2, Zenon DEF Retrieve, FailTurn, Hydrate, Surface, FinishStep, FinishTurn, Leave
  <2> QED
    BY <1>1, <2>1 DEF Quiet, stackVars
<1>3. CASE SettleStep \/ DetectionStep \/ WriteHoldingItem \/ UNCHANGED vars
  <2>1. UNCHANGED <<loopVars, stackVars>>
    BY <1>3, Zenon DEF SettleStep, SettleItem, DetectionStep, StartDetection, EndDetection,
                       RecordContradiction, WriteHoldingItem, detectionUnchanged, vars
  <2> QED
    BY <2>1 DEF Quiet, loopVars, stackVars
<1> QED
  BY <1>2, <1>3, Steps

\* What a reference leaves of an entry, and the lack of one.
LEMMA EntryUpdate ==
    ASSUME NEW s \in Seq(Entry(Thread)), NEW i \in DOMAIN s, NEW turn \in Nat, NEW referenced,
           NEW moved
    PROVE  LET new == NewEntryOf(s[i], turn, referenced, moved)
               age == turn - s[i].touched
               blend(depth) == Blend(Recency(Salience.recencyFloor, age), depth)
           IN /\ age \in Int /\ s[i].touched \in Nat /\ s[i].depth \in Fraction
              /\ new.depth \in Fraction /\ new.touched \in Nat
              /\ new.salience = Cap(blend(new.depth)) /\ blend(new.depth) \in Nat
              /\ s[i].thread \in referenced => new.touched = turn
              /\ s[i].thread \notin referenced => new.touched = s[i].touched
              /\ s[i].thread \in referenced =>
                   \E boost \in {Salience.depthBoostReference, Salience.depthBoostStance} :
                      new.depth = Cap(s[i].depth + boost)
<1> DEFINE r == s[i].thread \in referenced
           m == s[i].thread \in moved
<1>1. PICK e \in Entry(Thread) : e = s[i]
  OBVIOUS
<1>2. r \in BOOLEAN /\ m \in BOOLEAN
  OBVIOUS
<1>3. NewEntryOf(s[i], turn, referenced, moved) = UpdateSalience(e, turn, r, m)
  BY <1>1, Zenon DEF NewEntryOf
<1>4. r => \E boost \in {Salience.depthBoostReference, Salience.depthBoostStance} :
             NewDepth(e, r, m) = Cap(e.depth + boost)
  BY Zenon DEF NewDepth
<1>5. r <=> s[i].thread \in referenced
  OBVIOUS
<1> HIDE DEF r, m
<1>6. NewDepth(e, r, m) \in Fraction
  BY <1>2, DepthType
<1>7. PICK u : u = UpdateSalience(e, turn, r, m)
  OBVIOUS
<1>8. u.depth = NewDepth(e, r, m)
  BY <1>2, <1>7, UpdatedEntry, Zenon
<1>9. r => u.touched = turn
  BY <1>2, <1>7, UpdatedEntry, Zenon
<1>10. ~r => u.touched = e.touched
  BY <1>2, <1>7, UpdatedEntry, Zenon
<1>11. u.salience
         = Cap(Blend(Recency(Salience.recencyFloor, turn - e.touched), NewDepth(e, r, m)))
  BY <1>2, <1>7, UpdatedEntry, Zenon
<1>12. e.touched \in Nat /\ e.depth \in Fraction /\ turn - e.touched \in Int
  BY Weights DEF Entry
<1>13. Blend(Recency(Salience.recencyFloor, turn - e.touched), u.depth) \in Nat
  <2>1. Recency(Salience.recencyFloor, turn - e.touched) \in Nat /\ u.depth \in Nat
    BY <1>6, <1>8, <1>12, Weights, RecencyType DEF Fraction
  <2> QED
    BY <2>1, BlendType
<1>14. u.touched \in Nat /\ u.depth \in Fraction
  BY <1>6, <1>8, <1>9, <1>10, <1>12
<1> QED
  BY <1>1, <1>3, <1>4, <1>5, <1>7, <1>8, <1>9, <1>10, <1>11, <1>12, <1>13, <1>14

\* At the beginning, and after a restart, the stack is empty.
LEMMA EmptyStays ==
    ASSUME stack = <<>>, update = NoUpdate, turnCount = 0, \A t \in Turn : local[t].number = 0
    PROVE  StaysInv
BY DEF StaysInv, NoUpdate

\* An update drops what is out of view at its turn.
LEMMA RespondStays ==
    ASSUME TypeInv, StaysInv, NEW t \in Turn, RespondStep(t)
    PROVE  StaysInv'
<1>1. PICK primary \in scenario.primary, secondary \in scenario.secondary,
           moved \in SUBSET scenario.moving, score \in scenario.scores :
        Respond(t, primary, secondary, moved, score)
  BY DEF RespondStep
<1> DEFINE referenced == Referenced(primary, secondary)
           selected == SelectCandidate(Unsurfaced, local[t].register, score)
<1>2. /\ stack' = UpdateStack(stack, local[t].number, referenced, moved)
      /\ update' = [turn |-> local[t].number, referenced |-> referenced \cap ThreadsOf(stack)]
      /\ local' = [local EXCEPT ![t].candidate = selected]
      /\ turnCount' = turnCount
  BY <1>1, Zenon DEF Respond
<1> HIDE DEF selected, referenced
<1>3. PICK number \in Nat : number = local[t].number /\ number <= turnCount
  BY DEF TypeInv, TurnTypes, Locals, StaysInv
<1>4. \A u \in Turn : local'[u].number = local[u].number
  BY <1>2 DEF TypeInv, TurnTypes, Locals
<1>5. stack \in Seq(Entry(Thread)) /\ Len(stack) <= 2
  BY DEF TypeInv, TurnTypes, Ranked
<1>6. ASSUME NEW n \in DOMAIN stack', stack'[n].touched < number
      PROVE  Blend(Recency(Salience.recencyFloor, number - stack'[n].touched), stack'[n].depth)
               >= Salience.dropThreshold
  <2> DEFINE new(i) == NewEntryOf(stack[i], number, referenced, moved)
  <2>1. PICK i \in DOMAIN stack : /\ stack'[n].depth = new(i).depth
                                  /\ stack'[n].touched = new(i).touched
                                  /\ new(i).salience >= Salience.dropThreshold
    BY <1>2, <1>3, <1>5, UpdatedEntries
  <2>2. PICK u : u = NewEntryOf(stack[i], number, referenced, moved)
    OBVIOUS
  <2>3. u = new(i)
    BY <2>2
  <2> HIDE DEF new
  <2>4. /\ stack[i].touched \in Nat /\ u.touched \in Nat
        /\ u.salience = Cap(Blend(Recency(Salience.recencyFloor, number - stack[i].touched),
                                  u.depth))
        /\ Blend(Recency(Salience.recencyFloor, number - stack[i].touched), u.depth) \in Nat
    BY <1>5, <2>2, EntryUpdate
  <2>5. /\ stack[i].thread \in referenced => u.touched = number
        /\ stack[i].thread \notin referenced => u.touched = stack[i].touched
    BY <1>5, <2>2, EntryUpdate
  <2>6. u.touched = stack[i].touched
    BY <1>6, <2>1, <2>3, <2>5
  <2>7. \A x \in Nat : Cap(x) >= Salience.dropThreshold => x >= Salience.dropThreshold
    BY Weights DEF Cap, Fraction, One
  <2> QED
    BY <2>1, <2>3, <2>4, <2>6, <2>7
<1> QED
  BY <1>2, <1>3, <1>4, <1>6 DEF StaysInv

\* A new thread is touched by the turn that is being counted.
LEMMA ThreadStays ==
    ASSUME TypeInv, StaysInv, ThreadStep
    PROVE  StaysInv'
<1>1. PICK thread \in Thread : AddThreadToStack(thread)
  BY Inputs DEF ThreadStep, TypeInv, TurnTypes
<1>2. UNCHANGED <<local, turnCount, update>>
  BY <1>1 DEF AddThreadToStack, loopVars
<1>3. CASE UNCHANGED stack
  BY <1>2, <1>3 DEF StaysInv
<1>4. CASE stack' = AddThread(stack, thread, turnCount)
  <2> DEFINE e == NewEntry(thread, turnCount)
             rest == IF Len(stack) >= 2 THEN <<stack[Leader(stack)]>> ELSE stack
  <2>1. stack \in Seq(Entry(Thread)) /\ turnCount \in Nat /\ Len(stack) <= 2
    BY DEF TypeInv, TurnTypes, Ranked
  <2>2. /\ rest \in Seq(Entry(Thread))
        /\ \A n \in DOMAIN rest : \E i \in DOMAIN stack : rest[n] = stack[i]
    <3>1. CASE Len(stack) >= 2
      <4>1. Leader(stack) \in DOMAIN stack
        BY <2>1, <3>1, LeaderLeads
      <4> QED
        BY <2>1, <3>1, <4>1
    <3>2. CASE ~(Len(stack) >= 2)
      BY <2>1, <3>2
    <3> QED
      BY <3>1, <3>2
  <2>3. e \in Entry(Thread) /\ e.touched = turnCount
    BY <2>1, NewEntryType DEF NewEntry
  <2>4. stack' = AssignStates(Append(rest, e))
    BY <1>4, Zenon DEF AddThread
  <2> HIDE DEF rest, e
  <2>5. /\ Append(rest, e) \in Seq(Entry(Thread))
        /\ \A n \in DOMAIN Append(rest, e) :
             Append(rest, e)[n] = e \/ \E i \in DOMAIN stack : Append(rest, e)[n] = stack[i]
    BY <2>2, <2>3
  <2> DEFINE longer == Append(rest, e)
  <2> HIDE DEF longer
  <2>6. /\ DOMAIN stack' = DOMAIN longer
        /\ \A n \in DOMAIN longer : /\ stack'[n].touched = longer[n].touched
                                    /\ stack'[n].depth = longer[n].depth
    BY <2>4, <2>5, AssignedKeeps DEF longer
  <2>7. ASSUME NEW n \in DOMAIN stack', stack'[n].touched < update.turn
        PROVE  Blend(Recency(Salience.recencyFloor, update.turn - stack'[n].touched),
                     stack'[n].depth) >= Salience.dropThreshold
    <3>1. longer[n] # e
      <4>1. update.turn <= turnCount /\ update.turn \in Nat
        BY DEF StaysInv, TypeInv, TurnTypes
      <4> QED
        BY <2>1, <2>3, <2>6, <2>7, <4>1
    <3>2. PICK i \in DOMAIN stack : longer[n] = stack[i]
      BY <2>5, <2>6, <3>1 DEF longer
    <3> QED
      BY <2>6, <2>7, <3>2 DEF StaysInv
  <2> QED
    BY <1>2, <2>7 DEF StaysInv
<1> QED
  BY <1>1, <1>3, <1>4 DEF AddThreadToStack

\* Every step keeps the invariant.
LEMMA StaysNext == TypeInv /\ StaysInv /\ [Next]_vars => StaysInv'
<1> SUFFICES ASSUME TypeInv, StaysInv, [Next]_vars PROVE StaysInv'
  OBVIOUS
<1>1. CASE Quiet
  <2>1. turnCount \in Nat /\ \A t \in Turn : local[t].number \in Nat
    BY DEF TypeInv, TurnTypes, Locals
  <2>2. \A t \in Turn : local'[t].number <= turnCount'
    BY <1>1, <2>1 DEF Quiet, StaysInv
  <2> QED
    BY <1>1, <2>2 DEF Quiet, StaysInv
<1>2. CASE Restart
  <2>1. /\ stack' = <<>> /\ update' = NoUpdate /\ turnCount' = 0
        /\ local' = [t \in Turn |-> NoLocals]
    BY <1>2 DEF Restart
  <2> QED
    BY <2>1 DEF StaysInv, NoUpdate, NoLocals
<1>3. ASSUME NEW t \in Turn, BeginStep(t) PROVE StaysInv'
  <2>1. PICK m \in scenario.messages : BeginTurn(t, m)
    BY <1>3 DEF BeginStep
  <2>2. turnCount' = turnCount + 1 /\ UNCHANGED <<stack, update>>
    BY <2>1 DEF BeginTurn
  <2>3. PICK known, register :
          local' = [local EXCEPT ![t] =
            [NoLocals EXCEPT !.number = turnCount + 1, !.known = known, !.register = register]]
    BY <2>1, Zenon DEF BeginTurn
  <2>4. PICK a : a = [NoLocals EXCEPT !.number = turnCount + 1]
    OBVIOUS
  <2>5. PICK b : b = [a EXCEPT !.known = known]
    OBVIOUS
  <2>6. PICK c : c = [b EXCEPT !.register = register]
    OBVIOUS
  <2>7. c.number = turnCount + 1
    BY <2>4, <2>5, <2>6 DEF NoLocals
  <2>8. local' = [local EXCEPT ![t] = c]
    BY <2>3, <2>4, <2>5, <2>6, Zenon
  <2>9. turnCount \in Nat /\ local \in [Turn -> Locals] /\ update.turn \in Nat
        /\ \A u \in Turn : local[u].number \in Nat
    BY DEF TypeInv, TurnTypes, Locals
  <2>10. \A u \in Turn : local'[u].number <= turnCount'
    BY <2>2, <2>7, <2>8, <2>9 DEF StaysInv
  <2>11. update'.turn <= turnCount'
    BY <2>2, <2>9 DEF StaysInv
  <2> QED
    BY <2>2, <2>10, <2>11 DEF StaysInv
<1> QED
  BY <1>1, <1>2, <1>3, RespondStays, ThreadStays, StackSteps

\* A reference keeps a thread on the stack (thread_stack.py:103-150), unless turns are missing
\* between two updates: for any turns in any order, any number of threads, and any parameters for
\* which it does so for a single thread.
THEOREM ReferencesSave == ReferenceSaves => (Spec => ReferencedIsKept)
<1> SUFFICES ASSUME ReferenceSaves PROVE Spec => ReferencedIsKept
  OBVIOUS
<1>1. Init => StaysInv
  BY EmptyStays DEF Init, NoLocals
<1>2. ASSUME TypeInv, StaysInv, [Next]_vars, update'.turn = update.turn + 1,
             NEW i \in DOMAIN stack, stack[i].thread \in update'.referenced
      PROVE  stack[i].thread \in ThreadsOf(stack')
  <2>1. update.turn \in Nat
    BY <1>2 DEF TypeInv, TurnTypes
  <2>2. PICK t \in Turn : RespondStep(t)
    <3>1. update'.turn # update.turn /\ update'.turn # 0
      BY <1>2, <2>1
    <3>2. ~Quiet /\ ~ThreadStep /\ ~Restart
      BY <3>1 DEF Quiet, ThreadStep, AddThreadToStack, Restart, NoUpdate
    <3>3. \A u \in Turn : ~BeginStep(u)
      BY <3>1 DEF BeginStep, BeginTurn
    <3> QED
      BY <1>2, <3>2, <3>3, StackSteps
  <2>3. PICK primary \in scenario.primary, secondary \in scenario.secondary,
             moved \in SUBSET scenario.moving, score \in scenario.scores :
          Respond(t, primary, secondary, moved, score)
    BY <2>2 DEF RespondStep
  <2> DEFINE referenced == Referenced(primary, secondary)
  <2>4. /\ stack' = UpdateStack(stack, local[t].number, referenced, moved)
        /\ update' = [turn |-> local[t].number, referenced |-> referenced \cap ThreadsOf(stack)]
    BY <2>3, Zenon DEF Respond
  <2> HIDE DEF referenced
  <2>5. stack \in Seq(Entry(Thread)) /\ Len(stack) <= 2
    BY <1>2 DEF TypeInv, TurnTypes, Ranked
  <2>6. PICK number \in Nat : number = update.turn + 1 /\ number = local[t].number
    BY <1>2, <2>1, <2>4
  <2> DEFINE new == NewEntryOf(stack[i], number, referenced, moved)
             n == update.turn - stack[i].touched
  <2>7. stack[i].thread \in referenced
    BY <1>2, <2>4
  <2>8. PICK boost \in {Salience.depthBoostReference, Salience.depthBoostStance} :
          /\ stack[i].touched \in Nat /\ stack[i].depth \in Fraction
          /\ new.depth = Cap(stack[i].depth + boost)
          /\ new.salience = Cap(Blend(Recency(Salience.recencyFloor, number - stack[i].touched),
                                      new.depth))
          /\ Blend(Recency(Salience.recencyFloor, number - stack[i].touched), new.depth) \in Nat
    BY <2>5, <2>7, EntryUpdate
  <2> HIDE DEF new
  <2>9. n \in Int /\ number - stack[i].touched = n + 1
    BY <2>1, <2>6, <2>8
  <2>10. n > 0 => Blend(Recency(Salience.recencyFloor, n), stack[i].depth) >= Salience.dropThreshold
    <3>1. n > 0 => stack[i].touched < update.turn
      BY <2>1, <2>8
    <3> QED
      BY <1>2, <3>1 DEF StaysInv
  <2> HIDE DEF n
  <2>11. Blend(Recency(Salience.recencyFloor, n + 1), new.depth) >= Salience.dropThreshold
    BY <2>8, <2>9, <2>10, Comeback
  <2>12. \A x \in Nat : x >= Salience.dropThreshold => Cap(x) >= Salience.dropThreshold
    BY Weights DEF Cap, Fraction, One
  <2>13. new.salience >= Salience.dropThreshold
    BY <2>8, <2>9, <2>11, <2>12
  <2> QED
    BY <2>4, <2>5, <2>6, <2>13, UpdatedEntries DEF new
<1>3. TypeInv /\ StaysInv /\ [Next]_vars =>
        [update'.turn = update.turn + 1 =>
           \A i \in DOMAIN stack : stack[i].thread \in update'.referenced =>
                                   stack[i].thread \in ThreadsOf(stack')]_vars
  BY <1>2
<1> QED
  BY <1>1, <1>3, StaysNext, TypeInduction, PTL DEF Spec, ReferencedIsKept

\* A thread that is afloat stays so until the limit of turns, if its recency alone is enough.
LEMMA UpdateKeepsFloating ==
    ASSUME NEW s \in Seq(Entry(Thread)), NEW turn \in Nat, NEW i \in DOMAIN s, FloorSaves,
           turn - s[i].touched <= Salience.floatingMaxTurnsUnresolved
    PROVE  \E n \in DOMAIN UpdateFloating(s, turn) :
              UpdateFloating(s, turn)[n].thread = s[i].thread
<1> DEFINE depth(e) == Times(e.depth, Salience.floatingDepthDecay)
           salience(e) == Blend(Recency(Salience.floatingRecencyFloor, turn - e.touched), depth(e))
           new(e) == [e EXCEPT !.depth = depth(e), !.salience = salience(e)]
           decayed == [k \in DOMAIN s |-> new(s[k])]
           places == {k \in DOMAIN decayed :
                        /\ WithinLimit(decayed[k], turn)
                        /\ decayed[k].salience >= Salience.floatingDropThreshold}
<1>1. ASSUME NEW e \in Entry(Thread)
      PROVE  /\ new(e) \in Entry(Thread)
             /\ new(e).touched = e.touched /\ new(e).thread = e.thread
             /\ new(e).salience >= Salience.floatingDropThreshold
  <2>1. PICK d \in Fraction : d = depth(e)
    <3>1. e.depth \in Fraction
      BY Weights DEF Entry
    <3>2. e.depth \in Nat /\ Salience.floatingDepthDecay \in Nat
      BY <3>1, Weights DEF Fraction
    <3> QED
      BY <3>1, <3>2, Weights, TimesType
  <2>2. PICK r \in Nat : /\ r = Recency(Salience.floatingRecencyFloor, turn - e.touched)
                        /\ r >= Salience.floatingRecencyFloor
    <3>1. turn - e.touched \in Int
      BY DEF Entry
    <3> QED
      BY <3>1, Weights, RecencyType, RecencyBounds
  <2>3. PICK b \in Nat : b = salience(e) /\ b >= Salience.floatingDropThreshold
    <3>1. /\ Times(Salience.recencyWeight, r) \in Nat
          /\ Times(Salience.recencyWeight, Salience.floatingRecencyFloor) \in Nat
          /\ Times(Salience.recencyWeight, r)
               >= Times(Salience.recencyWeight, Salience.floatingRecencyFloor)
      BY <2>2, Weights, TimesType, TimesOrdered DEF Fraction
    <3>2. Times(Salience.depthWeight, d) \in Nat
      BY <2>1, Weights, TimesType DEF Fraction
    <3>3. salience(e) = Times(Salience.recencyWeight, r) + Times(Salience.depthWeight, d)
      BY <2>1, <2>2 DEF Blend
    <3>4. Salience.floatingDropThreshold \in Nat
      BY Weights DEF Fraction
    <3> HIDE DEF salience
    <3> QED
      BY <3>1, <3>2, <3>3, <3>4 DEF FloorSaves
  <2>4. PICK f : f = [e EXCEPT !.depth = d]
    OBVIOUS
  <2>5. PICK g : g = [f EXCEPT !.salience = b]
    OBVIOUS
  <2>6. f \in Entry(Thread) /\ f.touched = e.touched /\ f.thread = e.thread
    BY <2>4, Weights DEF Entry
  <2>7. g \in Entry(Thread) /\ g.touched = e.touched /\ g.thread = e.thread /\ g.salience = b
    BY <2>5, <2>6 DEF Entry
  <2>8. new(e) = g
    BY <2>1, <2>3, <2>4, <2>5, Zenon
  <2> QED
    BY <2>3, <2>7, <2>8
<1>2. UpdateFloating(s, turn) = Sublist(decayed, places)
  BY Zenon DEF UpdateFloating
<1> HIDE DEF new
<1>3. decayed \in Seq(Entry(Thread))
  <2>1. DOMAIN s = 1..Len(s) /\ Len(s) \in Nat
    OBVIOUS
  <2> QED
    BY <1>1, <2>1
<1>4. /\ i \in DOMAIN decayed /\ decayed[i].touched = s[i].touched
      /\ decayed[i].thread = s[i].thread
      /\ decayed[i].salience >= Salience.floatingDropThreshold
  BY <1>1
<1>5. i \in places
  BY <1>4 DEF WithinLimit
<1>6. places \in SUBSET DOMAIN decayed
  OBVIOUS
<1> HIDE DEF decayed, places
<1>7. PICK n \in DOMAIN Sublist(decayed, places) : Sublist(decayed, places)[n] = decayed[i]
  BY <1>3, <1>5, <1>6, SublistHas
<1> QED
  BY <1>2, <1>4, <1>7

\* A floating thread is removed by time only (thread_stack.py:133-150), if the floor of its recency
\* weighs as much as the threshold below which it is dropped: for any turns in any order and any
\* number of floating threads.
THEOREM FloatingStays == FloorSaves => (Spec => FloatingKept)
<1> SUFFICES ASSUME FloorSaves PROVE Spec => FloatingKept
  OBVIOUS
<1> DEFINE Stays(i) == \/ floating[i].thread \in ThreadsOf(floating')
                       \/ update'.turn > floating[i].touched + Salience.floatingMaxTurnsUnresolved
                       \/ restarts' # restarts
<1>1. ASSUME TypeInv, [Next]_vars, NEW i \in DOMAIN floating PROVE Stays(i)
  <2>1. /\ floating \in Seq(Entry(Thread)) /\ turnCount \in Nat /\ restarts \in Nat
        /\ Salience.floatingMaxTurnsUnresolved \in Nat
        /\ \A t \in Turn : local[t].number \in Nat
    BY <1>1, SalienceAssumption DEF TypeInv, TurnTypes, Locals, SalienceConfig
  <2>2. CASE floating' = floating
    BY <2>2 DEF ThreadsOf
  <2>3. CASE Restart
    BY <2>1, <2>3 DEF Restart
  <2>4. CASE ThreadStep
    <3>1. PICK thread \in Thread : AddThreadToStack(thread)
      BY <1>1, <2>4, Inputs DEF ThreadStep, TypeInv, TurnTypes
    <3>2. CASE floating' = AddFloating(floating, thread, turnCount)
      <4>1. PICK e : e = NewEntry(thread, turnCount)
        OBVIOUS
      <4>2. floating' = Append(floating, e)
        BY <3>2, <4>1 DEF AddFloating
      <4>3. i \in DOMAIN floating' /\ floating'[i] = floating[i]
        BY <2>1, <4>2
      <4> QED
        BY <4>3 DEF ThreadsOf
    <3> QED
      BY <2>2, <3>1, <3>2 DEF AddThreadToStack
  <2>5. ASSUME NEW t \in Turn, RespondStep(t) PROVE Stays(i)
    <3>1. PICK number \in Nat : number = local[t].number
      BY <2>1
    <3>2. floating' = UpdateFloating(floating, number) /\ update'.turn = number
      BY <2>5, <3>1 DEF RespondStep, Respond
    <3>3. PICK touched \in Nat : touched = floating[i].touched
      <4>1. floating[i] \in Entry(Thread)
        BY <2>1
      <4>2. floating[i].touched \in Nat
        BY <4>1 DEF Entry
      <4> QED
        BY <4>2
    <3>4. CASE number - touched <= Salience.floatingMaxTurnsUnresolved
      <4>1. \E n \in DOMAIN floating' : floating'[n].thread = floating[i].thread
        BY <2>1, <3>2, <3>3, <3>4, UpdateKeepsFloating
      <4> QED
        BY <4>1 DEF ThreadsOf
    <3>5. CASE ~(number - touched <= Salience.floatingMaxTurnsUnresolved)
      <4>1. number > touched + Salience.floatingMaxTurnsUnresolved
        BY <2>1, <3>5
      <4> QED
        BY <3>2, <3>3, <4>1
    <3> QED
      BY <3>4, <3>5
  <2>6. ASSUME NEW t \in Turn, BeginStep(t) PROVE floating' = floating
    BY <2>6 DEF BeginStep, BeginTurn
  <2>7. Quiet => floating' = floating
    BY DEF Quiet
  <2> QED
    BY <1>1, <2>2, <2>3, <2>4, <2>5, <2>6, <2>7, StackSteps
<1>2. TypeInv /\ [Next]_vars =>
        [\A i \in DOMAIN floating : Stays(i)]_vars
  BY <1>1
<1> QED
  BY <1>2, TypeInduction, PTL DEF Spec, FloatingKept
-----------------------------------------------------------------------------
(* An item is shown once                                                    *)

\* The turns that have shown an item, or are about to: only the note is left to be written.
Noting(i) == {t \in Turn : at[t] = "noting" /\ local[t].candidate = i}
Taken(i) == shown[i] \cup Noting(i)

AnsweredAfter == \A i \in Items : \A t \in shown[i] : at[t] = "answered"

\* Without a store loaded from an overwritten file: one turn takes an item, which is then
\* surfaced in the assistant's store, and it is no turn sent after the item was surfaced.
TakenOnce ==
    ~stale => \A i \in Items :
      /\ \A t, u \in Taken(i) : t = u
      /\ Taken(i) # {} \/ past[i] # {} => items[i] = "surfaced"
      /\ Taken(i) \cap past[i] = {}

\* What either store has surfaced is in the file, unless a save of the other dropped it.
SurfacedIsSaved ==
    ~overwritten =>
      \A i \in Items : items[i] = "surfaced" \/ theirs[i] = "surfaced" => file[i] = "surfaced"

ShownInv == AnsweredAfter /\ TakenOnce /\ SurfacedIsSaved

\* A step that leaves the stores as they are, and takes no further item.
LEMMA NothingTaken ==
    ASSUME ShownInv, UNCHANGED <<items, stale, shown, past>>,
           \A i \in Items : Noting(i)' \subseteq Noting(i),
           \A t \in Turn : at[t] = "answered" => at'[t] = "answered",
           StoreTypes
    PROVE  AnsweredAfter' /\ TakenOnce'
<1>1. \A i \in Items : Taken(i)' \subseteq Taken(i)
  BY DEF Taken
<1>2. \A i \in Items : shown[i] \subseteq Turn
  BY DEF StoreTypes
<1> QED
  BY <1>1, <1>2 DEF ShownInv, AnsweredAfter, TakenOnce

\* No save drops what is surfaced in the file without a trace.
LEMMA SaveKeeps ==
    ASSUME NEW d, Save(d), ~overwritten', NEW i \in Items, file[i] = "surfaced"
    PROVE  ~overwritten /\ d[i] = "surfaced"
BY DEF Save

\* At first no item is shown.
LEMMA ShownInit == Init => ShownInv
<1> SUFFICES ASSUME Init PROVE ShownInv
  OBVIOUS
<1>1. \A i \in Items : Taken(i) = {} /\ past[i] = {} /\ file[i] # "surfaced"
  BY DEF Init, Taken, Noting
<1> QED
  BY <1>1 DEF Init, ShownInv, AnsweredAfter, TakenOnce, SurfacedIsSaved

\* Every step keeps the invariant.
LEMMA ShownNext ==
    ASSUME StoreTypes, scenario \in Scenario, ShownInv, [Next]_vars
    PROVE  ShownInv'
<1>1. ASSUME NEW t \in Turn,
             BeginStep(t) \/ Retrieve(t) \/ FailTurn(t) \/ Hydrate(t) \/ RespondStep(t)
      PROVE  ShownInv'
  <2>1. \A i \in Items : Noting(i)' \subseteq Noting(i)
    BY <1>1, TurnFrame, TurnAssumption DEF Noting
  <2>2. \A u \in Turn : at[u] = "answered" => at'[u] = "answered"
    BY <1>1, TurnFrame
  <2>3. UNCHANGED storeVars
    BY <1>1, TurnFrame
  <2> QED
    BY <2>1, <2>2, <2>3, NothingTaken DEF storeVars, ShownInv, SurfacedIsSaved
<1>2. ASSUME NEW t \in Turn, Surface(t) PROVE ShownInv'
  <2>1. CASE Leave(t, "failed") /\ UNCHANGED <<items, file, overwritten>>
    <3>1. \A u \in Turn \ {t} : at'[u] = at[u] /\ local'[u] = local[u]
      BY <2>1 DEF Leave, Goto, StoreTypes
    <3>2. at'[t] = "failed" /\ at[t] = "surfacing"
      BY <1>2, <2>1, SurfaceEffect DEF Leave, Goto, StoreTypes
    <3>3. \A i \in Items : Noting(i)' \subseteq Noting(i)
      BY <3>1, <3>2 DEF Noting
    <3> QED
      BY <1>2, <2>1, <3>1, <3>2, <3>3, NothingTaken, SurfaceEffect DEF ShownInv, SurfacedIsSaved
  <2>2. CASE /\ items[local[t].candidate] = "open"
             /\ items' = [items EXCEPT ![local[t].candidate] = "surfaced"]
             /\ Save(items') /\ Goto(t, "noting") /\ UNCHANGED <<busy, local>>
    <3> DEFINE c == local[t].candidate
    <3>1. /\ at[t] = "surfacing" /\ at'[t] = "noting" /\ \A u \in Turn \ {t} : at'[u] = at[u]
          /\ UNCHANGED <<theirs, stale, shown, past>>
      BY <1>2, <2>2, SurfaceEffect DEF Goto, StoreTypes
    <3>2. \A i \in Items : /\ i # c => items'[i] = items[i] /\ Noting(i)' = Noting(i)
                           /\ i = c => items'[i] = "surfaced" /\ Noting(i)' = Noting(i) \cup {t}
      <4>1. \A i \in Items : /\ i # c => items'[i] = items[i]
                             /\ i = c => items'[i] = "surfaced"
        BY <2>2 DEF StoreTypes, Dictionary
      <4>2. \A i \in Items : /\ i # c => Noting(i)' = Noting(i)
                             /\ i = c => Noting(i)' = Noting(i) \cup {t}
        BY <2>2, <3>1 DEF Noting
      <4> QED
        BY <4>1, <4>2
    <3>3. AnsweredAfter'
      BY <3>1 DEF ShownInv, AnsweredAfter, StoreTypes
    <3>4. TakenOnce'
      <4> SUFFICES ASSUME ~stale', NEW i \in Items
                   PROVE  /\ \A u, v \in Taken(i)' : u = v
                          /\ Taken(i)' # {} \/ past'[i] # {} => items'[i] = "surfaced"
                          /\ Taken(i)' \cap past'[i] = {}
        BY DEF TakenOnce
      <4>1. CASE i # c
        BY <4>1, <3>1, <3>2 DEF ShownInv, TakenOnce, Taken
      <4>2. CASE i = c
        <5>1. Taken(i) = {} /\ past[i] = {}
          BY <2>2, <4>2, <3>1 DEF ShownInv, TakenOnce
        <5>2. Taken(i)' = {t} /\ past'[i] = {}
          BY <5>1, <4>2, <3>1, <3>2 DEF Taken
        <5> QED
          BY <5>2, <4>2, <3>2
      <4> QED
        BY <4>1, <4>2
    <3>5. SurfacedIsSaved'
      <4> SUFFICES ASSUME ~overwritten', NEW i \in Items,
                          items'[i] = "surfaced" \/ theirs'[i] = "surfaced"
                   PROVE  file'[i] = "surfaced"
        BY DEF SurfacedIsSaved
      <4>1. file' = items' /\ ~overwritten
        BY <2>2 DEF Save
      <4>2. CASE theirs'[i] = "surfaced"
        BY <4>1, <4>2, <2>2, <3>1, SaveKeeps DEF ShownInv, SurfacedIsSaved
      <4> QED
        BY <4>1, <4>2
    <3> QED
      BY <3>3, <3>4, <3>5 DEF ShownInv
  <2> QED
    BY <1>2, <2>1, <2>2, SurfaceEffect
<1>3. ASSUME NEW t \in Turn, FinishStep(t) PROVE ShownInv'
  <2>1. /\ at[t] = "noting" /\ Leave(t, "answered")
        /\ UNCHANGED <<items, theirs, detection, file, overwritten, stale, past>>
        /\ shown' = [i \in Items |-> IF i = local[t].candidate THEN shown[i] \cup {t} ELSE shown[i]]
    BY <1>3 DEF FinishStep, FinishTurn
  <2>2. at'[t] = "answered" /\ \A u \in Turn \ {t} : at'[u] = at[u] /\ local'[u] = local[u]
    BY <2>1 DEF Leave, Goto, StoreTypes
  <2>3. \A i \in Items : Taken(i)' \subseteq Taken(i)
    <3> SUFFICES ASSUME NEW i \in Items PROVE Taken(i)' \subseteq Taken(i)
      OBVIOUS
    <3>1. shown'[i] \subseteq Taken(i)
      BY <2>1 DEF Taken, Noting
    <3>2. Noting(i)' \subseteq Taken(i)
      BY <2>2 DEF Taken, Noting
    <3> QED
      BY <3>1, <3>2 DEF Taken
  <2>4. AnsweredAfter'
    BY <2>1, <2>2 DEF ShownInv, AnsweredAfter, StoreTypes
  <2>5. TakenOnce'
    BY <2>1, <2>3 DEF ShownInv, TakenOnce
  <2> QED
    BY <2>1, <2>4, <2>5 DEF ShownInv, SurfacedIsSaved
<1>4. CASE ThreadStep \/ DetectionStep
  <2>1. UNCHANGED <<loopVars, items, theirs, file, overwritten, stale, shown, past>>
    BY <1>4, Zenon DEF ThreadStep, AddThreadToStack, DetectionStep, StartDetection, EndDetection,
                       RecordContradiction, detectionUnchanged, storeVars
  <2> QED
    BY <2>1, NothingTaken DEF loopVars, Noting, ShownInv, SurfacedIsSaved
<1>5. CASE SettleStep
  <2>1. PICK i \in scenario.items : SettleItem(i)
    BY <1>5 DEF SettleStep
  <2>2. /\ theirs' = [theirs EXCEPT ![i] = "surfaced"] /\ Save(theirs')
        /\ UNCHANGED <<loopVars, items, stale, shown, past>>
    BY <2>1 DEF SettleItem, Save
  <2>3. SurfacedIsSaved'
    <3> SUFFICES ASSUME ~overwritten', NEW j \in Items,
                        items'[j] = "surfaced" \/ theirs'[j] = "surfaced"
                 PROVE  file'[j] = "surfaced"
      BY DEF SurfacedIsSaved
    <3>1. CASE items'[j] = "surfaced"
      BY <3>1, <2>2, SaveKeeps DEF ShownInv, SurfacedIsSaved, Save
    <3> QED
      BY <3>1, <2>2 DEF Save
  <2> QED
    BY <2>2, <2>3, NothingTaken DEF loopVars, Noting, ShownInv
<1>6. CASE WriteHoldingItem
  <2>1. PICK d : Save(d)
    BY <1>6 DEF WriteHoldingItem
  <2>2. UNCHANGED <<loopVars, items, theirs, stale, shown, past>>
    BY <1>6 DEF WriteHoldingItem, detectionUnchanged
  <2>3. SurfacedIsSaved'
    BY <2>1, <2>2, SaveKeeps DEF ShownInv, SurfacedIsSaved, Save
  <2> QED
    BY <2>2, <2>3, NothingTaken DEF loopVars, Noting, ShownInv
<1>7. CASE Restart
  <2>1. /\ at' = [t \in Turn |-> IF at[t] \in {"sent", "answered"} THEN at[t] ELSE "failed"]
        /\ items' = file /\ theirs' = file /\ stale' = (stale \/ overwritten)
        /\ past' = [i \in Items |-> IF "surfaced" \in {items[i], theirs[i]}
                                    THEN {t \in Turn : at[t] = "sent"} ELSE past[i]]
        /\ UNCHANGED <<file, overwritten, shown>>
    BY <1>7 DEF Restart
  <2>2. AnsweredAfter'
    BY <2>1 DEF ShownInv, AnsweredAfter, StoreTypes
  <2>3. \A i \in Items : Taken(i)' = shown[i]
    BY <2>1 DEF Taken, Noting
  <2>4. TakenOnce'
    <3> SUFFICES ASSUME ~stale', NEW i \in Items
                 PROVE  /\ \A t, u \in shown[i] : t = u
                        /\ shown[i] # {} \/ past'[i] # {} => file[i] = "surfaced"
                        /\ shown[i] \cap past'[i] = {}
      BY <2>1, <2>3 DEF TakenOnce
    <3>1. ~stale /\ ~overwritten
      BY <2>1 DEF StoreTypes
    <3>2. shown[i] \subseteq Taken(i)
      BY DEF Taken
    <3>3. /\ \A t, u \in shown[i] : t = u
          /\ shown[i] # {} \/ past[i] # {} => items[i] = "surfaced"
          /\ shown[i] \cap past[i] = {}
      BY <3>1, <3>2 DEF ShownInv, TakenOnce
    <3>4. past'[i] # {} => items[i] = "surfaced" \/ theirs[i] = "surfaced"
      BY <2>1, <3>3
    <3>5. shown[i] \cap past'[i] = {}
      BY <2>1, <3>3 DEF ShownInv, AnsweredAfter
    <3> QED
      BY <3>1, <3>3, <3>4, <3>5 DEF ShownInv, SurfacedIsSaved
  <2>5. SurfacedIsSaved'
    BY <2>1 DEF SurfacedIsSaved
  <2> QED
    BY <2>2, <2>4, <2>5 DEF ShownInv
<1>8. CASE UNCHANGED vars
  BY <1>8, NothingTaken DEF vars, loopVars, storeVars, Noting, ShownInv, SurfacedIsSaved
<1> QED
  BY <1>1, <1>2, <1>3, <1>4, <1>5, <1>6, <1>7, <1>8, Steps

\* The invariant says what is to be shown.
LEMMA ShownInvShows == StoreTypes /\ ShownInv => ShownOnce
<1> SUFFICES ASSUME StoreTypes, ShownInv, ~stale, NEW i \in Items
             PROVE  Cardinality(shown[i]) <= 1 /\ shown[i] \cap past[i] = {}
  BY DEF ShownOnce
<1>1. /\ \A t, u \in shown[i] : t = u
      /\ shown[i] \cap past[i] = {}
  BY DEF ShownInv, TakenOnce, Taken
<1>2. CASE shown[i] = {}
  BY <1>1, <1>2, FS_EmptySet
<1>3. CASE shown[i] # {}
  <2>1. PICK t : shown[i] = {t}
    BY <1>1, <1>3
  <2>2. Cardinality({t}) = 1
    BY FS_Singleton
  <2> QED
    BY <1>1, <2>1, <2>2
<1> QED
  BY <1>2, <1>3

\* Of the turns that select an item while others wait for its contradiction record, one shows
\* it, and after a restart none does that was sent after a turn or a client had settled it
\* (discharge.py:14, api.py:35): for any turns and items, as long as no store is loaded from a
\* file in which another's save had dropped one.
THEOREM ItemsAreShownOnce == Spec => []ShownOnce
<1>1. TypeInv /\ ShownInv /\ [Next]_vars => ShownInv'
  BY ShownNext DEF TypeInv, TurnTypes
<1>2. TypeInv /\ ShownInv => ShownOnce
  BY ShownInvShows DEF TypeInv
<1> QED
  BY <1>1, <1>2, ShownInit, TypeInduction, PTL DEF Spec
=============================================================================
