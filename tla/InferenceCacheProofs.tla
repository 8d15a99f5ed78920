------------------------ MODULE InferenceCacheProofs ------------------------
(***************************************************************************)
(* The lock of _get_inference_fn is enough for one client, and the evict   *)
(* before each call, where it works, is enough for a call that nothing     *)
(* overlaps: for any number of threads and calls.                          *)
(***************************************************************************)
EXTENDS InferenceCache, TLAPS

Places == {"idle", "acquire", "test", "build", "return", "evict", "prefill", "generate",
           "seeded", "cleaning"}

Piece == [caller : Caller, number : Nat, part : {"prompt", "last"}]

\* The types that the proofs need.
Types ==
    /\ client \in BOOLEAN /\ lock \in Caller \cup {None} /\ built \in Nat
    /\ at \in [Caller -> Places] /\ call \in [Caller -> Nat]
    /\ shutdown \in {"no", "evicting", "resetting", "done"}
    /\ context \in [Caller -> SUBSET Piece]
    /\ cache \in SUBSET Piece
    /\ evicted \in [Caller -> BOOLEAN] /\ alone \in [Caller -> BOOLEAN]

\* Whoever tests, builds or returns the client holds the lock, and whoever builds one
\* has found none.
LockHeld ==
    /\ \A c \in Caller : at[c] \in {"test", "build", "return"} => lock = c
    /\ \A c \in Caller : at[c] = "build" => ~client
    /\ built = IF client THEN 1 ELSE 0

\* What the entry holds while the caller's call is under way and undisturbed.
Clean(c) ==
    /\ at[c] = "prefill" => (evicted[c] => cache = {})
    /\ at[c] = "generate" => Prompt(c) \in cache
    /\ at[c] = "generate" => (evicted[c] => cache = {Prompt(c)})

\* A call that is alone is the only user of the entry.
AloneOwnsCache ==
    \A c \in Caller : at[c] \in InCall /\ alone[c] =>
        /\ \A d \in Caller \ {c} : at[d] \notin Using
        /\ shutdown # "evicting"
        /\ Clean(c)

IsOwn(c) == /\ Own(c) \subseteq context[c]
            /\ evicted[c] => context[c] = Own(c)

\* There is an answer only after the call; if the call was alone, it is its own.
AnswersAreOwn ==
    \A c \in Caller :
        /\ at[c] \in {"idle", "seeded", "cleaning"} =>
               (alone[c] /\ context[c] # {} => IsOwn(c))
        /\ at[c] \notin {"idle", "seeded", "cleaning"} => context[c] = {}

LEMMA InitTypes == Init => Types
  <1> SUFFICES ASSUME Init PROVE Types
    OBVIOUS
  <1>1. /\ at \in [Caller -> Places] /\ call \in [Caller -> Nat]
        /\ evicted \in [Caller -> BOOLEAN] /\ alone \in [Caller -> BOOLEAN]
    BY DEF Init, Places
  <1>2. context \in [Caller -> SUBSET Piece]
    BY Zenon DEF Init
  <1> QED BY <1>1, <1>2 DEF Init, Types

LEMMA PiecesOfCall ==
    ASSUME Types, NEW c \in Caller
    PROVE  Prompt(c) \in Piece /\ Last(c) \in Piece /\ Prompt(c) # Last(c)
  <1>1. call[c] \in Nat
    BY DEF Types
  <1>2. Prompt(c).part = "prompt" /\ Last(c).part = "last"
    BY DEF Prompt, Last
  <1> QED BY <1>1, <1>2 DEF Prompt, Last, Piece

LEMMA NextTypes == Types /\ [Next]_vars => Types'
  <1> SUFFICES ASSUME Types, [Next]_vars PROVE Types'
    OBVIOUS
  <1> USE DEF Types, Places, Goto
  <1>1. StillAlone \in [Caller -> BOOLEAN]
    BY DEF StillAlone
  <1>2. CASE ShutDown \/ EvictAtShutdown \/ Reset
    <2>1. alone' \in [Caller -> BOOLEAN]
      BY <1>1, <1>2, Zenon DEF ShutDown, EvictAtShutdown, Reset
    <2>2. UNCHANGED <<lock, at, call, context, evicted>>
      BY <1>2 DEF ShutDown, EvictAtShutdown, Reset
    <2>3. built' \in Nat /\ cache' \in SUBSET Piece
      BY <1>2 DEF ShutDown, EvictAtShutdown, Reset
    <2>4. client' \in BOOLEAN
      BY <1>2, Zenon DEF ShutDown, EvictAtShutdown, Reset
    <2>5. shutdown' \in {"no", "evicting", "resetting", "done"}
      BY <1>2 DEF ShutDown, EvictAtShutdown, Reset
    <2> QED BY <2>1, <2>2, <2>3, <2>4, <2>5
  <1>3. ASSUME NEW c \in Caller, Ask(c) PROVE Types'
    <2>1. context' \in [Caller -> SUBSET Piece]
      BY <1>3, Zenon DEF Ask
    <2> QED BY <1>3, <2>1 DEF Ask
  <1>4. ASSUME NEW c \in Caller, Acquire(c) \/ Test(c) PROVE Types'
    BY <1>4 DEF Acquire, Test
  <1>5. ASSUME NEW c \in Caller, Build(c) PROVE Types'
    <2>1. CASE client' = TRUE /\ built' = built + 1 /\ Goto(c, "return") /\ UNCHANGED lock
      BY <1>5, <2>1 DEF Build
    <2>2. CASE Goto(c, "idle") /\ lock' = LockAfter(c) /\ UNCHANGED <<client, built>>
      BY <1>5, <2>2 DEF Build, LockAfter
    <2> QED BY <1>5, <2>1, <2>2 DEF Build
  <1>6. ASSUME NEW c \in Caller, Return(c) PROVE Types'
    <2>1. CASE client /\ BeginCall(c)
      <3>1. alone' \in [Caller -> BOOLEAN]
        BY <1>1, <2>1 DEF BeginCall
      <3> QED BY <1>6, <2>1, <3>1 DEF Return, BeginCall
    <2>2. CASE ~client /\ Goto(c, "idle") /\ UNCHANGED alone
      BY <1>6, <2>2 DEF Return
    <2> QED BY <1>6, <2>1, <2>2 DEF Return
  <1>7. ASSUME NEW c \in Caller, Evict(c) PROVE Types'
    <2>1. PICK worked \in BOOLEAN :
            /\ cache' = AfterEvict(c, worked)
            /\ evicted' = [evicted EXCEPT ![c] = worked \/ cache = {}]
      BY <1>7 DEF Evict
    <2>2. cache' \in SUBSET Piece
      BY <2>1 DEF AfterEvict
    <2>3. evicted' \in [Caller -> BOOLEAN]
      BY <2>1, Zenon
    <2> QED BY <1>7, <2>2, <2>3 DEF Evict
  <1>8. ASSUME NEW c \in Caller, Prefill(c) PROVE Types'
    BY <1>8, PiecesOfCall DEF Prefill
  <1>9. ASSUME NEW c \in Caller, Generate(c) PROVE Types'
    <2>1. cache' \in SUBSET Piece
      BY <1>9, PiecesOfCall DEF Generate
    <2>2. context' \in [Caller -> SUBSET Piece]
      BY <1>9, <2>1, Zenon DEF Generate
    <2> QED BY <1>9, <2>1, <2>2 DEF Generate
  <1>10. ASSUME NEW c \in Caller, CallRaises(c) PROVE Types'
    BY <1>10, PiecesOfCall DEF CallRaises
  <1>11. ASSUME NEW c \in Caller, LeaveSeeding(c) \/ EvictAfterSeeding(c) PROVE Types'
    BY <1>11 DEF LeaveSeeding, EvictAfterSeeding
  <1>12. CASE UNCHANGED vars
    BY <1>12 DEF vars
  <1> QED BY <1>2, <1>3, <1>4, <1>5, <1>6, <1>7, <1>8, <1>9, <1>10, <1>11, <1>12
          DEF Next, CallerStep

LEMMA NextLockHeld == Types /\ LockHeld /\ [Next]_vars => LockHeld'
  <1> SUFFICES ASSUME Types, LockHeld, [Next]_vars PROVE LockHeld'
    OBVIOUS
  <1> USE DEF Types, LockHeld, Goto
  <1>1. CASE ShutDown \/ EvictAtShutdown \/ Reset
    BY <1>1 DEF ShutDown, EvictAtShutdown, Reset
  <1>2. ASSUME NEW c \in Caller, Ask(c) PROVE LockHeld'
    BY <1>2 DEF Ask
  <1>3. ASSUME NEW c \in Caller, Acquire(c) PROVE LockHeld'
    <2>1. \A d \in Caller : at[d] \notin {"test", "build", "return"}
      BY <1>3, CallerAssumption DEF Acquire
    <2> QED BY <1>3, <2>1 DEF Acquire
  <1>4. ASSUME NEW c \in Caller, at[c] \in {"test", "build", "return"}
        PROVE  \A d \in Caller \ {c} : at[d] \notin {"test", "build", "return"}
    BY <1>4
  <1>5. ASSUME NEW c \in Caller, Test(c) PROVE LockHeld'
    BY <1>4, <1>5 DEF Test
  <1>6. ASSUME NEW c \in Caller, Build(c) PROVE LockHeld'
    <2>1. ~client
      BY <1>6 DEF Build
    <2> QED BY <1>4, <1>6, <2>1 DEF Build
  <1>7. ASSUME NEW c \in Caller, Return(c) PROVE LockHeld'
    BY <1>4, <1>7 DEF Return, BeginCall
  <1>8. ASSUME NEW c \in Caller, \/ Evict(c) \/ Prefill(c) \/ Generate(c) \/ CallRaises(c)
                                 \/ LeaveSeeding(c) \/ EvictAfterSeeding(c)
        PROVE  LockHeld'
    BY <1>8 DEF Evict, Prefill, Generate, CallRaises, LeaveSeeding, EvictAfterSeeding
  <1>9. CASE UNCHANGED vars
    BY <1>9 DEF vars
  <1> QED BY <1>1, <1>2, <1>3, <1>5, <1>6, <1>7, <1>8, <1>9 DEF Next, CallerStep

\* __main__.py:168-174.  However many threads ask for the inference function at once, fail
\* to build it or find it dropped, at most one client is ever built between shutdowns.
THEOREM SingletonClient == Spec => []OneClient
  <1>1. Init => Types /\ LockHeld
    BY InitTypes DEF Init, LockHeld
  <1>2. Types /\ LockHeld /\ [Next]_vars => (Types /\ LockHeld)'
    BY NextTypes, NextLockHeld
  <1>3. Types /\ LockHeld => OneClient
    BY DEF Types, LockHeld, OneClient
  <1> QED BY <1>1, <1>2, <1>3, PTL DEF Spec

\* A call that goes on alone stays so while others are elsewhere than at the entry.
LEMMA OthersAway ==
    ASSUME Types, AloneOwnsCache, NEW c \in Caller, at[c] \notin InCall,
           at' = [at EXCEPT ![c] = at'[c]], at'[c] \notin Using,
           UNCHANGED <<shutdown, alone>>,
           at[c] \notin Using => UNCHANGED cache,
           \A d \in Caller \ {c} : call'[d] = call[d] /\ evicted'[d] = evicted[d]
    PROVE  AloneOwnsCache'
  <1> SUFFICES ASSUME NEW d \in Caller, at'[d] \in InCall, alone'[d]
               PROVE  /\ \A e \in Caller \ {d} : at'[e] \notin Using
                      /\ shutdown' # "evicting"
                      /\ Clean(d)'
    BY DEF AloneOwnsCache
  <1>1. d # c /\ at'[d] = at[d] /\ alone[d]
    BY DEF Types, Using, InCall
  <1>2. /\ \A e \in Caller \ {d} : at[e] \notin Using
        /\ shutdown # "evicting"
        /\ Clean(d)
    BY <1>1 DEF AloneOwnsCache
  <1>3. UNCHANGED cache
    BY <1>1, <1>2
  <1>4. Prompt(d)' = Prompt(d) /\ evicted'[d] = evicted[d]
    BY <1>1 DEF Prompt
  <1> QED BY <1>1, <1>2, <1>3, <1>4 DEF Types, Clean

LEMMA NextAlone == Types /\ AloneOwnsCache /\ [Next]_vars => AloneOwnsCache'
  <1> SUFFICES ASSUME Types, AloneOwnsCache, [Next]_vars PROVE AloneOwnsCache'
    OBVIOUS
  <1>1. CASE ShutDown
    <2>1. CASE alone' = StillAlone
      BY <1>1, <2>1 DEF ShutDown, StillAlone, AloneOwnsCache
    <2>2. CASE ~client /\ shutdown' = "resetting" /\ UNCHANGED alone
      BY <1>1, <2>2 DEF ShutDown, AloneOwnsCache, Clean, Prompt
    <2> QED BY <1>1, <2>1, <2>2 DEF ShutDown
  <1>2. CASE EvictAtShutdown
    BY <1>2 DEF EvictAtShutdown, AloneOwnsCache
  <1>3. CASE Reset
    BY <1>3 DEF Reset, AloneOwnsCache, Clean, Prompt
  <1>4. ASSUME NEW c \in Caller, Ask(c) PROVE AloneOwnsCache'
    <2>1. at'[c] = "acquire"
      BY <1>4 DEF Ask, Goto, Types
    <2> QED BY <1>4, <2>1, OthersAway DEF Ask, Goto, Types, Using, InCall
  <1>5. ASSUME NEW c \in Caller, Acquire(c) PROVE AloneOwnsCache'
    <2>1. at'[c] = "test"
      BY <1>5 DEF Acquire, Goto, Types
    <2> QED BY <1>5, <2>1, OthersAway DEF Acquire, Goto, Using, InCall
  <1>6. ASSUME NEW c \in Caller, Test(c) PROVE AloneOwnsCache'
    <2>1. at'[c] \in {"return", "build"}
      BY <1>6 DEF Test, Goto, Types
    <2> QED BY <1>6, <2>1, OthersAway DEF Test, Goto, Using, InCall
  <1>7. ASSUME NEW c \in Caller, Build(c) PROVE AloneOwnsCache'
    <2>1. at'[c] \in {"return", "idle"} /\ at' = [at EXCEPT ![c] = at'[c]]
      BY <1>7 DEF Build, Goto, Types
    <2> QED BY <1>7, <2>1, OthersAway DEF Build, Using, InCall
  <1>8. ASSUME NEW c \in Caller, Return(c) PROVE AloneOwnsCache'
    <2>1. CASE BeginCall(c)
      <3>1. at' = [at EXCEPT ![c] = "evict"]
        BY <2>1 DEF BeginCall, Goto
      <3> SUFFICES ASSUME NEW d \in Caller, at'[d] \in InCall, alone'[d]
                   PROVE  /\ \A e \in Caller \ {d} : at'[e] \notin Using
                          /\ shutdown' # "evicting"
                          /\ Clean(d)'
        BY DEF AloneOwnsCache
      <3>2. d = c
        BY <2>1, <3>1 DEF BeginCall, StillAlone, Types
      <3>3. shutdown # "evicting" /\ \A e \in Caller \ {c} : at[e] \notin Using
        BY <2>1, <3>2 DEF BeginCall, StillAlone
      <3> QED BY <1>8, <3>1, <3>2, <3>3 DEF Return, Types, Clean
    <2>2. CASE Goto(c, "idle") /\ UNCHANGED alone
      <3>1. at'[c] = "idle"
        BY <2>2 DEF Goto, Types
      <3> QED BY <1>8, <2>2, <3>1, OthersAway DEF Return, Goto, Using, InCall
    <2> QED BY <1>8, <2>1, <2>2 DEF Return
  <1>9. ASSUME NEW c \in Caller, at[c] \in InCall, at' = [at EXCEPT ![c] = at'[c]],
               UNCHANGED <<call, shutdown, alone>>,
               alone[c] /\ at'[c] \in InCall => Clean(c)'
        PROVE  AloneOwnsCache'
    <2> SUFFICES ASSUME NEW d \in Caller, at'[d] \in InCall, alone'[d]
                 PROVE  /\ \A e \in Caller \ {d} : at'[e] \notin Using
                        /\ shutdown' # "evicting"
                        /\ Clean(d)'
      BY DEF AloneOwnsCache
    <2>1. d = c
      BY <1>9 DEF AloneOwnsCache, Using, Types
    <2> QED BY <1>9, <2>1 DEF AloneOwnsCache, Types
  <1>10. ASSUME NEW c \in Caller, Evict(c) PROVE AloneOwnsCache'
    <2>1. PICK worked \in BOOLEAN :
            /\ cache' = AfterEvict(c, worked)
            /\ evicted' = [evicted EXCEPT ![c] = worked \/ cache = {}]
      BY <1>10 DEF Evict
    <2>2. at'[c] = "prefill" /\ at' = [at EXCEPT ![c] = at'[c]]
      BY <1>10 DEF Evict, Goto, Types
    <2>3. evicted'[c] => worked \/ cache = {}
      BY <2>1 DEF Types
    <2>4. evicted'[c] => cache' = {}
      BY <2>1, <2>3 DEF AfterEvict
    <2> QED BY <1>9, <1>10, <2>2, <2>4 DEF Evict, Clean, InCall
  <1>11. ASSUME NEW c \in Caller, Prefill(c) PROVE AloneOwnsCache'
    <2>1. at'[c] = "generate" /\ at' = [at EXCEPT ![c] = at'[c]] /\ Prompt(c)' = Prompt(c)
      BY <1>11 DEF Prefill, Goto, Types, Prompt
    <2>2. alone[c] => (evicted[c] => cache = {})
      BY <1>11 DEF Prefill, AloneOwnsCache, InCall, Clean
    <2> QED BY <1>9, <1>11, <2>1, <2>2 DEF Prefill, Clean, InCall
  <1>12. ASSUME NEW c \in Caller, Generate(c) PROVE AloneOwnsCache'
    <2>1. at'[c] \notin InCall /\ at' = [at EXCEPT ![c] = at'[c]]
      BY <1>12 DEF Generate, Goto, Types, InCall
    <2> QED BY <1>9, <1>12, <2>1 DEF Generate, InCall
  <1>13. ASSUME NEW c \in Caller, CallRaises(c) PROVE AloneOwnsCache'
    <2>1. at'[c] = "idle" /\ at' = [at EXCEPT ![c] = at'[c]]
      BY <1>13 DEF CallRaises, Goto, Types
    <2> QED BY <1>9, <1>13, <2>1 DEF CallRaises, InCall
  <1>14. ASSUME NEW c \in Caller, LeaveSeeding(c) PROVE AloneOwnsCache'
    <2>1. CASE Goto(c, "cleaning")
      BY <1>14, <2>1 DEF LeaveSeeding, Goto, Types, AloneOwnsCache, Clean, Prompt, Using, InCall
    <2>2. CASE Goto(c, "idle")
      BY <1>14, <2>2 DEF LeaveSeeding, Goto, Types, AloneOwnsCache, Clean, Prompt, Using, InCall
    <2> QED BY <1>14, <2>1, <2>2 DEF LeaveSeeding
  <1>15. ASSUME NEW c \in Caller, EvictAfterSeeding(c) PROVE AloneOwnsCache'
    <2>1. at'[c] = "idle"
      BY <1>15 DEF EvictAfterSeeding, Goto, Types
    <2> QED BY <1>15, <2>1, OthersAway DEF EvictAfterSeeding, Goto, Using, InCall
  <1>16. CASE UNCHANGED vars
    BY <1>16 DEF vars, AloneOwnsCache, Clean, Prompt
  <1> QED BY <1>1, <1>2, <1>3, <1>4, <1>5, <1>6, <1>7, <1>8, <1>10, <1>11, <1>12, <1>13,
             <1>14, <1>15, <1>16 DEF Next, CallerStep

\* Only a caller's own asking and answering change what is said of its answer.
LEMMA OthersAnswers ==
    ASSUME Types, AnswersAreOwn, NEW c \in Caller,
           \A d \in Caller \ {c} :
              /\ at'[d] = at[d] /\ call'[d] = call[d]
              /\ context'[d] = context[d] /\ evicted'[d] = evicted[d]
              /\ at[d] \notin InCall => alone'[d] = alone[d],
           at'[c] \in {"idle", "seeded", "cleaning"} =>
              (alone'[c] /\ context'[c] # {} => IsOwn(c)'),
           at'[c] \notin {"idle", "seeded", "cleaning"} => context'[c] = {}
    PROVE  AnswersAreOwn'
  <1> SUFFICES ASSUME NEW d \in Caller, d # c
               PROVE  /\ at'[d] \in {"idle", "seeded", "cleaning"} =>
                            (alone'[d] /\ context'[d] # {} => IsOwn(d)')
                      /\ at'[d] \notin {"idle", "seeded", "cleaning"} => context'[d] = {}
    BY DEF AnswersAreOwn
  <1>1. IsOwn(d)' <=> IsOwn(d)
    BY DEF IsOwn, Own, Prompt, Last
  <1>2. at[d] \in {"idle", "seeded", "cleaning"} => alone'[d] = alone[d]
    BY DEF InCall
  <1> QED BY <1>1, <1>2 DEF AnswersAreOwn

LEMMA NextAnswers ==
    Types /\ AloneOwnsCache /\ AnswersAreOwn /\ [Next]_vars => AnswersAreOwn'
  <1> SUFFICES ASSUME Types, AloneOwnsCache, AnswersAreOwn, [Next]_vars PROVE AnswersAreOwn'
    OBVIOUS
  <1>1. CASE ShutDown \/ EvictAtShutdown \/ Reset
    <2>1. \A c \in Caller : IsOwn(c)' <=> IsOwn(c)
      BY <1>1 DEF ShutDown, EvictAtShutdown, Reset, IsOwn, Own, Prompt, Last
    <2>2. \A c \in Caller : at[c] \notin InCall => alone'[c] = alone[c]
      BY <1>1 DEF ShutDown, EvictAtShutdown, Reset, StillAlone, Types
    <2>3. UNCHANGED <<at, context>>
      BY <1>1 DEF ShutDown, EvictAtShutdown, Reset
    <2> QED BY <2>1, <2>2, <2>3 DEF AnswersAreOwn, InCall
  <1>2. ASSUME NEW c \in Caller, Ask(c) PROVE AnswersAreOwn'
    <2>1. at'[c] = "acquire" /\ context'[c] = {}
      BY <1>2 DEF Ask, Goto, Types
    <2> QED BY <1>2, <2>1, OthersAnswers DEF Ask, Goto, Types
  <1>3. ASSUME NEW c \in Caller, Acquire(c) \/ Test(c) \/ Build(c) \/ Return(c) \/ Evict(c)
                                 \/ Prefill(c) \/ CallRaises(c)
        PROVE  AnswersAreOwn'
    <2>1. at[c] \notin {"idle", "seeded", "cleaning"} /\ context[c] = {}
      BY <1>3 DEF Acquire, Test, Build, Return, Evict, Prefill, CallRaises, AnswersAreOwn
    <2>2. context'[c] = {} /\ UNCHANGED <<call, context>>
      BY <1>3, <2>1 DEF Acquire, Test, Build, Return, Evict, Prefill, CallRaises
    <2>3. \A d \in Caller \ {c} : at'[d] = at[d] /\ evicted'[d] = evicted[d]
      BY <1>3 DEF Acquire, Test, Build, Return, BeginCall, Evict, Prefill, CallRaises, Goto,
                  Types
    <2>4. \A d \in Caller \ {c} : at[d] \notin InCall => alone'[d] = alone[d]
      BY <1>3 DEF Acquire, Test, Build, Return, BeginCall, StillAlone, Evict, Prefill,
                  CallRaises, Types
    <2> QED BY <2>2, <2>3, <2>4, OthersAnswers
  <1>4. ASSUME NEW c \in Caller, Generate(c) PROVE AnswersAreOwn'
    <2>1. alone[c] => Clean(c)
      BY <1>4 DEF Generate, AloneOwnsCache, InCall
    <2>2. alone[c] => Own(c) \subseteq cache' /\ (evicted[c] => cache' = Own(c))
      BY <1>4, <2>1 DEF Generate, Clean, Own
    <2>3. context'[c] = cache' /\ Own(c)' = Own(c) /\ UNCHANGED <<evicted, alone>>
      BY <1>4 DEF Generate, Types, Own, Prompt, Last
    <2>4. alone'[c] => IsOwn(c)'
      BY <2>2, <2>3 DEF IsOwn
    <2>5. at'[c] \in {"idle", "seeded"}
      BY <1>4 DEF Generate, Goto, Types
    <2> QED BY <1>4, <2>4, <2>5, OthersAnswers DEF Generate, Goto, Types
  <1>5. ASSUME NEW c \in Caller, LeaveSeeding(c) \/ EvictAfterSeeding(c) PROVE AnswersAreOwn'
    <2>1. at[c] \in {"seeded", "cleaning"} /\ at'[c] \in {"idle", "cleaning"}
      BY <1>5 DEF LeaveSeeding, EvictAfterSeeding, Goto, Types
    <2>2. UNCHANGED <<call, context, evicted, alone>>
      BY <1>5 DEF LeaveSeeding, EvictAfterSeeding
    <2>3. IsOwn(c)' <=> IsOwn(c)
      BY <2>2 DEF IsOwn, Own, Prompt, Last
    <2>4. alone'[c] /\ context'[c] # {} => IsOwn(c)'
      BY <2>1, <2>2, <2>3 DEF AnswersAreOwn
    <2> QED BY <1>5, <2>1, <2>2, <2>4, OthersAnswers
            DEF LeaveSeeding, EvictAfterSeeding, Goto, Types
  <1>6. CASE UNCHANGED vars
    <2>1. \A c \in Caller : IsOwn(c)' <=> IsOwn(c)
      BY <1>6 DEF vars, IsOwn, Own, Prompt, Last
    <2> QED BY <1>6, <2>1 DEF vars, AnswersAreOwn
  <1> QED BY <1>1, <1>2, <1>3, <1>4, <1>5, <1>6 DEF Next, CallerStep

\* __main__.py:143-166.  A call that nothing else at the entry overlaps is answered from all
\* of its own prompt, and from nothing else if the evict before it worked or found nothing,
\* whatever failed and overlapping calls have left in the entry before it.
THEOREM AloneIsClean == Spec => []OwnContextWhenAlone
  <1>1. Init => Types /\ AloneOwnsCache /\ AnswersAreOwn
    BY InitTypes DEF Init, AloneOwnsCache, AnswersAreOwn, InCall
  <1>2. Types /\ AloneOwnsCache /\ AnswersAreOwn /\ [Next]_vars
        => (Types /\ AloneOwnsCache /\ AnswersAreOwn)'
    BY NextTypes, NextAlone, NextAnswers
  <1>3. AnswersAreOwn => OwnContextWhenAlone
    BY DEF AnswersAreOwn, IsOwn, OwnContextWhenAlone
  <1> QED BY <1>1, <1>2, <1>3, PTL DEF Spec
=============================================================================
