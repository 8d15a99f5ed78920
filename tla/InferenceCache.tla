--------------------------- MODULE InferenceCache ---------------------------
(***************************************************************************)
(* The one inference function of __main__.py: threads get the singleton    *)
(* client under a lock, and each call then evicts, prefills and generates  *)
(* from the one cache entry of the model server, with no lock at all.  The *)
(* calls come from the worker (seeding), the conversation server and the   *)
(* two pool threads of a session end; main drops the client at the end.    *)
(* The server's entry is external: it is modelled as the pieces of prompts *)
(* it holds, and each request to it as one step.                           *)
(***************************************************************************)
EXTENDS Naturals, FiniteSets

CONSTANTS Caller,    \* the threads that call the model
          Seeding,   \* the one that runs daemon_seeding, if any
          None,      \* no thread
          MaxCalls   \* bound on the calls of each thread

ASSUME CallerAssumption == None \notin Caller /\ MaxCalls \in Nat

VARIABLES
    client,    \* _inference_fn has been built
    lock,      \* the holder of _inference_lock
    at,        \* where each caller is
    call,      \* the number of each caller's current call
    cache,     \* the pieces of prompts in the cache entry
    shutdown,  \* where _shutdown_inference is
    context,   \* history: what each caller's last answer was generated from
    evicted,   \* history: the entry was evicted, or empty, as the current call began
    alone,     \* history: nothing that uses the entry has overlapped the current call
    built      \* history: the clients built since the start or a shutdown

vars == <<client, lock, at, call, cache, shutdown, context, evicted, alone, built>>

InCall == {"evict", "prefill", "generate"}

\* Between its call and its second evict, seeding is as much in the way as a call.
Using == InCall \cup {"seeded", "cleaning"}

\* All tokens of the current prompt but the last, and the last.
Prompt(c) == [caller |-> c, number |-> call[c], part |-> "prompt"]
Last(c) == [caller |-> c, number |-> call[c], part |-> "last"]

Own(c) == {Prompt(c), Last(c)}

Init ==
    /\ client = FALSE /\ lock = None /\ shutdown = "no" /\ built = 0
    /\ at = [c \in Caller |-> "idle"] /\ call = [c \in Caller |-> 0]
    /\ cache = {} /\ context = [c \in Caller |-> {}]
    /\ evicted = [c \in Caller |-> FALSE] /\ alone = [c \in Caller |-> TRUE]

Goto(c, place) == at' = [at EXCEPT ![c] = place]

-----------------------------------------------------------------------------
(* _get_inference_fn                                                        *)

Ask(c) ==
    /\ at[c] = "idle" /\ call[c] < MaxCalls
    /\ Goto(c, "acquire")
    /\ call' = [call EXCEPT ![c] = @ + 1]
    /\ context' = [context EXCEPT ![c] = {}]
    /\ evicted' = [evicted EXCEPT ![c] = FALSE]
    /\ UNCHANGED <<client, lock, cache, shutdown, alone, built>>

\* Mutant: the client is tested and built under no lock.
AcquireNothing(c) ==
    /\ at[c] = "acquire"
    /\ Goto(c, "test")
    /\ UNCHANGED <<client, lock, call, cache, shutdown, context, evicted, alone, built>>

Acquire(c) ==
    /\ at[c] = "acquire" /\ lock = None
    /\ lock' = c
    /\ Goto(c, "test")
    /\ UNCHANGED <<client, call, cache, shutdown, context, evicted, alone, built>>

Test(c) ==
    /\ at[c] = "test"
    /\ Goto(c, IF client THEN "return" ELSE "build")
    /\ UNCHANGED <<client, lock, call, cache, shutdown, context, evicted, alone, built>>

\* Mutant: the lock is not released when the model server cannot be reached.
LockAfterFailure(c) == c

LockAfter(c) == None

Build(c) ==
    /\ at[c] = "build"
    /\ \/ client' = TRUE /\ built' = built + 1 /\ Goto(c, "return") /\ UNCHANGED lock
       \/ Goto(c, "idle") /\ lock' = LockAfter(c) /\ UNCHANGED <<client, built>>
    /\ UNCHANGED <<call, cache, shutdown, context, evicted, alone>>

\* What alone becomes when somebody starts to use the entry.
StillAlone == [d \in Caller |-> alone[d] /\ at[d] \notin InCall]

\* The call overlaps whoever is using the entry.
BeginCall(c) ==
    /\ Goto(c, "evict")
    /\ alone' = [StillAlone EXCEPT ![c] =
                    shutdown # "evicting" /\ \A d \in Caller \ {c} : at[d] \notin Using]

\* The global is read again to be returned: after a shutdown that came in between it is
\* None, and the call of it raises.
Return(c) ==
    /\ at[c] = "return"
    /\ lock' = None
    /\ \/ client /\ BeginCall(c)
       \/ ~client /\ Goto(c, "idle") /\ UNCHANGED alone
    /\ UNCHANGED <<client, call, cache, shutdown, context, evicted, built>>

-----------------------------------------------------------------------------
(* _inference                                                               *)

\* Mutant: the entry is evicted only by the first call.
EvictFirst(c, worked) == IF worked /\ call[c] = 1 THEN {} ELSE cache

AfterEvict(c, worked) == IF worked THEN {} ELSE cache

\* Whatever evict raises is ignored, also when the entry exists and stays.
Evict(c) ==
    /\ at[c] = "evict"
    /\ \E worked \in BOOLEAN :
         /\ cache' = AfterEvict(c, worked)
         /\ evicted' = [evicted EXCEPT ![c] = worked \/ cache = {}]
    /\ Goto(c, "prefill")
    /\ UNCHANGED <<client, lock, call, shutdown, context, alone, built>>

\* All the tokens but the last are added to the entry.
Prefill(c) ==
    /\ at[c] = "prefill"
    /\ cache' = cache \cup {Prompt(c)}
    /\ Goto(c, "generate")
    /\ UNCHANGED <<client, lock, call, shutdown, context, evicted, alone, built>>

\* The last token is added, nothing else is sent, and the answer is generated from
\* what is in the entry.
Generate(c) ==
    /\ at[c] = "generate"
    /\ cache' = cache \cup {Last(c)}
    /\ context' = [context EXCEPT ![c] = cache']
    /\ Goto(c, IF c = Seeding THEN "seeded" ELSE "idle")
    /\ UNCHANGED <<client, lock, call, shutdown, evicted, alone, built>>

\* The server fails a prefill, or a generation after some tokens.
CallRaises(c) ==
    /\ \/ at[c] = "prefill" /\ cache' \in {cache, cache \cup {Prompt(c)}}
       \/ at[c] = "generate" /\ cache' \in {cache, cache \cup {Last(c)}}
    /\ Goto(c, "idle")
    /\ UNCHANGED <<client, lock, call, shutdown, context, evicted, alone, built>>

\* The workflow may raise over its answer; otherwise the seeding function looks for a
\* client, under no lock.
LeaveSeeding(c) ==
    /\ at[c] = "seeded"
    /\ \/ client /\ Goto(c, "cleaning")
       \/ Goto(c, "idle")
    /\ UNCHANGED <<client, lock, call, cache, shutdown, context, evicted, alone, built>>

\* It evicts once more so that the conversation starts clean; a failure is logged.
EvictAfterSeeding(c) ==
    /\ at[c] = "cleaning"
    /\ cache' \in {{}, cache}
    /\ Goto(c, "idle")
    /\ UNCHANGED <<client, lock, call, shutdown, context, evicted, alone, built>>

-----------------------------------------------------------------------------
(* _shutdown_inference, which takes no lock                                 *)

ShutDown ==
    /\ shutdown = "no"
    /\ \/ client /\ shutdown' = "evicting" /\ alone' = StillAlone
       \/ ~client /\ shutdown' = "resetting" /\ UNCHANGED alone
    /\ UNCHANGED <<client, lock, at, call, cache, context, evicted, built>>

EvictAtShutdown ==
    /\ shutdown = "evicting"
    /\ cache' \in {{}, cache}
    /\ shutdown' = "resetting"
    /\ UNCHANGED <<client, lock, at, call, context, evicted, alone, built>>

\* The client is dropped, whether or not it is the one that was seen.
Reset ==
    /\ shutdown = "resetting"
    /\ client' = FALSE /\ built' = 0
    /\ shutdown' = "done"
    /\ UNCHANGED <<lock, at, call, cache, context, evicted, alone>>

CallerStep(c) == \/ Acquire(c) \/ Test(c) \/ Build(c) \/ Return(c)
                 \/ Evict(c) \/ Prefill(c) \/ Generate(c) \/ CallRaises(c)
                 \/ LeaveSeeding(c) \/ EvictAfterSeeding(c)

Next == \/ ShutDown \/ EvictAtShutdown \/ Reset
        \/ \E c \in Caller : Ask(c) \/ CallerStep(c)

Spec == Init /\ [][Next]_vars

\* A thread keeps running; no thread has to ask for an answer.
FairSpec == Spec /\ \A c \in Caller : WF_vars(CallerStep(c))
-----------------------------------------------------------------------------
(* Properties                                                               *)

\* __main__.py:168-174.  The client is a singleton: the lock lets one thread build
\* it, also when earlier attempts to build it failed and when it is dropped meanwhile.
OneClient == built <= 1

\* No caller is stuck behind the lock, although building the client may fail in
\* any thread that holds it, and the client may be gone when it is returned.
CallsEnd == \A c \in Caller : (at[c] = "acquire") ~> (at[c] = "idle")

\* __main__.py:147-157.  A call that nothing overlaps, neither a call nor the evict after
\* seeding or at shutdown, is answered from all of its own prompt; and from nothing else
\* if the evict before it worked, whatever calls that failed half way or polluted one
\* another have left in the entry.
OwnContextWhenAlone ==
    \A c \in Caller :
        at[c] = "idle" /\ alone[c] /\ context[c] # {} =>
            /\ Own(c) \subseteq context[c]
            /\ evicted[c] => context[c] = Own(c)

\* __main__.py:147.  Evicting before each call, when it works, keeps other calls'
\* context out.
OwnContext == \A c \in Caller : evicted[c] => context[c] \subseteq Own(c)
=============================================================================
