----------------------------- MODULE ThreadStack -----------------------------
(***************************************************************************)
(* The thread stack of a conversation (state/thread_stack.py): at most two *)
(* threads, ranked by a salience made of recency and depth, and beside     *)
(* them floating threads that only time removes.  Saliences, depths and    *)
(* weights are in thousandths.                                             *)
(***************************************************************************)
EXTENDS Integers, Sequences, FiniteSets, SequencesExt

CONSTANT Salience   \* SalienceConfig, as loaded from user.yaml

One == 1000

SalienceConfig ==
    [recencyDecay : 1..One, recencyFloor : 0..One, depthDecay : 0..One,
     depthBoostReference : 0..One, depthBoostStance : 0..One,
     recencyWeight : 0..One, depthWeight : 0..One, dropThreshold : 0..One,
     floatingDepthDecay : 0..One, floatingRecencyFloor : 0..One,
     floatingDropThreshold : 0..One, floatingMaxTurnsUnresolved : Nat]

ASSUME SalienceAssumption == Salience \in SalienceConfig

StackState == {"foreground", "peripheral"}

\* A ThreadStackEntry; entered_turn, which nothing reads, is left out.
Entry(Thread) ==
    [thread : Thread, state : StackState, salience : Nat, depth : 0..One, touched : Nat]

Times(a, b) == (a * b) \div One
Cap(x) == IF x > One THEN One ELSE x

\* A power of a positive number is positive, and so a thousandth at least.
NextPower(power) == LET next == Times(Salience.recencyDecay, power) IN IF next = 0 THEN 1 ELSE next

\* recency_decay to the power of n.
Power[n \in Nat] == IF n = 0 THEN One ELSE NextPower(Power[n - 1])

\* A turn suspended while later ones are answered looks back over a negative number
\* of turns, and finds a recency above 1.
Recency(floor, turns) ==
    LET decayed == IF turns >= 0 THEN Power[turns] ELSE (One * One) \div Power[-turns]
    IN floor + Times(One - floor, decayed)

Blend(recency, depth) ==
    Times(Salience.recencyWeight, recency) + Times(Salience.depthWeight, depth)

\* The elements of list that are at these places, in order.
Sublist(list, places) ==
    [n \in 1..Cardinality(places) |->
        list[CHOOSE i \in places : Cardinality({j \in places : j <= i}) = n]]

\* Mutant: a reference does not deepen the engagement.
DecayedDepth(e, referenced, moved) == Times(e.depth, Salience.depthDecay)

NewDepth(e, referenced, moved) ==
    IF referenced
    THEN Cap(e.depth + IF moved THEN Salience.depthBoostStance ELSE Salience.depthBoostReference)
    ELSE Times(e.depth, Salience.depthDecay)

\* update_salience.  The recency is that before the reference: touched is set last.
UpdateSalience(e, turn, referenced, moved) ==
    LET depth == NewDepth(e, referenced, moved)
    IN [e EXCEPT !.depth = depth,
                 !.salience = Cap(Blend(Recency(Salience.recencyFloor, turn - e.touched), depth)),
                 !.touched = IF referenced THEN turn ELSE @]

\* The first of the entries with the highest salience: sorted() is stable.
Leader(stack) ==
    CHOOSE i \in DOMAIN stack : \A j \in DOMAIN stack :
        \/ stack[j].salience < stack[i].salience
        \/ stack[j].salience = stack[i].salience /\ i <= j

\* assign_states
AssignStates(stack) ==
    [i \in DOMAIN stack |->
        [stack[i] EXCEPT !.state = IF i = Leader(stack) THEN "foreground" ELSE "peripheral"]]

TopTwo(stack) ==
    LET rest == RemoveAt(stack, Leader(stack)) IN <<stack[Leader(stack)], rest[Leader(rest)]>>

\* update_stack, its first result.
UpdateStack(stack, turn, referenced, moved) ==
    LET updated == [i \in DOMAIN stack |->
                      UpdateSalience(stack[i], turn, stack[i].thread \in referenced,
                                     stack[i].thread \in moved)]
        kept == Sublist(updated, {i \in DOMAIN updated :
                                    updated[i].salience >= Salience.dropThreshold})
    IN AssignStates(IF Len(kept) > 2 THEN TopTwo(kept) ELSE kept)

\* Mutant: the turn that reaches the limit already removes the thread.
BelowLimit(e, turn) == turn - e.touched < Salience.floatingMaxTurnsUnresolved

WithinLimit(e, turn) == turn - e.touched <= Salience.floatingMaxTurnsUnresolved

\* update_stack, its second result.  Nothing touches a floating thread again.
UpdateFloating(floating, turn) ==
    LET Decayed(e) ==
          LET depth == Times(e.depth, Salience.floatingDepthDecay)
          IN [e EXCEPT !.depth = depth,
                       !.salience = Blend(Recency(Salience.floatingRecencyFloor, turn - e.touched),
                                          depth)]
        decayed == [i \in DOMAIN floating |-> Decayed(floating[i])]
    IN Sublist(decayed, {i \in DOMAIN decayed :
                            /\ WithinLimit(decayed[i], turn)
                            /\ decayed[i].salience >= Salience.floatingDropThreshold})

NewEntry(thread, turn) ==
    [thread |-> thread, state |-> "foreground", salience |-> 500, depth |-> 0, touched |-> turn]

\* Mutant: the new entry keeps the state it was made with.
PushEntry(stack, thread, turn) ==
    Append(IF Len(stack) >= 2 THEN <<stack[Leader(stack)]>> ELSE stack, NewEntry(thread, turn))

\* add_thread_to_stack: a full stack keeps its foreground entry only.
AddThread(stack, thread, turn) ==
    AssignStates(Append(IF Len(stack) >= 2 THEN <<stack[Leader(stack)]>> ELSE stack,
                        NewEntry(thread, turn)))

\* add_floating_thread
AddFloating(floating, thread, turn) == Append(floating, NewEntry(thread, turn))
=============================================================================
