----------------------------- MODULE Residency ------------------------------
(***************************************************************************)
(* Which checkpoints are in memory, and which agent a forward pass runs    *)
(* on: the model-loading half of InferenceEngine (engine/runtime.py).      *)
(*                                                                         *)
(* One thread at a time holds the inference slot (Engine!SlotExclusive);   *)
(* here it is "the slot thread", running a predict or the comparison of    *)
(* all checkpoints.  laya_load_models, laya_unload_models, tokenizer() and *)
(* validate() call the Router without the slot, so their Router calls fall *)
(* between any two steps of the slot thread.  laya.Router is external: an  *)
(* LRU list of at most MaxLoaded agents, each call atomic under its own    *)
(* lifecycle lock.  Every Router.load goes through the hook that prepares  *)
(* (quantizes) a new agent once.                                           *)
(***************************************************************************)
EXTENDS Naturals, Sequences, FiniteSets, Functions

CONSTANTS
    Models,     \* KNOWN_MODELS, in the order of the tuple: a sequence of names
    Preload,    \* Settings.preload_models: names without repetition
    MaxLoaded,  \* Settings.max_loaded
    Callers,    \* threads that load or unload outside the slot
    MaxAgents,  \* bound: agents ever built per checkpoint
    MaxCalls    \* bound: load, unload, tokenizer and validate calls, and agents that fail to prepare

Names == Range(Models)
Agents == [model : Names, gen : 1..MaxAgents]

Distinct(s) == \A i, j \in DOMAIN s : s[i] = s[j] => i = j
ASSUME ModelsAssumption == Models \in Seq(Names) /\ Models # <<>> /\ Distinct(Models)
ASSUME PreloadAssumption == Preload \in Seq(Names) /\ Distinct(Preload)
ASSUME BoundsAssumption ==
    MaxLoaded \in Nat \ {0} /\ MaxAgents \in Nat \ {0} /\ MaxCalls \in Nat

VARIABLES
    loaded,   \* router.loaded, least recently used first
    built,    \* agents built so far, per checkpoint
    quantized,\* how often each agent was prepared by _after_load
    slot,     \* the thread that holds the slot
    caller,   \* the threads outside it
    calls,    \* calls made outside the slot so far, and failures to prepare an agent
    sample,   \* the operation's last pass that _record averaged in: cold? Router left alone?
    last      \* the last comparison that ended: how, and the residents before and after

vars == <<loaded, built, quantized, slot, caller, calls, sample, last>>

IdleSlot == [pc |-> "idle", kind |-> "predict", todo |-> <<>>, resident |-> {}, model |-> Models[1],
             snap |-> {}, agent |-> [model |-> Models[1], gen |-> 1], cold |-> FALSE,
             abort |-> FALSE, cancelled |-> FALSE, calm |-> TRUE, still |-> TRUE]
IdleCaller == [pc |-> "idle", todo |-> {}, agent |-> IdleSlot.agent]

----------------------------------------------------------------------------
(* laya.Router (external).                                                 *)

Resident == {loaded[i].model : i \in DOMAIN loaded}
AgentOf(m) == CHOOSE a \in Range(loaded) : a.model = m
Position(m) == CHOOSE i \in DOMAIN loaded : loaded[i].model = m
Without(m) ==
    IF m \notin Resident THEN loaded
    ELSE [i \in 1..(Len(loaded) - 1) |-> loaded[IF i < Position(m) THEN i ELSE i + 1]]

\* An agent is appended as the most recently used one; over the cap the head goes.
Touch(agents, a) ==
    LET grown == Append(agents, a) IN
    IF Len(grown) > MaxLoaded THEN Tail(grown) ELSE grown

\* Router.load: the resident agent, or a new one.
RouterLoad(m) ==
    IF m \in Resident
    THEN loaded' = Append(Without(m), AgentOf(m)) /\ UNCHANGED built
    ELSE /\ built[m] < MaxAgents
         /\ built' = [built EXCEPT ![m] = built[m] + 1]
         /\ loaded' = Touch(loaded, [model |-> m, gen |-> built[m] + 1])
Loaded(m) == CHOOSE a \in Range(loaded') : a.model = m

\* The hook's first half returned agent a; _after_load, under _hook_lock, prepares
\* it unless it is marked as seen.
\* (Mutant first: it is not marked.)
AfterLoadUnmarked(a) == quantized' = [quantized EXCEPT ![a] = quantized[a] + 1]
AfterLoad(a) ==
    quantized' = [quantized EXCEPT ![a] = IF quantized[a] > 0 THEN quantized[a] ELSE 1]

----------------------------------------------------------------------------
(* The slot thread.                                                        *)

\* sorted(KNOWN_MODELS, key=...): the residents first, else the order of the
\* tuple (the one sequence in this set).
Sorted(resident) ==
    {s \in [DOMAIN Models -> Names] : \A x, y \in DOMAIN s : x < y =>
        \/ s[x] \in resident /\ s[y] \notin resident
        \/ /\ s[x] \in resident <=> s[y] \in resident
           /\ \E i, j \in DOMAIN Models : i < j /\ Models[i] = s[x] /\ Models[j] = s[y]}

\* What is remembered of the last operation goes when the next one begins.
NoSample == [cold |-> FALSE, still |-> TRUE]
NoneEnded == [end |-> "none", before |-> {}, after |-> {}, calm |-> TRUE]
Forget == sample' = NoSample /\ last' = NoneEnded

\* predict, predict_blocking: _forward reads router.loaded, then calls the Router.
Predict(m) ==
    /\ slot.pc = "idle"
    /\ slot' = [IdleSlot EXCEPT !.pc = "load", !.model = m, !.snap = Resident]
    /\ Forget
    /\ UNCHANGED <<loaded, built, quantized, caller, calls>>

\* predict_all_models -> _compare: what is resident now decides the order, and
\* what is unloaded after its pass.
Compare ==
    /\ slot.pc = "idle"
    /\ \E order \in Sorted(Resident) :
         slot' = [IdleSlot EXCEPT !.pc = "next", !.kind = "compare", !.todo = order, !.resident = Resident]
    /\ Forget
    /\ UNCHANGED <<loaded, built, quantized, caller, calls>>

\* The caller of the comparison times out or goes away.
GiveUp ==
    /\ slot.kind = "compare" /\ slot.pc # "idle" /\ ~slot.cancelled
    /\ slot' = [slot EXCEPT !.cancelled = TRUE]
    /\ UNCHANGED <<loaded, built, quantized, caller, calls, sample, last>>

CompareEnds(end) ==
    /\ slot' = IdleSlot
    /\ last' = [end |-> end, before |-> slot.resident, after |-> Resident, calm |-> slot.calm]

\* The head of the loop over the checkpoints.
NextModel ==
    /\ slot.pc = "next" /\ slot.todo # <<>>
    /\ IF slot.cancelled
       THEN CompareEnds("cancelled")
       ELSE /\ slot' = [slot EXCEPT !.pc = "load", !.model = Head(slot.todo), !.todo = Tail(slot.todo),
                                    !.snap = Resident, !.still = TRUE]
            /\ UNCHANGED last
    /\ UNCHANGED <<loaded, built, quantized, caller, calls, sample>>

\* Router.predict, or the reloading loop, gets its agent from the hooked load ...
SlotLoads ==
    /\ slot.pc = "load" /\ RouterLoad(slot.model)
    /\ slot' = [slot EXCEPT !.pc = "hook", !.agent = Loaded(slot.model), !.cold = slot.model \notin Resident]
    /\ UNCHANGED <<quantized, caller, calls, sample, last>>

\* (Mutant: an agent that was resident already skips the hook's lock.)
SlotHookFastPath ==
    /\ slot.pc = "hook"
    /\ IF slot.cold THEN AfterLoad(slot.agent) ELSE UNCHANGED quantized
    /\ slot' = [slot EXCEPT !.pc = IF slot.kind = "rewarm" THEN "reload" ELSE "pass"]
    /\ UNCHANGED <<loaded, built, caller, calls, sample, last>>
SlotHook ==
    /\ slot.pc = "hook" /\ AfterLoad(slot.agent)
    /\ slot' = [slot EXCEPT !.pc = IF slot.kind = "rewarm" THEN "reload" ELSE "pass"]
    /\ UNCHANGED <<loaded, built, caller, calls, sample, last>>

AfterForward(invalid) ==
    slot' = IF slot.kind = "predict" THEN IdleSlot
            ELSE [slot EXCEPT !.pc = "clean", !.abort = invalid, !.snap = {}, !.agent = IdleSlot.agent,
                              !.cold = FALSE, !.still = TRUE]

\* (Mutant: every pass is averaged in, cold ones too.)
PassEndsRecordsAll ==
    /\ slot.pc = "pass" /\ AfterForward(FALSE)
    /\ sample' = [cold |-> slot.cold, still |-> slot.still]
    /\ UNCHANGED <<loaded, built, quantized, caller, calls, last>>
\* The pass returns: its time is averaged into ms_per_row unless the checkpoint
\* was not resident when _forward began.
PassEnds ==
    /\ slot.pc = "pass" /\ AfterForward(FALSE)
    /\ sample' = IF slot.model \in slot.snap THEN [cold |-> slot.cold, still |-> slot.still] ELSE sample
    /\ UNCHANGED <<loaded, built, quantized, caller, calls, last>>

\* The pass raises: a question the model cannot answer (InvalidQuestions aborts the
\* comparison), or any other error (which becomes that checkpoint's result).
PassRaises(invalid) ==
    /\ slot.pc = "pass" /\ AfterForward(invalid)
    /\ UNCHANGED <<loaded, built, quantized, caller, calls, sample, last>>

\* The checkpoint cannot be loaded; the Router may have made room for it already.
LoadRaises ==
    /\ slot.pc = "load" /\ slot.model \notin Resident
    /\ loaded' \in {loaded} \cup (IF Len(loaded) = MaxLoaded THEN {Tail(loaded)} ELSE {})
    /\ IF slot.kind = "rewarm"
       THEN /\ slot' = IdleSlot
            /\ last' = [end |-> "raised", before |-> slot.resident, calm |-> slot.calm,
                        after |-> {loaded'[i].model : i \in DOMAIN loaded'}]
       ELSE AfterForward(FALSE) /\ UNCHANGED last
    /\ UNCHANGED <<built, quantized, caller, calls, sample>>

\* Preparing the agent raises: the Router keeps it, and it is not marked as seen.
PrepareRaises ==
    /\ slot.pc = "hook" /\ quantized[slot.agent] = 0 /\ calls < MaxCalls
    /\ IF slot.kind = "rewarm" THEN CompareEnds("raised") ELSE AfterForward(FALSE) /\ UNCHANGED last
    /\ calls' = calls + 1
    /\ UNCHANGED <<loaded, built, quantized, caller, sample>>

\* The finally clause: a checkpoint that was not resident at the start goes again.
\* (Mutant first: not when the comparison is aborted.)
CleanUnlessAborted ==
    /\ slot.pc = "clean"
    /\ loaded' = IF slot.abort \/ slot.model \in slot.resident THEN loaded ELSE Without(slot.model)
    /\ IF slot.abort
       THEN /\ slot' = IdleSlot
            /\ last' = [end |-> "raised", before |-> slot.resident, calm |-> slot.calm,
                        after |-> {loaded'[i].model : i \in DOMAIN loaded'}]
       ELSE /\ slot' = [slot EXCEPT !.pc = "next"]
            /\ UNCHANGED last
    /\ UNCHANGED <<built, quantized, caller, calls, sample>>
Clean ==
    /\ slot.pc = "clean"
    /\ loaded' = IF slot.model \in slot.resident THEN loaded ELSE Without(slot.model)
    /\ IF slot.abort
       THEN /\ slot' = IdleSlot
            /\ last' = [end |-> "raised", before |-> slot.resident, calm |-> slot.calm,
                        after |-> {loaded'[i].model : i \in DOMAIN loaded'}]
       ELSE /\ slot' = [slot EXCEPT !.pc = "next"]
            /\ UNCHANGED last
    /\ UNCHANGED <<built, quantized, caller, calls, sample>>

\* After the loop, preloaded checkpoints that were resident are loaded again.
\* (Mutant first: they are not.)
NoReload ==
    /\ slot.pc = "next" /\ slot.todo = <<>> /\ CompareEnds("completed")
    /\ UNCHANGED <<loaded, built, quantized, caller, calls, sample>>
BeginReload ==
    /\ slot.pc = "next" /\ slot.todo = <<>>
    /\ slot' = [slot EXCEPT !.pc = "reload", !.kind = "rewarm", !.todo = Preload]
    /\ UNCHANGED <<loaded, built, quantized, caller, calls, sample, last>>
Reload ==
    /\ slot.pc = "reload"
    /\ IF slot.todo = <<>>
       THEN CompareEnds("completed")
       ELSE LET m == Head(slot.todo) IN
            /\ slot' = [slot EXCEPT !.todo = Tail(slot.todo), !.model = m,
                                    !.pc = IF m \in slot.resident \ Resident THEN "load" ELSE "reload"]
            /\ UNCHANGED last
    /\ UNCHANGED <<loaded, built, quantized, caller, calls, sample>>

Slot ==
    \/ \E m \in Names : Predict(m)
    \/ Compare \/ GiveUp \/ NextModel \/ SlotLoads \/ SlotHook \/ PassEnds \/ LoadRaises \/ PrepareRaises
    \/ \E invalid \in BOOLEAN : PassRaises(invalid)
    \/ Clean \/ BeginReload \/ Reload

----------------------------------------------------------------------------
(* Calls outside the slot.                                                 *)

Begin(t, pc, names) ==
    /\ caller[t].pc = "idle" /\ calls < MaxCalls
    /\ calls' = calls + 1
    /\ caller' = [caller EXCEPT ![t] = [IdleCaller EXCEPT !.pc = pc, !.todo = names]]
    /\ UNCHANGED <<loaded, built, quantized, slot, sample, last>>

\* laya_load_models -> load (and tokenizer, which is the load of one checkpoint).
Load(t) == \E names \in SUBSET Names \ {{}} : Begin(t, "load", names)
\* laya_unload_models -> unload, of some checkpoints or of all.
Unload(t) == \E names \in SUBSET Names \ {{}} : Begin(t, "unload", names)
\* validate loads only what it has just seen to be loaded, to get at its tokenizer.
Validate(t) == \E m \in Resident : Begin(t, "load", {m})

\* The slot thread's view of the Router is disturbed.
Disturb == slot' = [slot EXCEPT !.calm = FALSE, !.still = FALSE]

CallerLoads(t) ==
    /\ caller[t].pc = "load"
    /\ \E m \in caller[t].todo :
         /\ RouterLoad(m)
         /\ caller' = [caller EXCEPT ![t] = [pc |-> "hook", todo |-> caller[t].todo \ {m}, agent |-> Loaded(m)]]
    /\ Disturb
    /\ UNCHANGED <<quantized, calls, sample, last>>

CallerHook(t) ==
    /\ caller[t].pc = "hook" /\ AfterLoad(caller[t].agent)
    /\ caller' = [caller EXCEPT ![t] = IF caller[t].todo = {} THEN IdleCaller
                                       ELSE [caller[t] EXCEPT !.pc = "load", !.agent = IdleSlot.agent]]
    /\ UNCHANGED <<loaded, built, slot, calls, sample, last>>

\* A checkpoint that cannot be prepared or loaded ends the call.
CallerPrepareRaises(t) ==
    /\ caller[t].pc = "hook" /\ quantized[caller[t].agent] = 0 /\ calls < MaxCalls
    /\ caller' = [caller EXCEPT ![t] = IdleCaller]
    /\ calls' = calls + 1
    /\ UNCHANGED <<loaded, built, quantized, slot, sample, last>>
CallerLoadRaises(t) ==
    /\ caller[t].pc = "load"
    /\ \E m \in caller[t].todo \ Resident :
         loaded' \in {loaded} \cup (IF Len(loaded) = MaxLoaded THEN {Tail(loaded)} ELSE {})
    /\ caller' = [caller EXCEPT ![t] = IdleCaller]
    /\ Disturb
    /\ UNCHANGED <<built, quantized, calls, sample, last>>

CallerUnloads(t) ==
    /\ caller[t].pc = "unload"
    /\ \E m \in caller[t].todo :
         /\ loaded' = Without(m)
         /\ caller' = [caller EXCEPT ![t] = IF caller[t].todo = {m} THEN IdleCaller
                                            ELSE [caller[t] EXCEPT !.todo = caller[t].todo \ {m}]]
    /\ Disturb
    /\ UNCHANGED <<built, quantized, calls, sample, last>>

Outside(t) ==
    Load(t) \/ Unload(t) \/ Validate(t) \/ CallerLoads(t) \/ CallerHook(t)
    \/ CallerPrepareRaises(t) \/ CallerLoadRaises(t) \/ CallerUnloads(t)

\* _start_blocking has preloaded (each agent through the hook) and warmed up; with
\* more names than the cap the last ones stay.
Kept == IF Len(Preload) > MaxLoaded THEN SubSeq(Preload, Len(Preload) - MaxLoaded + 1, Len(Preload)) ELSE Preload
Init ==
    /\ loaded = [i \in DOMAIN Kept |-> [model |-> Kept[i], gen |-> 1]]
    /\ built = [m \in Names |-> IF m \in Range(Preload) THEN 1 ELSE 0]
    /\ quantized = [a \in Agents |-> IF a.gen = 1 /\ a.model \in Range(Preload) THEN 1 ELSE 0]
    /\ slot = IdleSlot
    /\ caller = [t \in Callers |-> IdleCaller]
    /\ calls = 0
    /\ sample = NoSample
    /\ last = NoneEnded

Next == Slot \/ \E t \in Callers : Outside(t)
Spec == Init /\ [][Next]_vars

----------------------------------------------------------------------------
(* Properties.                                                             *)

Slots == [pc : {"idle", "next", "load", "hook", "pass", "clean", "reload"},
          kind : {"predict", "compare", "rewarm"}, todo : Seq(Names),
          resident : SUBSET Names, model : Names, snap : SUBSET Names, agent : Agents,
          cold : BOOLEAN, abort : BOOLEAN, cancelled : BOOLEAN, calm : BOOLEAN, still : BOOLEAN]
Outsiders == [pc : {"idle", "load", "hook", "unload"}, todo : SUBSET Names, agent : Agents]

\* The Router holds at most MaxLoaded agents, of different checkpoints, and no
\* agent is prepared twice (the mark set by _after_load).
TypeOK ==
    /\ loaded \in Seq(Agents) /\ Len(loaded) <= MaxLoaded
    /\ \A i, j \in DOMAIN loaded : loaded[i].model = loaded[j].model => i = j
    /\ built \in [Names -> 0..MaxAgents] /\ quantized \in [Agents -> 0..1]
    /\ slot \in Slots /\ caller \in [Callers -> Outsiders] /\ calls \in 0..MaxCalls
    /\ sample \in [cold : BOOLEAN, still : BOOLEAN]
    /\ last \in [end : {"none", "completed", "cancelled", "raised"}, before : SUBSET Names,
                 after : SUBSET Names, calm : BOOLEAN]

\* Whoever built the agent, and however it was evicted and rebuilt meanwhile, a
\* forward pass runs on an agent that was prepared exactly once (the load hook:
\* the slot thread waits for _hook_lock when another thread is preparing it).
RunsOnPrepared == slot.pc = "pass" => quantized[slot.agent] = 1

\* A comparison that nobody disturbed leaves no checkpoint in memory that was not
\* there before, also when it was cancelled, rejected or a checkpoint failed
\* (the finally clause of _compare).
NothingLeftBehind == last.calm => last.after \subseteq last.before

\* A comparison that completed undisturbed ends with every preloaded checkpoint
\* resident that was resident before (the reloading loop of _compare).
PreloadedWarm ==
    last.calm /\ last.end = "completed" => Range(Preload) \cap last.before \subseteq last.after

\* ms_per_row averages in a pass that had to build its checkpoint only when another
\* thread took that checkpoint away after _forward looked.
SampledWarm == sample.cold => ~sample.still
=============================================================================
