----------------------------- MODULE Transcript ------------------------------
(***************************************************************************)
(* The working memory of one task of the native loop                         *)
(* (runtime/backends/native.py, runtime/transcript.py): the conversation it    *)
(* sends to the provider, the checkpoint it resumes from, the recap that      *)
(* replaces its older turns, and the notes put into it on the way - feedback   *)
(* left in task.input and news of the agent's channels.                      *)
(*                                                                         *)
(* What the tool calls of a step do is ApprovalGate's subject; here a step is  *)
(* the turns it leaves.  A running task may be interrupted at any point (its  *)
(* process dies, its job times out, a statement fails) and parks when a call  *)
(* needs an answer: either way its memory is gone, and it comes back from the  *)
(* checkpoint.                                                              *)
(***************************************************************************)
EXTENDS Integers, FiniteSets, SequencesExt

CONSTANTS
    Feedback,   \* the notes that may be left in task.input, each of them once
    Trigger,    \* settings.compaction_trigger_messages
    Keep,       \* settings.compaction_keep_recent_messages
    StepLimit,  \* settings.max_steps_per_task
    MaxCalls,   \* bound: tool calls in a step
    MaxSteps,   \* bound: steps that are checkpointed
    MaxPosts,   \* bound: messages in the agent's channels
    MaxStops    \* bound: times the task is interrupted or parks

ASSUME SettingsAssumption ==
    /\ Trigger \in Nat
    /\ Keep \in Nat \ {0}
    /\ StepLimit \in Nat
ASSUME LimitsAssumption == {MaxCalls, MaxSteps, MaxPosts, MaxStops} \subseteq Nat
ASSUME FeedbackAssumption == Feedback \cap Nat = {}

VARIABLES
    saved,      \* task.transcript; <<>> for none
    input,      \* the feedback in task.input
    watermark,  \* task.chat_seen_at; None before the first look
    posts,      \* messages in the agent's channels, the last one the newest
    pc,         \* where the task stands
    messages,   \* the conversation in memory
    newest,     \* the newest message that was seen, before the news is counted; 0 otherwise
    round,      \* steps taken by this execution
    refused,    \* the recap of this round was refused by the budget
    kept,       \* history: steps checkpointed since the task last began afresh
    given,      \* history: feedback the task was given
    late,       \* history: messages that came while the news was counted
    stops       \* times the task was interrupted or parked

durable == <<saved, input, watermark, posts>>
history == <<given, late>>
memoryVars == <<saved, input, watermark, posts, pc, messages, newest, round, refused, kept,
          given, late, stops>>

None == -1

Stages ==
    {"queued",     \* not running
     "resumed",    \* the conversation is rebuilt, the notes are not yet injected
     "boundary",   \* at the start of a step
     "recapped",   \* older turns replaced by a recap, not yet saved
     "nudging",    \* about to look at the channels
    "counting",   \* the newest message is seen, what is new not yet counted
     "asking",     \* calling the provider
     "acted",      \* the step's turns appended, not yet saved
     "done"}

\* A turn.  calls: the ids of its tool_use blocks (assistant) or tool_result blocks
\* (user); steps: those it recaps; notes: what it tells the agent.
Turn(role, calls, steps, notes) ==
    [role |-> role, calls |-> calls, steps |-> steps, notes |-> notes]
Seed == Turn("user", {}, {}, {})
Request(calls) == Turn("assistant", calls, {}, {})
Results(calls) == Turn("user", calls, {}, {})

-----------------------------------------------------------------------------
(* The pure functions.                                                      *)

\* Turn i of t is an assistant's with tool calls.
Asks(t, i) == i \in DOMAIN t /\ t[i].role = "assistant" /\ t[i].calls # {}

\* Turn i answers at least one call of the one before it.
Answers(t, i) == i \in DOMAIN t /\ t[i].role = "user" /\ t[i].calls # {} /\ Asks(t, i - 1)

\* What sanitize_messages makes of turn i: a call without an answer gets a placeholder
\* result, in the result turn that follows or in a new one.
Repaired(t, i) ==
    IF Asks(t, i) /\ ~Answers(t, i + 1) THEN <<t[i], Results(t[i].calls)>>
    ELSE IF Answers(t, i) THEN <<[t[i] EXCEPT !.calls = @ \cup t[i - 1].calls]>>
    ELSE <<t[i]>>

Sanitized(t) == FlattenSeq([i \in DOMAIN t |-> Repaired(t, i)])

\* Mutated: the history is cut where the tail has the wanted length.
SafeSplit_AnyTurn(t) == IF Len(t) > Keep + 1 THEN Len(t) - Keep ELSE 0

\* _safe_compaction_split: how many turns the recap replaces, at most all but Keep, so
\* that an assistant's turn comes next.
SafeSplit(t) ==
    LET target == IF Len(t) - Keep > 1 THEN Len(t) - Keep ELSE 1
        cuts == {i \in 1 .. target : t[i + 1].role = "assistant"}
    IN IF cuts = {} THEN 0 ELSE Max(cuts)

StepsOf(turn) == turn.steps \cup {c[1] : c \in turn.calls}

\* The recap's model is told everything the turns say; their blocks are gone.
Recap(t) ==
    Turn("user", {}, UNION {StepsOf(t[i]) : i \in DOMAIN t},
         UNION {t[i].notes : i \in DOMAIN t})

\* Mutated: the tail starts two turns late.
Compacted_TailShort(t) == <<Recap(SubSeq(t, 1, SafeSplit(t)))>>
    \o SubSeq(t, SafeSplit(t) + 3, Len(t))

Compacted(t) == <<Recap(SubSeq(t, 1, SafeSplit(t)))>> \o SubSeq(t, SafeSplit(t) + 1, Len(t))

\* The notes go into the trailing user turn, or into one of their own.
Noted(t, notes) ==
    IF notes = {} THEN t
    ELSE IF Last(t).role = "user" THEN [t EXCEPT ![Len(t)].notes = @ \cup notes]
    ELSE Append(t, Turn("user", {}, {}, notes))

-----------------------------------------------------------------------------
(* The task.                                                                *)

\* Step n with k calls.
CallsOf(n, k) == {<<n, i>> : i \in 1 .. k}

\* A transcript whose last step was cut short: results missing, some or all.
Interrupted ==
    {<<Seed, Request(CallsOf(1, 2))>>,
     <<Seed, Request(CallsOf(1, 2)), Results(CallsOf(1, 1))>>}

MemoryInit ==
    /\ \/ saved = <<>> /\ kept = 0
       \/ saved \in Interrupted /\ kept = 1
    /\ input = {}
    /\ watermark = None
    /\ posts = 0
    /\ pc = "queued"
    /\ messages = <<>>
    /\ newest = 0
    /\ round = 0
    /\ refused = FALSE
    /\ given = {}
    /\ late = {}
    /\ stops = 0

Idle == messages' = <<>> /\ newest' = 0 /\ round' = 0 /\ refused' = FALSE

\* _resume_or_seed.
Resume ==
    /\ pc = "queued"
    /\ messages' = (IF saved = <<>> THEN <<Seed>> ELSE Sanitized(saved))
    /\ pc' = "resumed"
    /\ UNCHANGED <<durable, newest, round, refused, kept, history, stops>>

\* _inject_resume_notes: the feedback is told, and removed from task.input.
InjectNotes ==
    /\ pc = "resumed"
    /\ messages' = Noted(messages, input)
    /\ input' = {}
    /\ pc' = "boundary"
    /\ UNCHANGED <<saved, watermark, posts, newest, round, refused, kept, history, stops>>

\* Mutated: the turn that opens the conversation is not counted.
Long_TailOnly == Len(Tail(messages)) > Trigger /\ SafeSplit(messages) > 1

Long == Len(messages) > Trigger /\ SafeSplit(messages) > 1

\* _maybe_compact: the older turns are summarised by another model call ...
Compact ==
    /\ pc = "boundary" /\ round < StepLimit
    /\ Long
    /\ messages' = Compacted(messages)
    /\ pc' = "recapped"
    /\ UNCHANGED <<durable, newest, round, refused, kept, history, stops>>

\* ... and the shorter conversation is saved.
SaveRecap ==
    /\ pc = "recapped"
    /\ saved' = messages
    /\ pc' = "nudging"
    /\ UNCHANGED <<input, watermark, posts, messages, newest, round, refused, kept, history,
                   stops>>

\* It is short enough, or the budget has no room for the summary.
KeepAll ==
    /\ pc = "boundary" /\ round < StepLimit
    /\ refused' = Long
    /\ pc' = "nudging"
    /\ UNCHANGED <<durable, messages, newest, round, kept, history, stops>>

\* _maybe_nudge_chat: the newest message of the agent's channels is read ...
Look ==
    /\ pc = "nudging"
    /\ newest' = posts
    /\ pc' = "counting"
    /\ UNCHANGED <<durable, messages, round, refused, kept, history, stops>>

\* Mutated: a channel's news is noted from a watermark that is not stored.
Nudge_NotStored ==
    /\ pc = "counting"
    /\ messages' = IF watermark = None THEN messages
                   ELSE Noted(messages, watermark + 1 .. posts)
    /\ watermark' = IF watermark = None /\ newest > 0 THEN newest ELSE watermark
    /\ newest' = 0
    /\ pc' = "asking"
    /\ UNCHANGED <<saved, input, posts, round, refused, kept, history, stops>>

\* ... then what is newer than the watermark is counted and noted, and the watermark
\* is moved to that newest message; the first look only sets it.
Nudge ==
    /\ pc = "counting"
    /\ messages' = IF watermark = None THEN messages
                   ELSE Noted(messages, watermark + 1 .. posts)
    /\ watermark' = IF newest > 0 THEN newest ELSE watermark
    /\ newest' = 0
    /\ pc' = "asking"
    /\ UNCHANGED <<saved, input, posts, round, refused, kept, history, stops>>

\* Mutated: the checkpoint is taken before the results are there.
Step_SavedEarly(k) ==
    /\ pc = "asking" /\ kept < MaxSteps
    /\ LET calls == CallsOf(kept + 1, k) IN
        /\ messages' = messages \o <<Request(calls), Results(calls)>>
        /\ saved' = Append(messages, Request(calls))
    /\ pc' = "acted"
    /\ UNCHANGED <<input, watermark, posts, newest, round, refused, kept, history, stops>>

\* The model answers with k calls and each gets its result: what it did, or that the
\* answer was cut off and nothing was done.
Step(k) ==
    /\ pc = "asking" /\ kept < MaxSteps
    /\ LET calls == CallsOf(kept + 1, k) IN
        messages' = messages \o <<Request(calls), Results(calls)>>
    /\ pc' = "acted"
    /\ UNCHANGED <<durable, newest, round, refused, kept, history, stops>>

\* _save_transcript at the end of the step.
Save ==
    /\ pc = "acted"
    /\ saved' = messages
    /\ kept' = kept + 1
    /\ round' = round + 1
    /\ refused' = FALSE
    /\ pc' = "boundary"
    /\ UNCHANGED <<input, watermark, posts, messages, newest, history, stops>>

\* A call parks the task, or its result is parked for a review; it comes back with an
\* answer in task.input, or with none.
Park(notes) ==
    /\ pc = "asking" /\ stops < MaxStops
    /\ stops' = stops + 1
    /\ pc' = "queued"
    /\ notes \cap given = {}
    /\ input' = input \cup notes
    /\ given' = given \cup notes
    /\ Idle
    /\ UNCHANGED <<saved, watermark, posts, kept, late>>

End ==
    /\ pc' = "done"
    /\ saved' = <<>> /\ kept' = 0
    /\ Idle
    /\ UNCHANGED <<input, watermark, posts, history, stops>>

\* The task reports, or runs out of steps: its transcript is dropped ...
Report == (pc = "asking" \/ (pc = "boundary" /\ round = StepLimit)) /\ End

\* ... as when the execution raises and nobody is to review the failure.
GiveUp == pc \notin {"queued", "done"} /\ End

\* The process dies, or a shutdown cancels the job: recovery queues the task again.
Interrupt ==
    /\ pc \notin {"queued", "done"} /\ stops < MaxStops
    /\ stops' = stops + 1
    /\ pc' = "queued"
    /\ Idle
    /\ UNCHANGED <<durable, kept, history>>

\* The execution raises, and the CEO has the task run again from its goal.
StartOver(notes) ==
    /\ pc \notin {"queued", "done"} /\ stops < MaxStops
    /\ stops' = stops + 1
    /\ pc' = "queued"
    /\ saved' = <<>> /\ kept' = 0
    /\ notes \cap given = {}
    /\ input' = input \cup notes
    /\ given' = given \cup notes
    /\ Idle
    /\ UNCHANGED <<watermark, posts, late>>

\* Someone else writes in a channel of the agent's.
Post ==
    /\ posts < MaxPosts /\ pc # "done"
    /\ posts' = posts + 1
    /\ late' = IF pc = "counting" THEN late \cup {posts'} ELSE late
    /\ UNCHANGED <<saved, input, watermark, pc, messages, newest, round, refused, kept, given,
                   stops>>

MemoryNext ==
    \/ Resume \/ InjectNotes
    \/ Compact \/ SaveRecap \/ KeepAll
    \/ Look \/ Nudge
    \/ \E k \in 1 .. MaxCalls : Step(k)
    \/ Save
    \/ \E notes \in SUBSET Feedback : Park(notes) \/ StartOver(notes)
    \/ Report \/ GiveUp \/ Interrupt
    \/ Post

MemorySpec == MemoryInit /\ [][MemoryNext]_memoryVars

-----------------------------------------------------------------------------
(* Properties.                                                              *)

\* A conversation a provider accepts: user and assistant in turn, the user first and
\* last, and every tool call answered in the turn that follows it, no other result.
WellFormed(t) ==
    /\ Len(t) % 2 = 1
    /\ \A i \in DOMAIN t :
        IF i % 2 = 1
        THEN t[i].role = "user" /\ t[i].calls = (IF i = 1 THEN {} ELSE t[i - 1].calls)
        ELSE t[i].role = "assistant"

\* Whatever was recapped, noted, cut short or resumed, the provider is never sent a
\* history it refuses.
ProviderAccepts == pc \in {"boundary", "nudging", "counting", "asking"} => WellFormed(messages)

\* "the persisted conversation is always a valid resume point" (_save_transcript): what
\* the loop saves needs no repair.
CheckpointIsClean ==
    saved \notin Interrupted \cup {<<>>} => WellFormed(saved) /\ Sanitized(saved) = saved

\* The conversation accounts for every checkpointed step once and in order: the first
\* ones in its recap, the others word for word.
Remembers ==
    pc \in {"boundary", "nudging", "counting", "asking"} =>
        LET recapped == Cardinality(messages[1].steps)
        IN  /\ messages[1].steps = 1 .. recapped
            /\ Len(messages) = 2 * (kept - recapped) + 1
            /\ \A i \in 1 .. kept - recapped : StepsOf(messages[2 * i]) = {recapped + i}

\* No note is told twice, across resumes from a checkpoint that has it already, but
\* the news of a message that came between the two reads of _maybe_nudge_chat.
NotedOnce ==
    \A i, j \in DOMAIN messages :
        i # j => messages[i].notes \cap messages[j].notes \subseteq late

\* Unless the budget refused the summary of this very round, the provider is sent no
\* more than the trigger's number of turns, however often it was refused before.
FitsWindow == pc = "asking" /\ ~refused => Len(messages) <= Trigger
=============================================================================
