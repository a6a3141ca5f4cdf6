----------------------------- MODULE TextQueries -----------------------------
(***************************************************************************)
(* lerobot/rollout/inference/base.py: the task of an inference engine and  *)
(* the channel of one question to its policy, served by the thread that    *)
(* owns the policy.  A question is an operator's (its number) or a turn of *)
(* the autosteer sequencer (the number of the start_autosteer it is for,   *)
(* and the goal's text, which is all the code compares).                   *)
(***************************************************************************)
EXTENDS Integers

CONSTANTS
    Goals,          \* the texts given to start_autosteer
    MaxQuestions,
    MaxSteers       \* bounds the calls of start_autosteer

ASSUME QueryAssumption ==
    /\ {MaxQuestions, MaxSteers} \subseteq Nat
    /\ "none" \notin Goals

VARIABLES
    task,           \* _task: who set it, and when in the count of steers
    pending,        \* _pending_query
    inFlight,       \* _query_in_flight
    readyAnswers,   \* _ready_answers: how many to each question, 0 for turns
    goal,           \* _autosteer_goal
    steers,         \* how often start_autosteer was called
    asked,          \* how many questions ask() accepted
    resolved,       \* how often each was answered or reported dropped
    dropped,        \* what drop_pending_query returned, until it is reported
    rtc,            \* where the thread that owns the policy is
    query           \* the query it serves

queryVars == <<pending, inFlight, readyAnswers, goal, steers, asked>>
serviceVars == <<rtc, query>>

NoGoal == [text |-> "none", steer |-> 0]
NoQuery == [kind |-> "none", no |-> 0, text |-> "none"]
Question(n) == [kind |-> "vqa", no |-> n, text |-> "none"]
Turn(g) == [kind |-> "subtask", no |-> g.steer, text |-> g.text]

NoAnswers == [n \in 0 .. MaxQuestions |-> 0]

Queries ==
    {NoQuery} \cup {Question(n) : n \in 1 .. MaxQuestions}
        \cup {Turn(g) : g \in [text : Goals, steer : 1 .. MaxSteers]}

QueryTypeOK ==
    /\ task \in [by : {"operator", "policy"}, steer : 0 .. MaxSteers,
                 turn : 0 .. MaxSteers]
    /\ {pending, query, dropped} \subseteq Queries
    /\ inFlight \in BOOLEAN
    /\ readyAnswers \in [0 .. MaxQuestions -> Nat]
    /\ goal \in [text : Goals, steer : 1 .. MaxSteers] \cup {NoGoal}
    /\ steers \in 0 .. MaxSteers
    /\ asked \in 0 .. MaxQuestions
    /\ resolved \in [1 .. MaxQuestions -> Nat]
    /\ rtc \in {"top", "service", "generate", "publish", "signal", "dead"}

QueryInit ==
    /\ task = [by |-> "operator", steer |-> 0, turn |-> 0]
    /\ pending = NoQuery /\ query = NoQuery /\ dropped = NoQuery
    /\ inFlight = FALSE
    /\ readyAnswers = NoAnswers
    /\ goal = NoGoal
    /\ steers = 0
    /\ asked = 0
    /\ resolved = [n \in 1 .. MaxQuestions |-> 0]
    /\ rtc = "top"

-----------------------------------------------------------------------------
(* Called by other threads; each holds one lock.                           *)

OperatorTask == [by |-> "operator", steer |-> steers, turn |-> 0]

Ask ==
    /\ asked < MaxQuestions
    /\ pending = NoQuery
    /\ pending' = Question(asked + 1)
    /\ asked' = asked + 1
    /\ UNCHANGED <<inFlight, readyAnswers, goal, steers>>

StartAutosteer ==
    /\ steers < MaxSteers
    /\ \E text \in Goals : goal' = [text |-> text, steer |-> steers + 1]
    /\ steers' = steers + 1
    /\ UNCHANGED <<pending, inFlight, readyAnswers, asked>>

StopAutosteer ==
    /\ goal' = NoGoal
    /\ UNCHANGED <<pending, inFlight, readyAnswers, steers, asked>>

(* Mutant: only a turn that is still queued holds the next one back.       *)
ChannelLooksFree == pending = NoQuery

ChannelFree == pending = NoQuery /\ ~inFlight

(* Mutant: without a goal to ask for.                                      *)
QueueTurnAlways ==
    /\ ChannelFree
    /\ pending' = Turn(goal)
    /\ UNCHANGED <<inFlight, readyAnswers, goal, steers, asked>>

(* _poll_autosteer when the deadline has passed.                           *)
QueueTurn ==
    /\ goal # NoGoal
    /\ ChannelFree
    /\ pending' = Turn(goal)
    /\ UNCHANGED <<inFlight, readyAnswers, goal, steers, asked>>

(* _deliver_answer: every ready answer goes to the observer.               *)
DeliverAnswers ==
    /\ readyAnswers' = NoAnswers
    /\ resolved' = [n \in DOMAIN resolved |-> resolved[n] + readyAnswers[n]]
    /\ UNCHANGED <<pending, inFlight, goal, steers, asked>>

Subtask(q) == q.kind = "subtask"

(* Mutant: the question that is reported dropped stays queued.             *)
PendingKept == pending

PendingDropped == NoQuery

(* Mutant: every answer that was not delivered goes.                       *)
KeptNone == NoAnswers

KeptAnswers == [readyAnswers EXCEPT ![0] = 0]

(* At the end of a segment, after stop_autosteer.                          *)
DropPendingQuery ==
    /\ pending' = PendingDropped
    /\ dropped' = pending
    /\ UNCHANGED <<inFlight, readyAnswers, goal, steers, asked>>

DropReadySubtaskAnswers ==
    /\ readyAnswers' = KeptAnswers
    /\ UNCHANGED <<pending, inFlight, goal, steers, asked>>

-----------------------------------------------------------------------------
(* _service_query, on the thread that owns the policy.                     *)

ClaimQuery ==
    /\ rtc = "service"
    /\ pending # NoQuery
    /\ query' = pending
    /\ pending' = NoQuery
    /\ inFlight' = TRUE
    /\ rtc' = "generate"
    /\ UNCHANGED <<task, readyAnswers, goal, steers, asked, resolved>>

NothingToServe ==
    /\ rtc = "service"
    /\ pending = NoQuery
    /\ rtc' = "top"
    /\ UNCHANGED <<task, queryVars, resolved, query>>

Live == goal.text = query.text

(* An operator's question is answered, or fails; both are published.       *)
AnswerQuestion ==
    /\ rtc = "generate"
    /\ ~Subtask(query)
    /\ rtc' = "publish"
    /\ UNCHANGED <<task, queryVars, resolved, query>>

(* _apply_subtask and _fail_subtask of the sequencer that asked.           *)
ApplySubtask ==
    /\ rtc = "generate"
    /\ Subtask(query) /\ Live
    /\ task' = [by |-> "policy", steer |-> goal.steer, turn |-> query.no]
    /\ rtc' = "publish"
    /\ UNCHANGED <<queryVars, resolved, query>>

FailSubtask ==
    /\ rtc = "generate"
    /\ Subtask(query) /\ Live
    /\ goal' = NoGoal
    /\ rtc' = "publish"
    /\ UNCHANGED <<task, pending, inFlight, readyAnswers, steers, asked,
                   resolved, query>>

(* Mutant: the flag stays set when there is no answer to publish.          *)
FlagAfterDiscard == inFlight

FlagCleared == FALSE

(* The sequencer stopped or has another goal: nothing is published.        *)
DiscardTurn ==
    /\ rtc = "generate"
    /\ Subtask(query) /\ ~Live
    /\ inFlight' = FlagCleared
    /\ rtc' = "top"
    /\ UNCHANGED <<task, pending, readyAnswers, goal, steers, asked, resolved,
                   query>>

PublishAnswer ==
    /\ rtc = "publish"
    /\ inFlight' = FALSE
    /\ readyAnswers' =
            [readyAnswers EXCEPT ![IF Subtask(query) THEN 0 ELSE query.no] = @ + 1]
    /\ rtc' = "top"
    /\ UNCHANGED <<task, pending, goal, steers, asked, resolved, query>>

ServiceQuery ==
    \/ ClaimQuery \/ NothingToServe \/ AnswerQuestion \/ ApplySubtask
    \/ FailSubtask \/ DiscardTurn \/ PublishAnswer

-----------------------------------------------------------------------------
(* A subtask never replaces the task an operator set after the sequencer   *)
(* that asked for it was started: set_task stops the sequencer first, and  *)
(* the answer of a policy that took seconds is checked and applied at once *)
(* (base.py: "or a stale plan could overwrite a newer instruction").       *)
OperatorTaskKept ==
    [][task.by = "operator" /\ task'.by = "policy"
            => task'.steer > task.steer]_task

(* No question is answered twice, or reported dropped and answered.        *)
AnsweredOnce == \A n \in DOMAIN resolved : resolved[n] <= (IF n <= asked THEN 1 ELSE 0)

(* The sequencer has one turn at a time, queued, generated or published.   *)
OneTurnAtATime ==
    ~(Subtask(pending) /\ rtc \in {"generate", "publish"} /\ Subtask(query))

(* "Apply a generated subtask, unless the sequencer stopped meanwhile"     *)
(* (base.py), also when it was started again.                              *)
StoppedTurnsDiscarded == task.turn # 0 => task.turn = task.steer
=============================================================================
