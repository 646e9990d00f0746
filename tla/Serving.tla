------------------------------ MODULE Serving ------------------------------
(***************************************************************************)
(* The life of a request over HTTP: the accept loop and the connections'   *)
(* threads (server/api.hpp: Front, Api::generate), the request's channel   *)
(* and the scheduler's intake (server/scheduler.hpp: Request, submit, run, *)
(* retire, step, finish, stop), and the order serve stops them in.         *)
(*                                                                         *)
(* What a pass computes and the order its stages run in are module Round's:*)
(* here a request flies or does not.  A token is TRUE where it carries the *)
(* logits row its log-probabilities are computed from.  What the           *)
(* scheduler's thread does while it holds m_, from a look at the wake      *)
(* condition to the sweep or the sleep, and admission, is one step.        *)
(***************************************************************************)
EXTENDS Integers, Sequences, FiniteSets, SequencesExt

CONSTANTS
    Conns,        \* clients, each with one connection and one request
    Logprobs,     \* those that ask for log-probabilities
    MaxSeqs,      \* max_seqs_
    MaxQueue,     \* max_queue_
    RowsWaiting,  \* kRowsWaiting
    MaxPicks,     \* the tokens a pass may draw for a request: its drafts and one more
    MaxTokens,    \* per request, params_.max_tokens
    MaxPauses     \* bound: pauses of all requests

ASSUME ServingAssumption ==
    /\ Logprobs \subseteq Conns /\ IsFiniteSet(Conns)
    /\ {MaxSeqs, MaxQueue, RowsWaiting, MaxPicks} \subseteq Nat \ {0}
    /\ MaxTokens \in [Conns -> Nat \ {0}] /\ MaxPauses \in Nat

VARIABLES
    closed,     \* the listener is
    main,       \* where serve is
    open,       \* open_: the connections' threads
    client,     \* per client, whether it calls, is there or has left
    conn,       \* per connection, where its thread is
    got,        \* the tokens its thread took into the reply
    sched,      \* where the scheduler's thread is
    place,      \* per request, the line it is in
    line,       \* the paused and the queued requests in their order
    flying,     \* the requests in a pass in flight
    pauses,
    cancelled,  \* cancel_
    over,       \* finish_pending_
    drawn,      \* gen_.size()
    out,        \* out_
    rows,       \* rows_
    picks       \* the request being stepped and its tokens not yet pushed

channel == <<out, rows>>
listening == <<closed, main, open>>
lines == <<place, line, flying, pauses, over>>
vars == <<listening, client, conn, got, sched, lines, cancelled, drawn, channel, picks>>

Active == {c \in Conns : place[c] = "active"}
Stopping == main \in {"join", "drain", "returned"}
NoPicks == [of |-> {}, tokens |-> <<>>]
RowsOf(tokens) == Cardinality({i \in DOMAIN tokens : tokens[i]})
Woken == IF sched = "asleep" THEN "look" ELSE sched

\* The tokens, rows and places have their types, and rows_ counts the rows.
TypeOK ==
    /\ closed \in BOOLEAN /\ main \in {"wait", "join", "drain", "returned"}
    /\ open \in 0..Cardinality(Conns)
    /\ client \in [Conns -> {"calling", "there", "left"}]
    /\ conn \in [Conns -> {"none", "read", "next", "write", "answer", "drop", "done"}]
    /\ \A c \in Conns : got[c] \in 0..drawn[c] /\ drawn[c] \in 0..MaxTokens[c]
    /\ sched \in {"look", "asleep", "retire", "step", "grow", "abort", "clear", "ended"}
    /\ place \in [Conns -> {"none", "queue", "paused", "active", "ended"}]
    /\ IsInjective(line) /\ ToSet(line) = {c \in Conns : place[c] \in {"queue", "paused"}}
    /\ flying \subseteq Active /\ cancelled \subseteq Conns /\ over \subseteq Conns
    /\ \A c \in Conns : out[c] \in Seq(BOOLEAN) /\ rows[c] = RowsOf(out[c])
    /\ picks.of \subseteq Conns /\ picks.tokens \in Seq(BOOLEAN)

Init ==
    /\ closed = FALSE /\ main = "wait" /\ open = 0
    /\ client = [c \in Conns |-> "calling"] /\ conn = [c \in Conns |-> "none"]
    /\ got = [c \in Conns |-> 0] /\ sched = "look" /\ place = [c \in Conns |-> "none"]
    /\ line = <<>> /\ flying = {} /\ pauses = 0 /\ over = {} /\ cancelled = {}
    /\ drawn = [c \in Conns |-> 0] /\ out = [c \in Conns |-> <<>>]
    /\ rows = [c \in Conns |-> 0] /\ picks = NoPicks

-----------------------------------------------------------------------------
\* The accept loop, the signal that closes the listener, and serve.
Accept(c) ==
    /\ ~closed /\ client[c] = "calling"
    /\ client' = [client EXCEPT ![c] = "there"]
    /\ open' = open + 1 /\ conn' = [conn EXCEPT ![c] = "read"]
    /\ UNCHANGED <<closed, main, got, sched, lines, cancelled, drawn, channel, picks>>

Close ==
    /\ ~closed /\ closed' = TRUE
    /\ UNCHANGED <<main, open, client, conn, got, sched, lines, cancelled, drawn, channel, picks>>

HangUp(c) ==
    /\ client[c] = "there" /\ client' = [client EXCEPT ![c] = "left"]
    /\ UNCHANGED <<listening, conn, got, sched, lines, cancelled, drawn, channel, picks>>

Bad_Drained == open <= 1
\* drain: every connection's thread has ended.
Drained == open = 0

\* front.wait for the accept loop, which a closed listener ends, sched.stop,
\* runner.join, front.drain.
Serve ==
    /\ \/ main = "wait" /\ closed /\ main' = "join" /\ sched' = Woken
       \/ main = "join" /\ sched = "ended" /\ main' = "drain" /\ UNCHANGED sched
       \/ main = "drain" /\ Drained /\ main' = "returned" /\ UNCHANGED sched
    /\ UNCHANGED <<closed, open, client, conn, got, lines, cancelled, drawn, channel, picks>>

-----------------------------------------------------------------------------
\* A connection's thread.
Goes(c, to) == conn' = [conn EXCEPT ![c] = to]
Away(c) == client[c] = "left"

\* The thread's end, and the request's, which the scheduler's thread has ended.
Leaves(c) ==
    /\ Goes(c, "done") /\ open' = open - 1
    /\ got' = [got EXCEPT ![c] = 0] /\ drawn' = [drawn EXCEPT ![c] = 0]
    /\ cancelled' = cancelled \ {c} /\ over' = over \ {c}
    /\ UNCHANGED <<closed, main, client, sched, place, line, flying, pauses, channel, picks>>

\* A request that is no generation, is malformed or finds the queue full.
Refuse(c) == conn[c] = "read" /\ Leaves(c)

Bad_Roused == sched
\* submit notifies the scheduler's thread.
Roused == Woken

Submit(c) ==
    /\ conn[c] = "read" /\ ~Away(c)
    /\ Cardinality({r \in Conns : place[r] = "queue"}) < MaxQueue
    /\ place' = [place EXCEPT ![c] = "queue"] /\ line' = Append(line, c)
    /\ sched' = Roused /\ Goes(c, "next")
    /\ UNCHANGED <<listening, client, got, flying, pauses, over, cancelled, drawn, channel, picks>>

Bad_Counted(c) == rows[c]
\* next, under the lock: a token that carries a row is one fewer.
Counted(c) == rows[c] - (IF Head(out[c]) THEN 1 ELSE 0)
Pop(c) ==
    /\ out[c] # <<>>
    /\ out' = [out EXCEPT ![c] = Tail(@)]
    /\ rows' = [rows EXCEPT ![c] = Counted(c)]

Bad_Finished(c) == place[c] = "ended"
\* next ends once the channel is empty too.
Finished(c) == place[c] = "ended" /\ out[c] = <<>>

NextToken(c) ==
    /\ conn[c] = "next" /\ ~Finished(c) /\ Pop(c) /\ Goes(c, "write")
    /\ UNCHANGED <<listening, client, got, sched, lines, cancelled, drawn, picks>>

NextEnds(c) ==
    /\ conn[c] = "next" /\ Finished(c) /\ Goes(c, "answer")
    /\ UNCHANGED <<listening, client, got, sched, lines, cancelled, drawn, channel, picks>>

\* The client went away: its request is cancelled, and read to its end.
Gone(c) == Away(c) /\ Goes(c, "drop") /\ cancelled' = cancelled \cup {c}

\* At a timeout the client is looked at.
Timeout(c) ==
    /\ conn[c] = "next" /\ ~Finished(c) /\ out[c] = <<>> /\ Gone(c)
    /\ UNCHANGED <<listening, client, got, sched, lines, drawn, channel, picks>>

\* The client is looked at every kProbe; the token goes into the reply, which a
\* first tool call's close cuts, and out, which throws where the client left.
Write(c) ==
    /\ conn[c] = "write"
    /\ \/ Gone(c) /\ UNCHANGED got
       \/ c \in cancelled /\ Goes(c, "next") /\ UNCHANGED <<got, cancelled>>
       \/ /\ c \notin cancelled /\ got' = [got EXCEPT ![c] = @ + 1]
          /\ \/ Goes(c, "next") /\ cancelled' \in {cancelled, cancelled \cup {c}}
             \/ Gone(c)
    /\ UNCHANGED <<listening, client, sched, lines, drawn, channel, picks>>

\* The end of the reply.
Answer(c) ==
    /\ conn[c] = "answer"
    /\ \/ Leaves(c)
       \/ Gone(c) /\ UNCHANGED <<listening, client, got, sched, lines, drawn, channel, picks>>

Drop(c) ==
    /\ conn[c] = "drop"
    /\ \/ Finished(c) /\ Leaves(c)
       \/ Pop(c) /\ UNCHANGED <<listening, client, conn, got, sched, lines, cancelled, drawn, picks>>

-----------------------------------------------------------------------------
\* The scheduler's thread.
Ends(cs) == place' = [c \in Conns |-> IF c \in cs THEN "ended" ELSE place[c]]

\* The line as the requests of cs leave it.
Without(cs) ==
    LET kept[i \in 0..Len(line)] ==
            IF i = 0 THEN <<>> ELSE IF line[i] \in cs THEN kept[i - 1] ELSE Append(kept[i - 1], line[i])
    IN  kept[Len(line)]

\* The wait, and the sweep of the waiting requests whose clients left.
Look ==
    /\ sched = "look"
    /\ IF Stopping THEN sched' = "abort" /\ UNCHANGED <<place, line>>
       ELSE IF line = <<>> /\ Active = {} THEN sched' = "asleep" /\ UNCHANGED <<place, line>>
       ELSE /\ sched' = "retire" /\ line' = Without(cancelled)
            /\ Ends(ToSet(line) \cap cancelled)
    /\ UNCHANGED <<listening, client, conn, got, flying, pauses, over, cancelled, drawn, channel, picks>>

Bad_Copies(c) == RowsWaiting
\* The rows a draw may copy: none once kRowsWaiting tokens wait with theirs.
Copies(c) == IF c \in Logprobs /\ rows[c] < RowsWaiting THEN RowsWaiting - rows[c] ELSE 0

\* draw and step: n tokens for the channel, the first Copies with their rows.
\* A request cancelled in flight is not sampled.
Retire(c) ==
    /\ sched = "retire" /\ c \in flying /\ flying' = flying \ {c}
    /\ \/ /\ c \in cancelled /\ UNCHANGED <<sched, over, drawn, picks>>
       \/ /\ c \notin cancelled
          /\ \E n \in 0..MaxPicks, last \in BOOLEAN :
                /\ drawn[c] + n <= MaxTokens[c] /\ (n = 0 => last)
                /\ drawn' = [drawn EXCEPT ![c] = @ + n]
                /\ over' = IF last \/ drawn[c] + n = MaxTokens[c] THEN over \cup {c} ELSE over
                /\ picks' = IF n = 0 THEN NoPicks
                             ELSE [of |-> {c}, tokens |-> [i \in 1..n |-> i <= Copies(c)]]
                /\ sched' = IF n = 0 THEN "retire" ELSE "step"
    /\ UNCHANGED <<listening, client, conn, got, place, line, pauses, cancelled, channel>>

\* step and push, a token at a time under the request's lock.
Step ==
    /\ sched = "step"
    /\ \E c \in picks.of :
        /\ out' = [out EXCEPT ![c] = Append(@, Head(picks.tokens))]
        /\ rows' = [rows EXCEPT ![c] = IF Head(picks.tokens) THEN @ + 1 ELSE @]
    /\ picks' = IF Len(picks.tokens) = 1 THEN NoPicks ELSE [picks EXCEPT !.tokens = Tail(@)]
    /\ sched' = IF Len(picks.tokens) = 1 THEN "retire" ELSE "step"
    /\ UNCHANGED <<listening, client, conn, got, lines, cancelled, drawn>>

\* fail_pass: a pass that fails ends its requests.
Fail(c) ==
    /\ sched = "retire" /\ c \in flying /\ flying' = flying \ {c} /\ Ends({c})
    /\ UNCHANGED <<listening, client, conn, got, sched, line, pauses, over, cancelled, drawn, channel, picks>>

\* Ends the requests out of flight that sampled their end or whose clients left.
Settle ==
    /\ sched = "retire" /\ sched' = "grow"
    /\ Ends((Active \ flying) \cap (over \cup cancelled))
    /\ UNCHANGED <<listening, client, conn, got, line, flying, pauses, over, cancelled, drawn, channel, picks>>

\* A request pauses for another's growth, ahead of the line, or yields its turn
\* and goes behind it.
Pause(c) ==
    /\ sched = "grow" /\ c \in Active \ flying /\ pauses < MaxPauses
    /\ pauses' = pauses + 1 /\ place' = [place EXCEPT ![c] = "paused"]
    /\ line' \in {<<c>> \o line, Append(line, c)}
    /\ UNCHANGED <<listening, client, conn, got, sched, flying, over, cancelled, drawn, channel, picks>>

\* admit_waiting: the first k of the line leave it, cancelled or admitted, until
\* one lacks a seat, or room beside the active requests.  None is being read from
\* disk.
Admits(k) ==
    LET enter == {line[i] : i \in 1..k} \ cancelled IN
    /\ k > 0 => Cardinality(Active \cup (enter \ {line[k]})) < MaxSeqs
    /\ k < Len(line) => Active \cup enter # {}
    /\ line' = SubSeq(line, k + 1, Len(line))
    /\ place' = [c \in Conns |-> IF c \in enter THEN "active" ELSE
                             IF c \in ToSet(line) \ ToSet(line') THEN "ended" ELSE place[c]]

\* Then passes are formed of some of the requests out of flight, of one at least
\* where none flies.
Form ==
    /\ sched = "grow" /\ sched' = "look"
    /\ \E k \in 0..Len(line) : Admits(k)
    /\ \E cs \in SUBSET {c \in Conns : place'[c] = "active"} : flying' = flying \cup cs
    /\ flying' = {} => \A c \in Conns : place'[c] # "active"
    /\ UNCHANGED <<listening, client, conn, got, pauses, over, cancelled, drawn, channel, picks>>

\* The stop: every pass abandoned, the active requests ended, then the waiting ones.
Abort ==
    /\ sched = "abort" /\ sched' = "clear" /\ flying' = {} /\ Ends(Active)
    /\ UNCHANGED <<listening, client, conn, got, line, pauses, over, cancelled, drawn, channel, picks>>

Bad_Cleared == Without({c \in Conns : place[c] = "paused"})
\* Both lines are cleared.
Cleared == <<>>

Clear ==
    /\ sched = "clear" /\ sched' = "ended"
    /\ Ends(ToSet(line) \ ToSet(Cleared)) /\ line' = Cleared
    /\ UNCHANGED <<listening, client, conn, got, flying, pauses, over, cancelled, drawn, channel, picks>>

-----------------------------------------------------------------------------
Thread(c) ==
    \/ Refuse(c) \/ Submit(c) \/ NextToken(c) \/ NextEnds(c) \/ Timeout(c)
    \/ Write(c) \/ Answer(c) \/ Drop(c)
Lands(c) == Retire(c) \/ Fail(c)
Scheduler ==
    \/ Look \/ Step \/ Settle \/ Form \/ Abort \/ Clear
    \/ \E c \in Conns : Lands(c) \/ Pause(c)
Next ==
    \/ Scheduler \/ Close \/ Serve
    \/ \E c \in Conns : Accept(c) \/ HangUp(c) \/ Thread(c)

\* Threads are scheduled and clients send their requests; a pass in flight
\* lands at last, which module Round shows.
Fairness ==
    /\ WF_vars(Scheduler) /\ WF_vars(Serve)
    /\ \A c \in Conns : WF_vars(Thread(c)) /\ SF_vars(Lands(c))
Spec == Init /\ [][Next]_vars /\ Fairness

-----------------------------------------------------------------------------
\* However slowly a client reads, at most kRowsWaiting of its tokens wait with
\* their rows, though the scheduler counts them before the draws and the reader
\* takes some meanwhile.
RowsBounded ==
    \A c \in Conns :
        RowsOf(out[c]) + (IF c \in picks.of THEN RowsOf(picks.tokens) ELSE 0) <= RowsWaiting

\* A reply ends with every token drawn for it.
WholeReply == \A c \in Conns : conn[c] = "answer" /\ c \notin cancelled => got[c] = drawn[c]

\* No connection's thread outlives what it works on, which serve destroys as it
\* returns.
ServerOutlivesThreads == main = "returned" => \A c \in Conns : conn[c] \in {"none", "done"}

\* A request taken while the scheduler runs is answered or dropped, whatever its
\* client does and wherever it waits when the server stops.
Answered == \A c \in Conns : conn[c] = "next" /\ sched # "ended" ~> conn[c] = "done"

\* A closed listener stops the server.
StopEnds == closed ~> main = "returned"

\* The channel's and the lines' representation, the bound on what waits in a
\* channel, and the order in which serve takes things down.
ServingSound == TypeOK /\ RowsBounded /\ ServerOutlivesThreads
=============================================================================
