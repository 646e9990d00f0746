------------------------------- MODULE HubPull -------------------------------
(***************************************************************************)
(* llmx pull (hub/pull.hpp): downloads of one revision's files into a cache *)
(* that several pulls share.  A pull asks for the metadata, checks each     *)
(* file's copy in the cache, fetches a copy that does not answer for its    *)
(* size and digest by one or more streams into a directory of its own,      *)
(* checks what they make together and renames it into the cache.  A stream  *)
(* is retried from its start; a pull may be killed, and the machine may     *)
(* lose its power, which keeps of an entry renamed since then what it may.  *)
(* An entry's or a stream's bytes are whole, damaged at their full size,    *)
(* short, or not there.                                                     *)
(***************************************************************************)
EXTENDS Integers, Sequences

CONSTANTS
    Pulls,
    Streams,     \* the streams each file of the manifest is fetched over
    Attempts,    \* a request's
    Found,       \* what an entry may hold at first
    Outages      \* bound: losses of power

VARIABLES
    entry,       \* each file's entry in the cache
    settled,     \* whether an entry was renamed before the power was last seen to go
    pull,        \* each pull
    outages
vars == <<entry, settled, pull, outages>>

Bytes == {"none", "short", "damaged", "whole"}
\* A manifest that names no file of the quant is refused before any pull (select in hub/manifest.hpp).
HubPullAssumption == Streams \in Seq(Nat \ {0}) /\ Streams # <<>> /\ Attempts \in Nat \ {0} /\ Found \subseteq Bytes /\ Outages \in Nat
Files == DOMAIN Streams
NotBegun == [at |-> "start", file |-> 1, streams |-> <<>>, opened |-> "none", temporary |-> FALSE]
Ended == {"returned", "threw", "killed"}
Init ==
    /\ entry \in [Files -> Found] /\ settled = [f \in Files |-> TRUE]
    /\ pull = [p \in Pulls |-> NotBegun] /\ outages = 0

Step(p, from, to) == pull[p].at = from /\ pull' = [pull EXCEPT ![p] = to]
At(p, at) == [pull[p] EXCEPT !.at = at, !.opened = "none"]
Running(p) == {i \in DOMAIN pull[p].streams : pull[p].streams[i].at = "request"}
\* What a pull leaves with: its directory is removed, and its streams are over if they were waited for.
Leave(p, how) == [At(p, how) EXCEPT !.temporary = FALSE, !.streams = IF Running(p) = {} THEN <<>> ELSE @]

\* The temporary directory, the metadata and the manifest, any of which may fail.
Begin(p) ==
    /\ \/ Step(p, "start", [At(p, "metadata") EXCEPT !.temporary = TRUE])
       \/ Step(p, "start", Leave(p, "threw"))
    /\ UNCHANGED <<entry, settled, outages>>
Resolve(p) ==
    /\ Step(p, "metadata", At(p, "check")) \/ Step(p, "metadata", Leave(p, "threw"))
    /\ UNCHANGED <<entry, settled, outages>>

-----------------------------------------------------------------------------
\* verified, of the cache's copy: its size, then the bytes of the file there once it
\* is opened.  The path may be no file, and the file not to be read.
Fetching(p) ==
    [At(p, "fetch") EXCEPT !.streams = [i \in 1 .. Streams[pull[p].file] |-> [at |-> "request", attempt |-> 1, bytes |-> "none"]]]
Cached(p) == IF pull[p].file = Len(Streams) THEN Leave(p, "returned") ELSE [At(p, "check") EXCEPT !.file = @ + 1, !.streams = <<>>]
CheckSize(p) ==
    /\ \/ Step(p, "check", IF entry[pull[p].file] \in {"none", "short"} THEN Fetching(p) ELSE At(p, "open"))
       \/ Step(p, "check", Leave(p, "threw"))
    /\ UNCHANGED <<entry, settled, outages>>
Open(p) == Step(p, "open", [At(p, "digest") EXCEPT !.opened = entry[pull[p].file]]) /\ UNCHANGED <<entry, settled, outages>>
CheckDigest(p) ==
    /\ \/ Step(p, "digest", IF pull[p].opened = "whole" THEN Cached(p) ELSE Fetching(p))
       \/ Step(p, "digest", Leave(p, "threw"))
    /\ UNCHANGED <<entry, settled, outages>>

-----------------------------------------------------------------------------
\* request: an attempt writes its file from the start; what is transient is tried again, up to the last attempt.
Bad_Retried(attempt) == TRUE
Retried(attempt) == attempt < Attempts
Tried(stream, outcome) ==
    CASE outcome = "transient" /\ Retried(stream.attempt) -> [stream EXCEPT !.attempt = (@ % Attempts) + 1, !.bytes = "short"]
      [] outcome \in {"transient", "fatal"} -> [stream EXCEPT !.at = "failed", !.bytes = "short"]
      [] OTHER -> [stream EXCEPT !.at = "done", !.bytes = outcome]
Attempt(p, i, outcome) ==
    /\ i \in Running(p)
    /\ pull' = [pull EXCEPT ![p].streams[i] = Tried(@, outcome)]
    /\ UNCHANGED <<entry, settled, outages>>

\* Every stream is waited for, and only then a failure of one is thrown.
Bad_Joined(p) == Running(p) = {} \/ \E i \in DOMAIN pull[p].streams : pull[p].streams[i].at = "failed"
Joined(p) == Running(p) = {}
Failed(p) == \E i \in DOMAIN pull[p].streams : pull[p].streams[i].at = "failed"
Join(p) ==
    /\ Joined(p) /\ Step(p, "fetch", IF Failed(p) THEN Leave(p, "threw") ELSE At(p, "verify"))
    /\ UNCHANGED <<entry, settled, outages>>

\* The parts are read in order into one file and its digest, which must be the manifest's.
Made(p) == IF \A i \in DOMAIN pull[p].streams : pull[p].streams[i].bytes = "whole" THEN "whole" ELSE "damaged"
Bad_Answers(p) == Made(p) # "none"
Answers(p) == Made(p) = "whole"
Verify(p) ==
    /\ Step(p, "verify", IF Answers(p) THEN At(p, "publish") ELSE Leave(p, "threw"))
    /\ UNCHANGED <<entry, settled, outages>>
Publish(p) ==
    \/ /\ Step(p, "publish", Cached(p)) /\ UNCHANGED outages
       /\ entry' = [entry EXCEPT ![pull[p].file] = Made(p)] /\ settled' = [settled EXCEPT ![pull[p].file] = FALSE]
    \/ Step(p, "publish", Leave(p, "threw")) /\ UNCHANGED <<entry, settled, outages>>

-----------------------------------------------------------------------------
Stopped(p) == [At(p, "killed") EXCEPT !.streams = <<>>]
Kill(p) ==
    /\ pull[p].at \notin Ended \cup {"start"}
    /\ pull' = [pull EXCEPT ![p] = Stopped(p)] /\ UNCHANGED <<entry, settled, outages>>
PowerLoss ==
    /\ outages < Outages /\ outages' = outages + 1
    /\ entry' \in {e \in [Files -> Bytes] : \A f \in Files : settled[f] => e[f] = entry[f]}
    /\ settled' = [f \in Files |-> TRUE]
    /\ pull' = [p \in Pulls |-> IF pull[p].at = "start" THEN pull[p] ELSE Stopped(p)]

Process(p) ==
    \/ Resolve(p) \/ CheckSize(p) \/ Open(p) \/ CheckDigest(p) \/ Join(p) \/ Verify(p) \/ Publish(p)
    \/ \E i \in DOMAIN pull[p].streams, outcome \in {"whole", "damaged", "transient", "fatal"} : Attempt(p, i, outcome)
Over == (\A p \in Pulls : pull[p].at \in Ended) /\ UNCHANGED vars
Next == PowerLoss \/ Over \/ \E p \in Pulls : Begin(p) \/ Process(p) \/ Kill(p)
\* A pull begun goes on: the system runs it, and a server that says nothing is left after a minute.
Spec == Init /\ [][Next]_vars /\ \A p \in Pulls : WF_vars(Process(p))

-----------------------------------------------------------------------------
\* What pulls leave in the cache answers for the manifest, whichever of their
\* files another replaces meanwhile: a pull that returned has every file whole
\* until the power goes, and an entry is replaced by a whole one alone.  No
\* stream writes where the directory is gone, and a pull that fails leaves none
\* (pull.hpp acquire, publish, Temporary; docs/USAGE.md, llmx pull).
PullSound ==
    /\ \A p \in Pulls : pull[p].at = "returned" => \A f \in Files : entry[f] = "whole"
    /\ \A f \in Files : ~settled[f] => entry[f] = "whole"
    /\ \A p \in Pulls : Running(p) # {} => pull[p].temporary
    /\ \A p \in Pulls : pull[p].at \in {"returned", "threw"} => ~pull[p].temporary /\ Running(p) = {}

\* A pull begun ends, however often a request is to be tried again (pull.hpp request).
PullEnds == \A p \in Pulls : pull[p].at = "metadata" ~> pull[p].at \in Ended
=============================================================================
