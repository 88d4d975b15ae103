------------------------------ MODULE Recordings ------------------------------
(***************************************************************************)
(* The recording proxy: MediaSessionService lists, downloads, merges and   *)
(* deletes the files that rtpbridge backends keep, and RtpbridgeTransport  *)
(* gives each HTTP request an HTTPS agent for the TLS name of its backend. *)
(* Several requests run at once and interleave at every await; files come  *)
(* and go at rtpbridge meanwhile, and a client may leave at any time.      *)
(***************************************************************************)
EXTENDS RecordingPaths, FiniteSets

CONSTANTS
    Tasks,               \* HTTP requests of clients about recordings
    BackendOrder,        \* the ids of the backends, in the order they are resolved
    FileOrder,           \* the files there may be, in the order rtpbridge lists them
    PathPrefixes,        \* values of RECORDING_PATH_PREFIX; <<>> is unset
    Jobs,                \* what may be asked: [op, targets, startsWith]
    pageLimit,           \* recordings rtpbridge lists in one answer
    MaxAgents,           \* HTTPS agents kept by TLS name
    StartPaths,          \* paths that recording.start is given
    MaxStarts,           \* bound: different recordings started
    StoredAtFirst        \* what the backends may have stored at first

Backends == ToSet(BackendOrder)
Files    == ToSet(FileOrder)

(* What RecordingPaths says of the paths that occur here, worked out once:    *)
(* the name of a file, the file of a path, and the paths a prefix owns.       *)
Name  == [f \in Files \union {recordingFilePath(p) : p \in StartPaths} |-> relativeRecordingPath(f)]
Paths == {Name[f] : f \in DOMAIN Name} \union
         UNION {{j.targets[i].path : i \in DOMAIN j.targets} : j \in Jobs}
Url   == [p \in {q \in Paths : SafePath(q)} |-> recordingUrl(p)]
Owned == [prefix \in PathPrefixes |-> {p \in Paths : OwnedRecordingPath(prefix, p)}]
Start == [prefix \in PathPrefixes |->
            [p \in {q \in StartPaths : MayRecord(prefix, q)} |-> recordingFilePath(p)]]

(* The members of S in a sequence, in its order: what there is after each. *)
Picks(seq, S) ==
    LET pick[i \in 0..Len(seq)] ==
            IF i = 0 THEN <<>>
            ELSE IF seq[i] \in S THEN Append(pick[i - 1], seq[i])
            ELSE pick[i - 1]
    IN  pick
Picked(seq, S) == Picks(seq, S)[Len(seq)]

Operations == {"list", "download", "delete", "merge"}

IsSequence(s) == s \in Seq(Range(s))
IsJob(j) ==
    /\ j.op \in Operations
    /\ IsSequence(j.targets) /\ IsSequence(j.startsWith)
    /\ \A i \in DOMAIN j.targets :
          j.targets[i].backend \in Backends /\ IsSequence(j.targets[i].path)
    /\ j.op \in {"download", "delete"} => j.targets # <<>>

ASSUME RecordingAssumption ==
    /\ IsSequence(BackendOrder) /\ IsSequence(FileOrder) /\ IsInjective(FileOrder)
    /\ \A prefix \in PathPrefixes : Range(Start[prefix]) \subseteq Files
    /\ \A p \in PathPrefixes \union StartPaths : IsSequence(p)
    /\ \A j \in Jobs : IsJob(j)
    /\ pageLimit \in Nat \ {0} /\ MaxAgents \in Nat
    /\ StoredAtFirst \subseteq [Backends -> SUBSET Files]

VARIABLES
    recordingPathPrefix, \* configuration
    stored,              \* [Backends -> the files rtpbridge keeps]
    pc, job, next,       \* each task: where it is, its job, its current target
    left,                \* tasks whose client has gone
    call,                \* [Tasks \X Backends -> [st, file, agent]]: the HTTP requests
    agents,              \* TLS names in `agents`, oldest first; every backend has its own
    page,                \* [Tasks \X Backends -> the listed files so far]
    tempDir,             \* merges whose temporary directory exists
    started,             \* recordings started: [file, recordingPath, answered]
    kept, added          \* history: what stayed, and came, while a task listed

fileVars == <<stored, started, kept, added>>
callVars == <<call, agents, page>>
taskVars == <<pc, job, next, left>>
vars     == <<recordingPathPrefix, fileVars, callVars, taskVars, tempDir>>

NoCall == [st |-> "none", file |-> <<>>, agent |-> FALSE]
NoJob  == [op |-> "none", targets |-> <<>>, startsWith |-> <<>>]

Urls == {<<>>} \union {Url[p] : p \in DOMAIN Url}
CallType == [st: {"none", "ready", "open", "cut"}, file: Urls, agent: BOOLEAN]

Stages == {"idle", "resolving", "listing", "calling", "making", "storing", "merging", "removing",
           "streaming", "held", "done", "failed"}

RequestTypes ==
    /\ recordingPathPrefix \in PathPrefixes
    /\ pc \in [Tasks -> Stages]
    /\ left \subseteq Tasks /\ tempDir \subseteq Tasks
    /\ job \in [Tasks -> Jobs \union {NoJob}] /\ next \in [Tasks -> Nat \ {0}]
    /\ call \in [Tasks \X Backends -> CallType]
    /\ agents \in Seq(Backends) /\ Len(agents) <= MaxAgents

FileTypes ==
    /\ stored \in [Backends -> SUBSET Files]
    /\ kept \in [Tasks -> [Backends -> SUBSET Files]] /\ added \in [Tasks -> SUBSET Backends]
    /\ page \in [Tasks \X Backends -> Seq(Files)]

TypeOK == RequestTypes /\ FileTypes

Running(t) == pc[t] \notin {"idle", "done", "failed"}

-----------------------------------------------------------------------------
(* RtpbridgeTransport.httpOptions. *)

(* The requests with a socket on the agent of TLS name b. *)
Sockets(calls, b) == {k \in DOMAIN calls : k[2] = b /\ calls[k].st = "open" /\ calls[k].agent}

(* Mutant: room is made without a look at the sockets. *)
AnyAgent(calls, b) == TRUE

Idle(calls, b) == Sockets(calls, b) = {}

(* The first agent that can make room for another, and the requests after it  *)
(* is destroyed: open sockets are cut, and a request that has its options but *)
(* no socket yet keeps an agent that is in the map no more.                   *)
MakesRoom(st) == SelectInSeq(st.agents, LAMBDA b : Idle(st.call, b))
Destroyed(calls, b) ==
    [k \in DOMAIN calls |->
        CASE k \in Sockets(calls, b)         -> [calls[k] EXCEPT !.st = "cut", !.agent = FALSE]
          [] k[2] = b /\ calls[k].st = "ready" -> [calls[k] EXCEPT !.agent = FALSE]
          [] OTHER                             -> calls[k]]

(* httpOptions for the request k about a file, and the agents afterwards; it  *)
(* throws, and k stays without a request, when every agent is busy.           *)
httpOptions(st, k, file) ==
    LET Ready(agentsNow, calls) ==
            [agents |-> agentsNow,
             call |-> [calls EXCEPT ![k] = [st |-> "ready", file |-> file, agent |-> TRUE]]]
        i == MakesRoom(st)
    IN  IF Contains(st.agents, k[2])
        THEN Ready(st.agents, st.call)
        ELSE IF Len(st.agents) < MaxAgents
             THEN Ready(Append(st.agents, k[2]), st.call)
             ELSE IF i = 0
                  THEN st
                  ELSE Ready(Append(RemoveAt(st.agents, i), k[2]), Destroyed(st.call, st.agents[i]))

Transport == [agents |-> agents, call |-> call]

-----------------------------------------------------------------------------
(* A request comes in. *)

Target(t) == job[t].targets[next[t]]

(* The checks before the first await: every target is owned, and a filter     *)
(* begins with the prefix.                                                    *)
Admitted(j) ==
    /\ \A i \in DOMAIN j.targets : j.targets[i].path \in Owned[recordingPathPrefix]
    /\ j.op = "list" /\ j.startsWith # <<>> => IsPrefix(recordingPathPrefix, j.startsWith)
    /\ j.op = "merge" => j.targets # <<>>

Ask(t, j) ==
    /\ pc[t] = "idle"
    /\ job' = [job EXCEPT ![t] = j]
    /\ next' = [next EXCEPT ![t] = 1]
    /\ pc' = [pc EXCEPT ![t] = IF ~Admitted(j) THEN "failed"
                                 ELSE IF j.op = "merge" THEN "making" ELSE "resolving"]
    /\ UNCHANGED <<recordingPathPrefix, fileVars, callVars, left, tempDir>>

(* recording.start with a path the application chose: rtpbridge records to    *)
(* the resolved file, and the application is told a recordingPath for it,     *)
(* unless no URL can name it: recordingMetadata throws then, after the start. *)
StartRecording(b, path) ==
    /\ Cardinality(started) < MaxStarts
    /\ path \in DOMAIN Start[recordingPathPrefix]
    /\ LET file == Start[recordingPathPrefix][path]
       IN  /\ file \notin stored[b]
           /\ stored' = [stored EXCEPT ![b] = @ \union {file}]
           /\ started' = started \union {[file |-> file, recordingPath |-> Name[file],
                                           answered |-> Name[file] \in DOMAIN Url]}
    /\ added' = [t \in Tasks |-> IF pc[t] = "listing" THEN added[t] \union {b} ELSE added[t]]
    /\ UNCHANGED <<recordingPathPrefix, kept, callVars, taskVars, tempDir>>

(* mkdtemp. *)
MakeTempDir(t) ==
    /\ pc[t] = "making"
    /\ \/ pc' = [pc EXCEPT ![t] = "resolving"] /\ tempDir' = tempDir \union {t}
       \/ pc' = [pc EXCEPT ![t] = "failed"] /\ UNCHANGED tempDir
    /\ UNCHANGED <<recordingPathPrefix, fileVars, callVars, job, next, left>>

-----------------------------------------------------------------------------
(* One HTTP request to a backend. *)

(* The request of a task that a failure ends: a merge removes its directory.  *)
AfterFailure(t) == IF job[t].op = "merge" THEN "removing" ELSE "failed"

(* resolveBackend found the target's backend; the URL is built, which throws  *)
(* for a path that cannot be encoded, and signed options are taken for it.    *)
Resolve(t) ==
    /\ pc[t] = "resolving" /\ job[t].op # "list"
    /\ LET k   == <<t, Target(t).backend>>
           now == IF Target(t).path \in DOMAIN Url
                  THEN httpOptions(Transport, k, Url[Target(t).path])
                  ELSE Transport
       IN  /\ agents' = now.agents
           /\ call' = now.call
           /\ pc' = [pc EXCEPT ![t] = IF now.call[k].st = "ready" THEN "calling" ELSE AfterFailure(t)]
    /\ UNCHANGED <<recordingPathPrefix, fileVars, page, job, next, left, tempDir>>

(* The backend is not found, or discovery fails. *)
ResolveFails(t) ==
    /\ pc[t] = "resolving"
    /\ pc' = [pc EXCEPT ![t] = AfterFailure(t)]
    /\ UNCHANGED <<recordingPathPrefix, fileVars, callVars, job, next, left, tempDir>>

(* axios sends the request in a later tick than the options were taken in. *)
Open(k) ==
    /\ call[k].st = "ready"
    /\ call' = [call EXCEPT ![k].st = "open"]
    /\ UNCHANGED <<recordingPathPrefix, fileVars, agents, page, taskVars, tempDir>>

(* The request fails: no connection, no answer within the timeout, a status   *)
(* that is no success, a body that breaks off, or its socket was destroyed.   *)
CallFails(t, b) ==
    /\ call[<<t, b>>].st # "none"
    /\ call' = [call EXCEPT ![<<t, b>>] = NoCall]
    /\ pc' = [pc EXCEPT ![t] = IF pc[t] \in {"failed", "done"} THEN @   \* another backend's failure won
                               ELSE IF pc[t] \in {"streaming", "held"} THEN "done"
                               ELSE AfterFailure(t)]
    /\ UNCHANGED <<recordingPathPrefix, fileVars, agents, page, job, next, left, tempDir>>

-----------------------------------------------------------------------------
(* listRecordings. *)

(* The filter sent to rtpbridge. *)
Filter(t) == IF job[t].startsWith # <<>> THEN job[t].startsWith ELSE recordingPathPrefix

(* All backends are asked for their first page in one tick; when one of them  *)
(* gets no agent the list fails and the others page on for nobody.            *)
FirstPages(t) ==
    LET asked[i \in 0..Len(BackendOrder)] ==
            IF i = 0 THEN Transport ELSE httpOptions(asked[i - 1], <<t, BackendOrder[i]>>, <<>>)
    IN  asked

StartList(t) ==
    /\ pc[t] = "resolving" /\ job[t].op = "list"
    /\ LET now == FirstPages(t)[Len(BackendOrder)]
       IN  /\ agents' = now.agents
           /\ call' = now.call
           /\ pc' = [pc EXCEPT ![t] = IF \A b \in Backends : now.call[<<t, b>>].st = "ready"
                                      THEN "listing" ELSE "failed"]
    /\ kept' = [kept EXCEPT ![t] = stored]
    /\ added' = [added EXCEPT ![t] = {}]
    /\ UNCHANGED <<recordingPathPrefix, stored, started, page, job, next, left, tempDir>>

(* rtpbridge's index: the stored files that begin with the filter, in order,  *)
(* and the page of them after those already listed.                           *)
Index(t, b)  == Picked(FileOrder, {f \in stored[b] : IsPrefix(Filter(t), Name[f])})
Answer(t, b) == LET skip == Len(page[<<t, b>>]) IN
                SubSeq(Index(t, b), skip + 1, IF skip + pageLimit < Len(Index(t, b))
                                              THEN skip + pageLimit ELSE Len(Index(t, b)))

(* Mutant: a first page that is full is taken for everything. *)
OnlyOnePage(t, b, withTotal) == TRUE

(* No further page is asked for: a page that is not full, or the total, if    *)
(* rtpbridge told one, is reached.                                            *)
LastPage(t, b, withTotal) ==
    \/ Len(Answer(t, b)) < pageLimit
    \/ withTotal /\ Len(page[<<t, b>>]) + pageLimit >= Len(Index(t, b))

(* With a prefix the paths listed are looked at, and one that cannot be named *)
(* throws.                                                                    *)
FilterThrows(t, listed) ==
    /\ recordingPathPrefix # <<>>
    /\ \E b \in Backends : \E f \in ToSet(listed[<<t, b>>]) : Name[f] \notin DOMAIN Url

ListPage(t, b, withTotal) ==
    LET k    == <<t, b>>
        over == LastPage(t, b, withTotal)
        now  == httpOptions([Transport EXCEPT !.call[k] = NoCall], k, <<>>)
        all  == over /\ \A other \in Backends \ {b} : call[<<t, other>>].st = "none"
    IN  /\ job[t].op = "list" /\ call[k].st = "open"
        /\ page' = [page EXCEPT ![k] = @ \o Answer(t, b)]
        /\ call' = IF over THEN [call EXCEPT ![k] = NoCall] ELSE now.call
        /\ agents' = IF over THEN agents ELSE now.agents
        /\ pc' = [pc EXCEPT ![t] =
                    IF pc[t] # "listing" THEN @
                    ELSE IF ~over THEN IF now.call[k].st = "ready" THEN @ ELSE "failed"
                    ELSE IF ~all THEN @
                    ELSE IF FilterThrows(t, page') THEN "failed" ELSE "done"]
        /\ UNCHANGED <<recordingPathPrefix, fileVars, job, next, left, tempDir>>

(* What the client is answered: the paths that are owned, sorted by backend   *)
(* and path; its own skip and limit cut a part out of them.                   *)
Listed(t, b) == Picked(page[<<t, b>>], {f \in Files : Name[f] \in Owned[recordingPathPrefix]})

-----------------------------------------------------------------------------
(* deleteRecording, and whoever else removes files at rtpbridge. *)

WithoutFile(b, f) ==
    /\ stored' = [stored EXCEPT ![b] = @ \ {f}]
    /\ kept' = [t \in Tasks |-> IF pc[t] = "listing" /\ f \in stored[b]
                                THEN [kept[t] EXCEPT ![b] = {}]   \* the index has shifted
                                ELSE kept[t]]

Deleted(t) ==
    /\ job[t].op = "delete" /\ pc[t] = "calling"
    /\ LET k == <<t, Target(t).backend>>
       IN  /\ call[k].st = "open"
           /\ WithoutFile(k[2], call[k].file)
           /\ call' = [call EXCEPT ![k] = NoCall]
    /\ pc' = [pc EXCEPT ![t] = "done"]
    /\ UNCHANGED <<recordingPathPrefix, started, added, agents, page, job, next, left, tempDir>>

-----------------------------------------------------------------------------
(* downloadRecording and mergeRecordings. *)

(* The stream is handed to the response.  A response that closed before has   *)
(* no `close` to come: nothing reads the stream, and nothing destroys it.     *)
HandedOver(t) == IF t \in left THEN "held" ELSE "streaming"

(* The answer to a download, whatever its status. *)
Downloading(t) ==
    /\ job[t].op = "download" /\ pc[t] = "calling"
    /\ call[<<t, Target(t).backend>>].st = "open"
    /\ pc' = [pc EXCEPT ![t] = HandedOver(t)]
    /\ UNCHANGED <<recordingPathPrefix, fileVars, callVars, job, next, left, tempDir>>

(* A merge stores one target in its directory, once rtpbridge said 2xx. *)
StoreSource(t) ==
    /\ job[t].op = "merge" /\ pc[t] = "calling"
    /\ LET k == <<t, Target(t).backend>>
       IN  /\ call[k].st = "open" /\ call[k].file \in stored[k[2]]
           /\ pc' = [pc EXCEPT ![t] = "storing"]
    /\ UNCHANGED <<recordingPathPrefix, fileVars, callVars, job, next, left, tempDir>>

SourceStored(t) ==
    /\ pc[t] = "storing"
    /\ call' = [call EXCEPT ![<<t, Target(t).backend>>] = NoCall]
    /\ IF next[t] < Len(job[t].targets)
       THEN next' = [next EXCEPT ![t] = @ + 1] /\ pc' = [pc EXCEPT ![t] = "resolving"]
       ELSE pc' = [pc EXCEPT ![t] = "merging"] /\ UNCHANGED next
    /\ UNCHANGED <<recordingPathPrefix, fileVars, agents, page, job, left, tempDir>>

(* mergePcapFiles and stat. *)
Merged(t) ==
    /\ pc[t] = "merging"
    /\ pc' = [pc EXCEPT ![t] = HandedOver(t)]
    /\ UNCHANGED <<recordingPathPrefix, fileVars, callVars, job, next, left, tempDir>>

(* Headers that differ, a file too short for one, or an error of the disk. *)
MergeFails(t) ==
    /\ pc[t] = "merging"
    /\ pc' = [pc EXCEPT ![t] = AfterFailure(t)]
    /\ UNCHANGED <<recordingPathPrefix, fileVars, callVars, job, next, left, tempDir>>

(* The catch block of mergeRecordings. *)
RemoveTempDir(t) ==
    /\ pc[t] = "removing"
    /\ tempDir' = tempDir \ {t}
    /\ pc' = [pc EXCEPT ![t] = "failed"]
    /\ UNCHANGED <<recordingPathPrefix, fileVars, callVars, job, next, left>>

(* Mutant: the read stream cleans up after an error only. *)
OnErrorOnly(t) == tempDir

(* The read stream of a merged file closes, by its end, an error or destroy(). *)
CleanedUp(t) == tempDir \ {t}

StreamCloses(t) ==
    /\ pc' = [pc EXCEPT ![t] = "done"]
    /\ tempDir' = CleanedUp(t)
    /\ call' = IF job[t].op = "download"
               THEN [call EXCEPT ![<<t, Target(t).backend>>] = NoCall] ELSE call

StreamEnds(t) ==
    /\ pc[t] = "streaming"
    /\ StreamCloses(t)
    /\ UNCHANGED <<recordingPathPrefix, fileVars, agents, page, job, next, left>>

(* The client closes its connection; pipeRecordingStream then destroys the    *)
(* stream it was reading.                                                     *)
ClientLeaves(t) ==
    /\ Running(t) /\ t \notin left
    /\ job[t].op \in {"download", "merge"}     \* the other answers are discarded
    /\ left' = left \union {t}
    /\ IF pc[t] = "streaming" THEN StreamCloses(t) ELSE UNCHANGED <<pc, tempDir, call>>
    /\ UNCHANGED <<recordingPathPrefix, fileVars, agents, page, job, next>>

-----------------------------------------------------------------------------
Init ==
    /\ recordingPathPrefix \in PathPrefixes
    /\ stored \in StoredAtFirst
    /\ pc = [t \in Tasks |-> "idle"]
    /\ job = [t \in Tasks |-> NoJob]
    /\ next = [t \in Tasks |-> 1]
    /\ left = {} /\ tempDir = {} /\ started = {} /\ agents = <<>>
    /\ call = [k \in Tasks \X Backends |-> NoCall]
    /\ page = [k \in Tasks \X Backends |-> <<>>]
    /\ kept = [t \in Tasks |-> [b \in Backends |-> {}]]
    /\ added = [t \in Tasks |-> {}]

TaskNext(t) ==
    \/ \E j \in Jobs : Ask(t, j)
    \/ MakeTempDir(t) \/ Resolve(t) \/ ResolveFails(t) \/ StartList(t)
    \/ \E b \in Backends : Open(<<t, b>>) \/ CallFails(t, b)
    \/ \E b \in Backends, withTotal \in BOOLEAN : ListPage(t, b, withTotal)
    \/ Deleted(t) \/ Downloading(t) \/ StoreSource(t) \/ SourceStored(t)
    \/ Merged(t) \/ MergeFails(t) \/ RemoveTempDir(t) \/ StreamEnds(t) \/ ClientLeaves(t)

Next == \/ \E t \in Tasks : TaskNext(t)
        \/ \E b \in Backends, path \in StartPaths : StartRecording(b, path)
        \/ (\A t \in Tasks : pc[t] \in {"done", "failed", "held"}) /\ UNCHANGED vars

Spec == Init /\ [][Next]_vars

-----------------------------------------------------------------------------
(* Properties. *)

(* No "%" is involved: a file name with one means another file in a URL.      *)
Unescaping(text) == \A i \in DOMAIN text : text[i] \notin DOMAIN Unescaped \union {"%"}

(* A request reaches the file it is about, and nothing else.  What rtpbridge  *)
(* is asked for, by URL or by a start, is below the recordings path whatever  *)
(* was escaped, and the gateway's own when a prefix is configured; the        *)
(* recordingPath a start answers asks for the file it records to.  (A start   *)
(* that spells the prefix with an escape is let through, and records outside  *)
(* it.)  And making room for the agent of another TLS name never destroys     *)
(* the socket of a request under way.                                         *)
RequestsReachTheirFile ==
    LET Asked   == {call[k].file : k \in {x \in DOMAIN call : call[x].st # "none" /\ job[x[1]].op # "list"}}
        Plain   == {r \in started : r.answered /\ Unescaping(r.recordingPath)}
        Ours(f) == recordingPathPrefix # <<>> => /\ Len(f) = Len(Root) + 1
                                                 /\ IsStrictPrefix(recordingPathPrefix, f[Len(f)])
    IN  /\ \A f \in Asked \union {r.file : r \in started} : IsStrictPrefix(Root, f)
        /\ \A f \in Asked \union {r.file : r \in Plain} : Ours(f)
        /\ \A r \in Plain : Url[r.recordingPath] = r.file
        /\ \A k \in DOMAIN call : call[k].st # "cut"

(* A list that succeeds names every file its filter lets through that was     *)
(* stored from its beginning to its end, and none twice unless a file came    *)
(* meanwhile, though it was put together from pages asked for one by one.     *)
(* (A file removed meanwhile shifts the later ones, and one may be missed.)   *)
ListsAreComplete ==
    \A t \in Tasks, b \in Backends : job[t].op = "list" /\ pc[t] = "done" =>
        /\ \A f \in kept[t][b] :
              IsPrefix(Filter(t), Name[f]) /\ Name[f] \in Owned[recordingPathPrefix]
              => f \in ToSet(Listed(t, b))
        /\ b \notin added[t] => Cardinality(ToSet(Listed(t, b))) = Len(Listed(t, b))

(* No temporary directory outlives its merge: it is gone once the request is  *)
(* over, whichever of its steps failed, whoever closed the stream and when.   *)
(* (A client that left before the result was handed over leaves the request   *)
(* `held` for good: nothing reads the stream and nothing closes it.)          *)
TempDirsGo ==
    \A t \in tempDir :
        /\ pc[t] \notin {"idle", "done", "failed"}
        /\ pc[t] = "held" => t \in left
=============================================================================
