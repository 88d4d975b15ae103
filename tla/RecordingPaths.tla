---------------------------- MODULE RecordingPaths ----------------------------
(***************************************************************************)
(* The recording paths of MediaSessionService: what a path given to        *)
(* recording.start, or to a download, merge or delete, means to rtpbridge. *)
(* A path is a sequence of tokens: the separators, the dot, ordinary       *)
(* pieces of a name, escapes such as "%2f", and a "%" that begins no       *)
(* escape.  A file is the sequence of the segments of its absolute path.   *)
(***************************************************************************)
EXTENDS Naturals, Sequences, SequencesExt

(* The tokens that are escapes, and the token each stands for. *)
Unescaped == [t \in {"%2e", "%2f", "%5c", "%sg"} |->
                CASE t = "%2e" -> "." [] t = "%2f" -> "/" [] t = "%5c" -> "\\" [] OTHER -> "sg"]

Dots == {<<".">>, <<".", ".">>}

(* The configured recordings path. *)
Root == <<<<"rec">>>>

Separators == {"/", "\\"}

(* split('/') after backslashes became slashes, without the empty parts: what *)
(* there is of it after each token.                                           *)
Cuts(path) ==
    LET cut[i \in 0..Len(path)] ==
            IF i = 0 THEN <<>>
            ELSE IF path[i] \in Separators THEN cut[i - 1]
            ELSE IF cut[i - 1] = <<>> \/ path[i - 1] \in Separators THEN Append(cut[i - 1], <<path[i]>>)
            ELSE [cut[i - 1] EXCEPT ![Len(cut[i - 1])] = Append(@, path[i])]
    IN  cut
Segments(path) == Cuts(path)[Len(path)]

(* The segments joined again, the first i of them for each i. *)
Joins(segments) ==
    LET join[i \in 0..Len(segments)] ==
            IF i = 0 THEN <<>>
            ELSE IF i = 1 THEN segments[1]
            ELSE join[i - 1] \o <<"/">> \o segments[i]
    IN  join
Joined(segments) == Joins(segments)[Len(segments)]

(* decodeURIComponent, and where it throws. *)
Decodable(segment) == ~Contains(segment, "%")
Decoded(segment)   == [i \in DOMAIN segment |->
                         IF segment[i] \in DOMAIN Unescaped THEN Unescaped[segment[i]] ELSE segment[i]]

(* A segment that safeRecordingPathSegments lets pass. *)
SafeSegment(segment) ==
    /\ Decodable(segment)
    /\ Decoded(segment) \notin Dots
    /\ ~Contains(Decoded(segment), "/") /\ ~Contains(Decoded(segment), "\\")

(* Where safeRecordingPathSegments answers, and does not throw a 400. *)
SafePath(path) == /\ Segments(path) # <<>>
                  /\ \A segment \in ToSet(Segments(path)) : SafeSegment(segment)

safeRecordingPathSegments(path) == [i \in DOMAIN Segments(path) |-> Decoded(Segments(path)[i])]

(* Only one segment, and more than the prefix; <<>> is no prefix configured. *)
ownsRecordingPath(prefix, path) ==
    LET segments == safeRecordingPathSegments(path)
    IN  /\ Len(segments) = 1
        /\ prefix # <<>>
        /\ IsStrictPrefix(prefix, segments[1])

(* requireOwnedRecordingPath answers; otherwise it throws a 403, or a 400. *)
OwnedRecordingPath(prefix, path) ==
    prefix # <<>> => SafePath(path) /\ ownsRecordingPath(prefix, path)

(* path.resolve, from the segments `base` unless the path is absolute. *)
Into(at, segment) ==
    IF segment = <<".">> THEN at
    ELSE IF segment = <<".", ".">> THEN IF at = <<>> THEN at ELSE Front(at)
    ELSE Append(at, segment)
Walk(base, path) ==
    LET at[i \in 0..Len(Segments(path))] ==
            IF i = 0
            THEN IF path # <<>> /\ path[1] \in Separators THEN <<>> ELSE base
            ELSE Into(at[i - 1], Segments(path)[i])
    IN  at
Resolved(base, path) == Walk(base, path)[Len(Segments(path))]

(* path.relative(Root, file) is neither empty nor leads out; "..a" leads out too. *)
BelowRoot(file) == /\ IsStrictPrefix(Root, file)
                   /\ ~IsPrefix(<<".", ".">>, file[Len(Root) + 1])

FromRoot(file) == Joined(SubSeq(file, Len(Root) + 1, Len(file)))

(* Where recordingFilePath answers, and with which file. *)
MayRecord(prefix, path) == /\ BelowRoot(Resolved(Root, path))
                           /\ OwnedRecordingPath(prefix, FromRoot(Resolved(Root, path)))
recordingFilePath(path) == Resolved(Root, path)

(* relativeRecordingPath: what the application is told; rtpbridge may answer  *)
(* a stop with a file that is not below the root.                             *)
relativeRecordingPath(file) == IF BelowRoot(file) THEN FromRoot(file) ELSE Joined(file)

(* The file a recording URL asks for: the URL parser resolves dots within     *)
(* /recordings/, which rtpbridge serves from the recordings path.             *)
UrlWalk(segments) ==
    LET at[i \in 0..Len(segments)] ==
            IF i = 0 THEN Root ELSE Resolved(at[i - 1], segments[i])
    IN  at
recordingUrl(path) ==
    LET segments == safeRecordingPathSegments(path) IN UrlWalk(segments)[Len(segments)]
=============================================================================
