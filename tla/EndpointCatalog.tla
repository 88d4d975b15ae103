---------------------------- MODULE EndpointCatalog ----------------------------
(***************************************************************************)
(* FileEndpointCatalog under MediaServerManager: where the backends that   *)
(* BackendPinning picks from come from.  With a catalogue file every pick  *)
(* reads the file first; a file that is missing, invalid or expired leaves *)
(* the last accepted view in force until that view expires.  Without one   *)
(* the backends come from DNS, after an await, and all accept sessions.    *)
(*                                                                         *)
(* The file is replaced as a whole, and a file that is put back is the     *)
(* same file: its signature stands for its contents.  Parsing is abstract, *)
(* a file parses or does not.  `view' and `signature' are set together,    *)
(* so `view' names the accepted file.                                      *)
(***************************************************************************)
EXTENDS BackendPinning

CONSTANTS
    Files,    \* the files that may be put at the path
    NoFile,   \* no file at the path, or no view yet
    Catalogs, \* what is in each file
    MaxTime   \* the clock stops here (bound)

CatalogType ==
    [parses : BOOLEAN, validUntil : Nat, accepting : SUBSET Backends]

ASSUME CatalogAssumption ==
    /\ NoFile \notin Files
    /\ Catalogs \in [Files -> CatalogType]
    /\ MaxTime \in Nat

VARIABLES
    catalog,  \* is RTPBRIDGE_ENDPOINTS_FILE set?
    file,     \* the file at the path
    view,     \* the file whose catalogue is in force
    error,    \* is `error' set?
    now       \* the clock

catalogVars == <<catalog, file, view, error, now>>
allVars == <<vars, catalogVars>>

(* parseEndpointCatalog accepts the file, and it has not expired. *)
Acceptable(f) == f # NoFile /\ Catalogs[f].parses /\ Catalogs[f].validUntil > now

(* The file at the path is the one whose signature was kept. *)
SameSignature == file # NoFile /\ file = view

(* refresh: accept the file at the path, unless it is the one in force; what *)
(* cannot be accepted changes nothing but the error.                        *)
Refresh ==
    \/ /\ SameSignature
       /\ UNCHANGED <<view, error>>
    \/ /\ ~SameSignature
       /\ Acceptable(file)
       /\ view' = file
       /\ error' = FALSE
    \/ /\ ~SameSignature
       /\ ~Acceptable(file)
       /\ error' = TRUE
       /\ UNCHANGED view

(* Mutant: the last accepted view serves for ever. *)
NeverExpires(v) == v # NoFile

(* snapshot.valid *)
Valid(v) == v # NoFile /\ Catalogs[v].validUntil > now

(* What pickBackend may select once the catalogue is read, for a session that *)
(* asks for the backend `wanted' or for none in particular.                  *)
Listed(id, wanted) ==
    {b \in Eligible(id) :
        /\ wanted \in {NoBackend, b}
        /\ Valid(view')
        /\ b \in Catalogs[view'].accepting}

(* createClient with a catalogue: read, select and pin without an await. *)
PickListed(k) ==
    /\ catalog
    /\ stage[k] = "new"
    /\ Refresh
    /\ PickBackend(k)
    /\ backend'[k] \in Listed(callOf[k], NoBackend)
    /\ UNCHANGED <<catalog, file, now>>

NothingListed(k) ==
    /\ catalog
    /\ stage[k] = "new"
    /\ Refresh
    /\ \E wanted \in Backends \union {NoBackend} : Listed(callOf[k], wanted) = {}
    /\ PickFails(k)
    /\ UNCHANGED <<catalog, file, now>>

(* Without one: resolveBackends answers after an await. *)
PickDiscovered(k) ==
    /\ ~catalog
    /\ \/ CreateClient(k)
       \/ stage[k] = "discovering" /\ PickBackend(k)
       \/ stage[k] = "discovering" /\ PickFails(k)
    /\ UNCHANGED catalogVars

(* The rest of BackendPinning, with or without a catalogue. *)
AfterPick(k) ==
    /\ RegisterCall(k) \/ RegisterFails(k) \/ UnregisterCall(k)
    /\ UNCHANGED catalogVars

Pins(id) ==
    /\ SweepStaleEntry(id) \/ CallStartsOrEnds(id)
    /\ UNCHANGED catalogVars

(* The timer of the constructor, and `status'. *)
RefreshTimer ==
    /\ catalog
    /\ Refresh
    /\ UNCHANGED <<vars, catalog, file, now>>

(* The publisher replaces, removes or restores the file. *)
ReplaceFile ==
    /\ catalog
    /\ file' \in Files \union {NoFile}
    /\ UNCHANGED <<vars, catalog, view, error, now>>

Tick ==
    /\ catalog
    /\ now < MaxTime
    /\ now' = now + 1
    /\ UNCHANGED <<vars, catalog, file, view, error>>

(* The constructor reads the file that is there. *)
CatalogInit ==
    /\ Init
    /\ catalog \in BOOLEAN
    /\ file \in Files \union {NoFile}
    /\ now = 0
    /\ view = IF catalog /\ Acceptable(file) THEN file ELSE NoFile
    /\ error = (catalog /\ view = NoFile)

CatalogNext ==
    \/ \E k \in Users : PickListed(k) \/ NothingListed(k) \/ PickDiscovered(k) \/ AfterPick(k)
    \/ \E id \in CallIds : Pins(id)
    \/ RefreshTimer
    \/ ReplaceFile
    \/ Tick

CatalogSpec == CatalogInit /\ [][CatalogNext]_allVars

-----------------------------------------------------------------------------
(* The types, of the pins too; what is in force did parse. *)
CatalogTypeOK ==
    /\ TypeOK
    /\ catalog \in BOOLEAN
    /\ file \in Files \union {NoFile}
    /\ view \in Files \union {NoFile}
    /\ error \in BOOLEAN
    /\ now \in 0 .. MaxTime
    /\ view # NoFile => Catalogs[view].parses

(* The catalogue a new session is to be placed by: the file at the path, or, *)
(* while that is missing or not acceptable, the last one accepted.           *)
InForce == IF Acceptable(file) THEN file ELSE view

(* "Rejected replacements never extend the last accepted view's original       *)
(* expiry" (endpoint-catalog.ts:92) and an empty or expired catalogue never     *)
(* falls back to another source (docs/guide/cross-cluster.md:48): a session is  *)
(* placed by the catalogue that is at the path at that moment, never by an      *)
(* earlier one that it replaced, and never by one that has expired.             *)
PicksFollowTheFile ==
    [][\A k \in Users :
        (catalog /\ stage[k] # "picked" /\ stage'[k] = "picked") =>
            /\ InForce # NoFile
            /\ now < Catalogs[InForce].validUntil
            /\ backend'[k] \in Catalogs[InForce].accepting]_allVars
=============================================================================
