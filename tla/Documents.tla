----------------------------- MODULE Documents -----------------------------
(***************************************************************************)
(* backend/src/documents over web/src/lib/use-propose.ts: the agreement    *)
(* behind a proposal.  A page opens a draft, uploads the files one by one, *)
(* seals the draft, and proposes on the chain with the hash the seal       *)
(* returned.  Every handler reads its draft first and writes it last, with *)
(* the object store in between, and a request goes on when its page has    *)
(* given up on it.  Other clients of the API work on drafts of their own,  *)
(* as many requests at a time as they like.                                *)
(*                                                                         *)
(* A file is its bytes.  The manifest's hash covers the sorted content     *)
(* hashes and stands here for the set of files it covers; {} is none.      *)
(***************************************************************************)
EXTENDS Sessions, FiniteSets

CONSTANTS
  Files,          \* contents that pass the size limit and the sniffing
  Outside,        \* another client of the API
  Gone,           \* the client of a request nobody waits for any more
  MaxFiles,
  MaxDrafts,      \* bound: drafts opened
  MaxRequests     \* bound: handlers at work at a time

ASSUME DocumentsAssumption ==
  /\ Outside \notin Tabs /\ Gone \notin Tabs /\ Outside # Gone
  /\ MaxFiles \in Nat /\ MaxDrafts \in Nat /\ MaxRequests \in Nat

VARIABLES
  drafts,         \* a sequence of draft rows, with their document rows
  objects,        \* per draft, what the store holds; and manifest.json
  requests,       \* handlers between their first read and their last write
  page,           \* per tab: where usePropose is
  proposals       \* history: what was proposed on the chain

docVars == <<drafts, objects, requests, page, proposals>>
documentsVars == <<sessionVars, docVars>>

Drafts == DOMAIN drafts
IdlePage == [at |-> "idle", chosen |-> {}, left |-> {}, draft |-> 0,
             sealed |-> {}, retried |-> FALSE]

DocumentsInit ==
  /\ SessionsInit
  /\ drafts = <<>> /\ objects = <<>>
  /\ requests = {}
  /\ page = [t \in Tabs |-> IdlePage]
  /\ proposals = {}

----------------------------------------------------------------------------
(* The handlers.  A request: who waits for it, what for, how far it is.    *)

Request(who, kind, d, f, saw) ==
  [who |-> who, kind |-> kind, draft |-> d, file |-> f, saw |-> saw, at |-> "checked"]

Create(who) ==
  /\ Len(drafts) < MaxDrafts
  /\ drafts'  = Append(drafts, [owner |-> who, rows |-> {}, hash |-> {}])
  /\ objects' = Append(objects, [files |-> {}, manifest |-> {}])

\* The first read of an upload and of a seal: what lets them go on.  A draft that
\* is sealed already is answered with the hash it has, and nothing is written.
MayUpload(d) == drafts[d].hash = {} /\ Cardinality(drafts[d].rows) < MaxFiles
MaySeal(d) == drafts[d].rows # {} /\ drafts[d].hash = {}

Begin(r) == Cardinality(requests) < MaxRequests /\ requests' = requests \cup {r}

BeginUpload(who, d, f) == MayUpload(d) /\ Begin(Request(who, "upload", d, f, {}))
BeginSeal(who, d) == MaySeal(d) /\ Begin(Request(who, "seal", d, {}, drafts[d].rows))

Answer(r) == requests' = requests \ {r}
Further(r) == requests' = (requests \ {r}) \cup {[r EXCEPT !.at = "stored"]}

\* Slip: the row first, the object after it.
StoreFileLate(r) ==
  /\ r.kind = "upload" /\ r.at = "checked" /\ r.file \notin drafts[r.draft].rows
  /\ Further(r)
  /\ UNCHANGED <<drafts, objects>>

\* storage.put.
StoreFile(r) ==
  /\ r.kind = "upload" /\ r.at = "checked" /\ r.file \notin drafts[r.draft].rows
  /\ objects' = [objects EXCEPT ![r.draft].files = @ \cup {r.file}]
  /\ Further(r)
  /\ UNCHANGED drafts
StoreManifest(r) ==
  /\ r.kind = "seal" /\ r.at = "checked"
  /\ objects' = [objects EXCEPT ![r.draft].manifest = r.saw]
  /\ Further(r)
  /\ UNCHANGED drafts

\* The bytes are there already: their row is the answer.
AnswerKnown(r) ==
  /\ r.kind = "upload" /\ r.at = "checked" /\ r.file \in drafts[r.draft].rows
  /\ Answer(r)
  /\ UNCHANGED <<drafts, objects>>

\* document.create; unique per draft and content.
RecordFile(r) ==
  /\ r.kind = "upload" /\ r.at = "stored"
  /\ r.file \notin drafts[r.draft].rows
  /\ drafts' = [drafts EXCEPT ![r.draft].rows = @ \cup {r.file}]
  /\ Answer(r)
  /\ UNCHANGED objects

\* draft.update, unconditional.
RecordSeal(r) ==
  /\ r.kind = "seal" /\ r.at = "stored"
  /\ drafts' = [drafts EXCEPT ![r.draft].hash = r.saw]
  /\ Answer(r)
  /\ UNCHANGED objects

\* What a good answer makes of the page p that waits for it.
Heard(p, r) ==
  IF r.kind = "upload" THEN [p EXCEPT !.left = p.left \ {r.file}, !.retried = FALSE]
  ELSE [p EXCEPT !.sealed = r.saw, !.at = "wallet"]
HeardBy(r) ==
  page' = IF r.who \in Tabs THEN [page EXCEPT ![r.who] = Heard(page[r.who], r)] ELSE page

Handle(r) ==
  /\ UNCHANGED <<sessionVars, proposals>>
  /\ \/ (StoreFile(r) \/ StoreManifest(r)) /\ UNCHANGED page
     \/ (AnswerKnown(r) \/ RecordFile(r) \/ RecordSeal(r)) /\ HeardBy(r)

\* The store, the database or the process fails under a request.
Fails(r) ==
  /\ Answer(r)
  /\ page' = IF r.who \in Tabs THEN [page EXCEPT ![r.who] = IdlePage] ELSE page
  /\ UNCHANGED <<sessionVars, drafts, objects, proposals>>

----------------------------------------------------------------------------
(* The page.                                                               *)

Waiting(t) == \E r \in requests : r.who = t
Calls(t) == ~Waiting(t) /\ At(t, "no")

\* The files the form can hold: one of each content, MAX_FILES at most.
Choosable == {chosen \in SUBSET Files : Cardinality(chosen) <= MaxFiles}

\* "Seal and propose", which an empty manifest blocks.
Submit(t, chosen) ==
  /\ page[t].at = "idle" /\ At(t, "no")
  /\ chosen # {}
  /\ page' = [page EXCEPT ![t] = [IdlePage EXCEPT !.at = "creating", !.chosen = chosen,
                                                  !.left = chosen]]
  /\ UNCHANGED <<sessionVars, drafts, objects, requests, proposals>>

NeedsToken(t) ==
  /\ page[t].at \in {"creating", "uploading", "sealing"} /\ Calls(t)
  /\ ~Known(stored)
  /\ stored' = 0
  /\ signIn' = [signIn EXCEPT ![t] = [at |-> "needed", nonce |-> 0]]
  /\ UNCHANGED <<used, lapsed, sessions, drafts, objects, requests, proposals>>

\* ensureSession: there is no token, or the browser sees that it has expired.
SignsIn(t) == NeedsToken(t) /\ UNCHANGED page

\* authed: the server does not know the token; sign in once more.
Retries(t) ==
  /\ stored # 0 /\ ~page[t].retried
  /\ NeedsToken(t)
  /\ page' = [page EXCEPT ![t].retried = TRUE]

Authed(t) == Calls(t) /\ Known(stored)

CreatesDraft(t) ==
  /\ page[t].at = "creating" /\ Authed(t)
  /\ Create(t)
  /\ page' = [page EXCEPT ![t].at = "uploading", ![t].draft = Len(drafts'),
                          ![t].retried = FALSE]
  /\ UNCHANGED <<sessionVars, requests, proposals>>

\* Slip: the files go out without waiting for each other, nor the seal for them.
UploadsAtOnce(t) ==
  /\ page[t].at = "uploading" /\ Authed(t)
  /\ \A f \in page[t].left : MayUpload(page[t].draft)
  /\ requests' = requests \cup {Request(Gone, "upload", page[t].draft, f, {}) :
                                  f \in page[t].left}
  /\ page' = [page EXCEPT ![t].left = {}]
  /\ UNCHANGED <<sessionVars, drafts, objects, proposals>>
UploadsNext(t) ==
  /\ page[t].at = "uploading" /\ Authed(t)
  /\ \E f \in page[t].left : BeginUpload(t, page[t].draft, f)
  /\ UNCHANGED <<sessionVars, drafts, objects, page, proposals>>

Uploaded(t) ==
  /\ page[t].at = "uploading" /\ Calls(t) /\ page[t].left = {}
  /\ page' = [page EXCEPT ![t].at = "sealing"]
  /\ UNCHANGED <<sessionVars, drafts, objects, requests, proposals>>

Seals(t) ==
  /\ page[t].at = "sealing" /\ Authed(t)
  /\ BeginSeal(t, page[t].draft)
  /\ UNCHANGED <<sessionVars, drafts, objects, page, proposals>>

\* IssuanceQueue.propose from the wallet, with what the seal answered.
Proposes(t) ==
  /\ page[t].at = "wallet"
  /\ proposals' = proposals \cup
       {[draft |-> page[t].draft, hash |-> page[t].sealed, chosen |-> page[t].chosen]}
  /\ page' = [page EXCEPT ![t] = IdlePage]
  /\ UNCHANGED <<sessionVars, drafts, objects, requests>>

\* The catch: a call failed, or the wallet's user declined.  The draft is left
\* as it is, and its request, if one is out, goes on.
Abandons(t) ==
  /\ page[t].at # "idle"
  /\ page' = [page EXCEPT ![t] = IdlePage]
  /\ signIn' = [signIn EXCEPT ![t] = NotSigning]
  /\ requests' = {[r EXCEPT !.who = IF @ = t THEN Gone ELSE @] : r \in requests}
  /\ UNCHANGED <<used, lapsed, sessions, stored, drafts, objects, proposals>>

SignsInFurther(t) == SignInStep(t) /\ UNCHANGED docVars

PageStep(t) ==
  \/ \E chosen \in Choosable : Submit(t, chosen)
  \/ SignsIn(t) \/ Retries(t) \/ SignsInFurther(t)
  \/ CreatesDraft(t) \/ UploadsNext(t) \/ Uploaded(t) \/ Seals(t) \/ Proposes(t)
  \/ Abandons(t)

\* The other client's requests, on a draft of its own: one, as drafts do not
\* meet.
OutsideStep ==
  /\ \/ /\ \A d \in Drafts : drafts[d].owner # Outside
        /\ Create(Outside)
        /\ UNCHANGED requests
     \/ \E d \in Drafts :
          /\ drafts[d].owner = Outside
          /\ BeginSeal(Outside, d) \/ \E f \in Files : BeginUpload(Outside, d, f)
          /\ UNCHANGED <<drafts, objects>>
  /\ UNCHANGED <<sessionVars, page, proposals>>

DocumentsNext ==
  \/ \E t \in Tabs : PageStep(t)
  \/ OutsideStep
  \/ \E r \in requests : Handle(r) \/ Fails(r)
  \/ Lapse /\ UNCHANGED docVars

DocumentsSpec == DocumentsInit /\ [][DocumentsNext]_documentsVars

----------------------------------------------------------------------------
(* The agreement as a reader of the proposal finds it, by the draft its    *)
(* documentURI names: the files listed, and those that open.               *)

Listed(p) == drafts[p.draft].rows
Opens(p) == {f \in Listed(p) : f \in objects[p.draft].files}

(***************************************************************************)
(* What is proposed is what was chosen.  The hash on the chain covers      *)
(* exactly the files the originator picked, and for good: the agreement a  *)
(* reader finds lists those files and no other, under that hash, its       *)
(* manifest too, and each of them opens, whatever failed, expired or was   *)
(* left running on the way.                                                *)
(***************************************************************************)
ProposedAsChosen ==
  \A p \in proposals :
     /\ p.hash = p.chosen
     /\ Listed(p) = p.hash /\ Opens(p) = p.hash
     /\ drafts[p.draft].hash = p.hash /\ objects[p.draft].manifest = p.hash

(***************************************************************************)
(* A file the seal or the manifest names can be opened: it has its row,    *)
(* and a row its object, even where uploads and seals of one draft race.   *)
(***************************************************************************)
SealedFilesReadable ==
  \A d \in Drafts :
     /\ drafts[d].hash \cup objects[d].manifest \subseteq drafts[d].rows
     /\ drafts[d].rows \subseteq objects[d].files
=============================================================================
