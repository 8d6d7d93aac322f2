-------------------------- MODULE DocumentsProofs --------------------------
(***************************************************************************)
(* Drafts, uploads and seals for any number of tabs, files, drafts and     *)
(* requests at a time, whatever fails or is abandoned.                     *)
(***************************************************************************)
EXTENDS Documents, SumLemmas, SequenceTheorems

DraftRow  == [owner : Tabs \cup {Outside}, rows : SUBSET Files, hash : SUBSET Files]
ObjectRow == [files : SUBSET Files, manifest : SUBSET Files]
RequestRow ==
  [who : Tabs \cup {Outside, Gone}, kind : {"upload", "seal"}, draft : Nat,
   file : Files \cup {{}}, saw : SUBSET Files, at : {"checked", "stored"}]
PageRow ==
  [at : {"idle", "creating", "uploading", "sealing", "wallet"}, chosen : SUBSET Files,
   left : SUBSET Files, draft : Nat, sealed : SUBSET Files, retried : BOOLEAN]

DocumentsTypeOK ==
  /\ drafts \in Seq(DraftRow)
  /\ objects \in Seq(ObjectRow)
  /\ Len(objects) = Len(drafts)
  /\ requests \subseteq RequestRow
  /\ page \in [Tabs -> PageRow]

\* A request has its draft; an upload that went on, its object; and a seal has
\* seen rows only.
RequestKept(r) ==
  /\ r.draft \in Drafts
  /\ r.kind = "upload" => r.file \in Files
  /\ r.kind = "upload" /\ r.at = "stored" => r.file \in objects[r.draft].files
  /\ r.kind = "seal" => r.saw \subseteq drafts[r.draft].rows

HasDraft(t) == page[t].at \in {"uploading", "sealing", "wallet"}

\* The requests a page waits for: one at a time, and what its stage is about.
Awaited(t) ==
  /\ \A r \in requests : r.who = t =>
       /\ page[t].at \in {"uploading", "sealing"}
       /\ page[t].at = "uploading" => r.kind = "upload" /\ r.file \in page[t].left
       /\ page[t].at = "sealing" =>
            /\ r.kind = "seal" /\ r.saw = page[t].chosen
            /\ r.at = "stored" => objects[r.draft].manifest = r.saw
  /\ \A r, s \in requests : r.who = t /\ s.who = t => r = s

\* A page's draft is its own, no other request touches it, and what it holds is
\* what the page chose, short of what the page has left.
DraftKept(t) ==
  LET d == page[t].draft
  IN  /\ d \in Drafts /\ drafts[d].owner = t
      /\ \A r \in requests : r.draft = d <=> r.who = t
      /\ drafts[d].rows \cup page[t].left \subseteq page[t].chosen
      /\ page[t].chosen \ page[t].left \subseteq drafts[d].rows
      /\ page[t].at # "uploading" => page[t].left = {}
      /\ page[t].at = "wallet" =>
           /\ page[t].sealed = page[t].chosen
           /\ drafts[d].hash = page[t].chosen
           /\ objects[d].manifest = page[t].chosen

PageKept(t) ==
  /\ page[t].at = "creating" => page[t].left = page[t].chosen
  /\ Awaited(t)
  /\ HasDraft(t) => DraftKept(t)

\* What was proposed is left alone: no page and no request is on its draft.
ProposalKept(p) ==
  /\ p.draft \in Drafts /\ drafts[p.draft].owner \in Tabs
  /\ \A r \in requests : r.draft # p.draft
  /\ \A t \in Tabs : HasDraft(t) => page[t].draft # p.draft
  /\ p.hash = p.chosen
  /\ drafts[p.draft].rows = p.hash
  /\ drafts[p.draft].hash = p.hash /\ objects[p.draft].manifest = p.hash

DocumentsInv ==
  /\ DocumentsTypeOK
  /\ SealedFilesReadable
  /\ \A r \in requests : RequestKept(r)
  /\ \A t \in Tabs : PageKept(t)
  /\ \A p \in proposals : ProposalKept(p)

----------------------------------------------------------------------------
\* The shapes of the state.

LEMMA Shapes ==
  ASSUME DocumentsTypeOK
  PROVE  /\ Len(drafts) \in Nat /\ Drafts = 1..Len(drafts) /\ DOMAIN objects = Drafts
         /\ \A d \in Drafts : drafts[d] \in DraftRow /\ objects[d] \in ObjectRow
         /\ \A t \in Tabs : page[t] \in PageRow
         /\ \A r \in requests : r \in RequestRow
BY DEF DocumentsTypeOK, Drafts

LEMMA Fields ==
  ASSUME DocumentsTypeOK
  PROVE  /\ \A d \in Drafts : /\ drafts[d].owner \in Tabs \cup {Outside}
                              /\ drafts[d].rows \subseteq Files /\ drafts[d].hash \subseteq Files
                              /\ objects[d].files \subseteq Files
                              /\ objects[d].manifest \subseteq Files
         /\ \A t \in Tabs : /\ page[t].chosen \subseteq Files /\ page[t].left \subseteq Files
                            /\ page[t].draft \in Nat /\ page[t].sealed \subseteq Files
                            /\ page[t].at \in {"idle", "creating", "uploading", "sealing",
                                               "wallet"}
         /\ \A r \in requests : /\ r.who \in Tabs \cup {Outside, Gone}
                                /\ r.kind \in {"upload", "seal"} /\ r.draft \in Nat
                                /\ r.saw \subseteq Files /\ r.at \in {"checked", "stored"}
<1>1. /\ \A d \in Drafts : drafts[d] \in DraftRow /\ objects[d] \in ObjectRow
      /\ \A t \in Tabs : page[t] \in PageRow
      /\ \A r \in requests : r \in RequestRow
  BY Shapes
<1>2. ASSUME NEW d \in Drafts
      PROVE  /\ drafts[d].owner \in Tabs \cup {Outside}
             /\ drafts[d].rows \subseteq Files /\ drafts[d].hash \subseteq Files
             /\ objects[d].files \subseteq Files /\ objects[d].manifest \subseteq Files
  BY <1>1 DEF DraftRow, ObjectRow
<1>3. ASSUME NEW t \in Tabs
      PROVE  /\ page[t].chosen \subseteq Files /\ page[t].left \subseteq Files
             /\ page[t].draft \in Nat /\ page[t].sealed \subseteq Files
             /\ page[t].at \in {"idle", "creating", "uploading", "sealing", "wallet"}
  BY <1>1 DEF PageRow
<1>4. ASSUME NEW r \in requests
      PROVE  /\ r.who \in Tabs \cup {Outside, Gone}
             /\ r.kind \in {"upload", "seal"} /\ r.draft \in Nat
             /\ r.saw \subseteq Files /\ r.at \in {"checked", "stored"}
  BY <1>1 DEF RequestRow
<1> QED BY <1>2, <1>3, <1>4

LEMMA DocumentsInvInit == DocumentsInit => DocumentsInv
<1> SUFFICES ASSUME DocumentsInit PROVE DocumentsInv
  OBVIOUS
<1>1. /\ drafts = <<>> /\ objects = <<>> /\ requests = {} /\ proposals = {}
      /\ page = [t \in Tabs |-> IdlePage]
  BY DEF DocumentsInit
<1>2. IdlePage \in PageRow /\ IdlePage.at = "idle"
  BY DEF IdlePage, PageRow
<1>3. DocumentsTypeOK
  BY <1>1, <1>2 DEF DocumentsTypeOK
<1>4. SealedFilesReadable
  BY <1>1 DEF SealedFilesReadable, Drafts
<1>5. \A t \in Tabs : PageKept(t)
  BY <1>1, <1>2 DEF PageKept, Awaited, HasDraft
<1> QED BY <1>1, <1>3, <1>4, <1>5 DEF DocumentsInv

----------------------------------------------------------------------------
\* What a step leaves alone, it leaves kept.

\* Of a draft: nothing changed.
Untouched(d) ==
  d \in DOMAIN drafts' /\ drafts'[d] = drafts[d] /\ objects'[d] = objects[d]

LEMMA OtherPage ==
  ASSUME DocumentsInv, NEW t \in Tabs, page'[t] = page[t],
         HasDraft(t) => Untouched(page[t].draft),
         \A r \in requests' : r.who = t => r \in requests,
         HasDraft(t) => \A r \in requests' : r.draft = page[t].draft => r \in requests
  PROVE  PageKept(t)'
<1> DEFINE d == page[t].draft
<1>1. PageKept(t)
  BY DEF DocumentsInv
<1>2. /\ HasDraft(t)' = HasDraft(t)
      /\ page'[t].at = "creating" => page'[t].left = page'[t].chosen
  BY <1>1 DEF PageKept, HasDraft
<1>3. Awaited(t)'
  <2>1. ASSUME NEW r \in requests', r.who = t
        PROVE  /\ page[t].at \in {"uploading", "sealing"}
               /\ page[t].at = "uploading" => r.kind = "upload" /\ r.file \in page[t].left
               /\ page[t].at = "sealing" =>
                    /\ r.kind = "seal" /\ r.saw = page[t].chosen
                    /\ r.at = "stored" => objects'[r.draft].manifest = r.saw
    <3>1. /\ r \in requests /\ page[t].at \in {"uploading", "sealing"}
          /\ page[t].at = "uploading" => r.kind = "upload" /\ r.file \in page[t].left
          /\ page[t].at = "sealing" =>
               /\ r.kind = "seal" /\ r.saw = page[t].chosen
               /\ r.at = "stored" => objects[r.draft].manifest = r.saw
      BY <1>1, <2>1 DEF PageKept, Awaited
    <3>2. HasDraft(t)
      BY <3>1 DEF HasDraft
    <3>3. r.draft = d
      BY <1>1, <2>1, <3>1, <3>2 DEF PageKept, DraftKept
    <3>4. objects'[r.draft] = objects[r.draft]
      BY <3>2, <3>3 DEF Untouched
    <3> QED BY <3>1, <3>4
  <2>2. \A r, s \in requests' : r.who = t /\ s.who = t => r = s
    BY <1>1 DEF PageKept, Awaited
  <2> QED BY <2>1, <2>2 DEF Awaited
<1>4. ASSUME HasDraft(t) PROVE DraftKept(t)'
  BY <1>1, <1>4 DEF PageKept, DraftKept, Untouched, Drafts
<1> QED BY <1>2, <1>3, <1>4 DEF PageKept

LEMMA OtherProposal ==
  ASSUME DocumentsInv, NEW p \in proposals, Untouched(p.draft),
         \A r \in requests' : r.draft = p.draft => \E s \in requests : s.draft = p.draft,
         \A t \in Tabs : HasDraft(t)' /\ page'[t].draft = p.draft => FALSE
  PROVE  ProposalKept(p)'
<1>1. ProposalKept(p)
  BY DEF DocumentsInv
<1> QED BY <1>1 DEF ProposalKept, Untouched, Drafts

LEMMA OtherRequest ==
  ASSUME NEW r, RequestKept(r), r.draft \in DOMAIN drafts',
         drafts[r.draft].rows \subseteq drafts'[r.draft].rows,
         objects[r.draft].files \subseteq objects'[r.draft].files
  PROVE  RequestKept(r)'
BY DEF RequestKept, Drafts

\* Nothing of the drafts, the objects or the requests changes.
LEMMA PageMoves ==
  ASSUME DocumentsInv, NEW t \in Tabs, UNCHANGED <<drafts, objects, requests, proposals>>,
         NEW new \in PageRow, page' = [page EXCEPT ![t] = new], PageKept(t)',
         HasDraft(t)' => HasDraft(t) /\ new.draft = page[t].draft
  PROVE  DocumentsInv'
<1>1. page[t] \in PageRow /\ page'[t] = new /\ \A u \in Tabs : u # t => page'[u] = page[u]
  BY DEF DocumentsInv, DocumentsTypeOK
<1>2. DocumentsTypeOK'
  BY DEF DocumentsInv, DocumentsTypeOK
<1>3. SealedFilesReadable' /\ \A r \in requests' : RequestKept(r)'
  BY DEF DocumentsInv, SealedFilesReadable, RequestKept, Drafts
<1>4. ASSUME NEW u \in Tabs PROVE PageKept(u)'
  <2>1. CASE u = t
    BY <2>1
  <2>2. CASE u # t
    <3>1. HasDraft(u) => Untouched(page[u].draft)
      BY DEF DocumentsInv, PageKept, DraftKept, Untouched, Drafts
    <3> QED BY <1>1, <2>2, <3>1, OtherPage
  <2> QED BY <2>1, <2>2
<1>5. ASSUME NEW p \in proposals PROVE ProposalKept(p)'
  <2>1. ProposalKept(p)
    BY DEF DocumentsInv
  <2>2. ASSUME NEW u \in Tabs, HasDraft(u)', page'[u].draft = p.draft PROVE FALSE
    <3>1. HasDraft(u) /\ page[u].draft = p.draft
      BY <1>1, <2>2 DEF HasDraft
    <3> QED BY <2>1, <3>1 DEF ProposalKept
  <2> QED BY <2>1, <2>2 DEF ProposalKept, Drafts
<1> QED BY <1>2, <1>3, <1>4, <1>5 DEF DocumentsInv

LEMMA Stutters == DocumentsInv /\ UNCHANGED docVars => DocumentsInv'
<1> SUFFICES ASSUME DocumentsInv, UNCHANGED docVars PROVE DocumentsInv'
  OBVIOUS
<1>1. UNCHANGED <<drafts, objects, requests, page, proposals>>
  BY DEF docVars
<1>2. \A t \in Tabs : PageKept(t)'
  BY <1>1 DEF DocumentsInv, PageKept, Awaited, DraftKept, HasDraft, Drafts
<1>3. \A p \in proposals' : ProposalKept(p)'
  BY <1>1 DEF DocumentsInv, ProposalKept, HasDraft, Drafts
<1>4. DocumentsTypeOK' /\ SealedFilesReadable' /\ \A r \in requests' : RequestKept(r)'
  BY <1>1 DEF DocumentsInv, DocumentsTypeOK, SealedFilesReadable, RequestKept, Drafts
<1> QED BY <1>2, <1>3, <1>4 DEF DocumentsInv

\* A page that waits for nothing.
LEMMA NobodyAwaited ==
  ASSUME DocumentsInv, NEW t \in Tabs, page[t].at \notin {"uploading", "sealing"} \/ ~Waiting(t)
  PROVE  \A r \in requests : r.who # t
BY DEF DocumentsInv, PageKept, Awaited, Waiting

----------------------------------------------------------------------------
\* The page.

LEMMA SubmitKeeps ==
  ASSUME DocumentsInv, NEW t \in Tabs, NEW chosen \in Choosable, Submit(t, chosen)
  PROVE  DocumentsInv'
<1> DEFINE new == [IdlePage EXCEPT !.at = "creating", !.chosen = chosen, !.left = chosen]
<1>1. /\ page' = [page EXCEPT ![t] = new] /\ page[t].at = "idle"
      /\ UNCHANGED <<drafts, objects, requests, proposals>>
  BY DEF Submit
<1>2. chosen \subseteq Files
  BY DEF Choosable
<1>3. new \in PageRow /\ new.at = "creating" /\ new.left = chosen /\ new.chosen = chosen
  BY <1>2 DEF IdlePage, PageRow
<1> HIDE DEF new
<1>4. page'[t] = new
  BY <1>1 DEF DocumentsInv, DocumentsTypeOK
<1>5. \A r \in requests : r.who # t
  BY <1>1, NobodyAwaited
<1>6. ~HasDraft(t)' /\ PageKept(t)'
  BY <1>1, <1>3, <1>4, <1>5 DEF PageKept, Awaited, HasDraft
<1> QED BY <1>1, <1>3, <1>6, PageMoves

LEMMA RetriesKeeps ==
  ASSUME DocumentsInv, NEW t \in Tabs, Retries(t)
  PROVE  DocumentsInv'
<1> DEFINE old == page[t]
           new == [old EXCEPT !.retried = TRUE]
<1>1. /\ page' = [page EXCEPT ![t] = new]
      /\ UNCHANGED <<drafts, objects, requests, proposals>>
  BY DEF Retries, NeedsToken
<1>2. old \in PageRow
  BY DEF DocumentsInv, DocumentsTypeOK
<1> HIDE DEF old
<1>3. /\ new \in PageRow /\ new.at = old.at /\ new.left = old.left /\ new.chosen = old.chosen
      /\ new.draft = old.draft /\ new.sealed = old.sealed
  BY <1>2 DEF PageRow
<1> HIDE DEF new
<1>4. page'[t] = new
  BY <1>1 DEF DocumentsInv, DocumentsTypeOK
<1>5. HasDraft(t)' = HasDraft(t) /\ PageKept(t)
  BY <1>3, <1>4 DEF HasDraft, old, DocumentsInv
<1>6. PageKept(t)'
  BY <1>1, <1>3, <1>4, <1>5 DEF PageKept, Awaited, DraftKept, Drafts, old
<1> QED BY <1>1, <1>3, <1>5, <1>6, PageMoves DEF old

LEMMA UploadedKeeps ==
  ASSUME DocumentsInv, NEW t \in Tabs, Uploaded(t)
  PROVE  DocumentsInv'
<1> DEFINE old == page[t]
           new == [old EXCEPT !.at = "sealing"]
<1>1. /\ page' = [page EXCEPT ![t] = new] /\ old.at = "uploading" /\ old.left = {}
      /\ UNCHANGED <<drafts, objects, requests, proposals>> /\ ~Waiting(t)
  BY DEF Uploaded, Calls
<1>2. old \in PageRow
  BY DEF DocumentsInv, DocumentsTypeOK
<1>3. PageKept(t) /\ HasDraft(t) /\ \A r \in requests : r.who # t
  BY <1>1, NobodyAwaited DEF DocumentsInv, HasDraft
<1>4. DraftKept(t)
  BY <1>3 DEF PageKept
<1> HIDE DEF old
<1>5. /\ new \in PageRow /\ new.at = "sealing" /\ new.left = old.left /\ new.chosen = old.chosen
      /\ new.draft = old.draft /\ new.sealed = old.sealed
  BY <1>2 DEF PageRow
<1> HIDE DEF new
<1>6. page'[t] = new
  BY <1>1 DEF DocumentsInv, DocumentsTypeOK
<1>7. DraftKept(t)'
  BY <1>1, <1>4, <1>5, <1>6 DEF DraftKept, Drafts, old
<1>8. PageKept(t)'
  BY <1>1, <1>3, <1>5, <1>6, <1>7 DEF PageKept, Awaited
<1> QED BY <1>1, <1>3, <1>5, <1>8, PageMoves DEF old

----------------------------------------------------------------------------
\* A new draft.

LEMMA CreateAdds ==
  ASSUME DocumentsInv, NEW who \in Tabs \cup {Outside}, Create(who), UNCHANGED requests
  PROVE  LET n == Len(drafts) + 1
         IN  /\ drafts' \in Seq(DraftRow) /\ objects' \in Seq(ObjectRow)
             /\ Len(objects') = Len(drafts') /\ Len(drafts') = n
             /\ n \in DOMAIN drafts' /\ n \notin Drafts
             /\ drafts'[n].owner = who /\ drafts'[n].rows = {} /\ drafts'[n].hash = {}
             /\ \A d \in Drafts : Untouched(d)
             /\ SealedFilesReadable' /\ \A r \in requests' : RequestKept(r)'
<1> DEFINE n == Len(drafts) + 1
           row == [owner |-> who, rows |-> {}, hash |-> {}]
           obj == [files |-> {}, manifest |-> {}]
<1>1. /\ DocumentsTypeOK /\ drafts' = Append(drafts, row) /\ objects' = Append(objects, obj)
      /\ row \in DraftRow /\ obj \in ObjectRow
      /\ row.owner = who /\ row.rows = {} /\ row.hash = {} /\ obj.files = {}
      /\ obj.manifest = {}
  BY DEF DocumentsInv, Create, DraftRow, ObjectRow
<1>2. /\ drafts \in Seq(DraftRow) /\ objects \in Seq(ObjectRow) /\ Len(objects) = Len(drafts)
      /\ Len(drafts) \in Nat /\ Drafts = 1..Len(drafts)
  BY <1>1 DEF DocumentsTypeOK, Drafts
<1> HIDE DEF row, obj
<1>3. /\ drafts' \in Seq(DraftRow) /\ Len(drafts') = n /\ drafts'[n] = row
      /\ \A d \in Drafts : drafts'[d] = drafts[d]
  BY <1>1, <1>2, AppendProperties
<1>4. /\ objects' \in Seq(ObjectRow) /\ Len(objects') = n /\ objects'[n] = obj
      /\ \A d \in Drafts : objects'[d] = objects[d]
  BY <1>1, <1>2, AppendProperties
<1>5. DOMAIN drafts' = 1..n /\ n \in 1..n /\ n \notin Drafts
      /\ \A d \in 1..n : d \in Drafts \/ d = n
  BY <1>2, <1>3
<1>6. \A d \in Drafts : Untouched(d)
  BY <1>2, <1>3, <1>4, <1>5 DEF Untouched
<1>7. SealedFilesReadable'
  <2>1. ASSUME NEW d \in DOMAIN drafts'
        PROVE  /\ drafts'[d].hash \cup objects'[d].manifest \subseteq drafts'[d].rows
               /\ drafts'[d].rows \subseteq objects'[d].files
    <3>1. CASE d = n
      BY <1>1, <1>3, <1>4, <3>1
    <3>2. CASE d # n
      <4>1. d \in Drafts
        BY <1>5, <2>1, <3>2
      <4> QED BY <1>3, <1>4, <4>1 DEF DocumentsInv, SealedFilesReadable
    <3> QED BY <3>1, <3>2
  <2> QED BY <2>1 DEF SealedFilesReadable, Drafts
<1>8. ASSUME NEW r \in requests' PROVE RequestKept(r)'
  <2>1. RequestKept(r)
    BY <1>8 DEF DocumentsInv
  <2>2. r.draft \in Drafts /\ Untouched(r.draft)
    BY <1>6, <2>1 DEF RequestKept
  <2> QED BY <2>1, <2>2, OtherRequest DEF Untouched
<1> QED BY <1>1, <1>3, <1>4, <1>5, <1>6, <1>7, <1>8

LEMMA CreatesDraftKeeps ==
  ASSUME DocumentsInv, NEW t \in Tabs, CreatesDraft(t)
  PROVE  DocumentsInv'
<1> DEFINE n == Len(drafts) + 1
           old == page[t]
           new == [old EXCEPT !.at = "uploading", !.draft = n, !.retried = FALSE]
<1>1. /\ old.at = "creating" /\ Create(t) /\ UNCHANGED <<requests, proposals>>
      /\ page' = [page EXCEPT ![t].at = "uploading", ![t].draft = Len(drafts'),
                              ![t].retried = FALSE]
      /\ DocumentsTypeOK /\ PageKept(t) /\ old \in PageRow /\ page \in [Tabs -> PageRow]
      /\ Len(drafts) \in Nat
  BY Shapes DEF CreatesDraft, DocumentsInv, DocumentsTypeOK
<1>2. /\ drafts' \in Seq(DraftRow) /\ objects' \in Seq(ObjectRow)
      /\ Len(objects') = Len(drafts') /\ Len(drafts') = n
      /\ n \in DOMAIN drafts' /\ n \notin Drafts
      /\ drafts'[n].owner = t /\ drafts'[n].rows = {} /\ drafts'[n].hash = {}
      /\ \A d \in Drafts : Untouched(d)
      /\ SealedFilesReadable' /\ \A r \in requests' : RequestKept(r)'
  BY <1>1, CreateAdds
<1>3. page' = [page EXCEPT ![t] = new]
  BY <1>1, <1>2
<1>4. old.left = old.chosen /\ \A r \in requests : r.who # t
  BY <1>1, NobodyAwaited DEF PageKept
<1>5. n \in Nat
  BY <1>1
<1> HIDE DEF old, n
<1>6. /\ new \in PageRow /\ new.at = "uploading" /\ new.left = old.left
      /\ new.chosen = old.chosen /\ new.draft = n
  BY <1>1, <1>5 DEF PageRow
<1> HIDE DEF new
<1>7. page' \in [Tabs -> PageRow] /\ page'[t] = new /\ \A u \in Tabs : u # t => page'[u] = page[u]
  BY <1>1, <1>3, <1>6
<1>8. DocumentsTypeOK'
  BY <1>1, <1>2, <1>7 DEF DocumentsTypeOK
<1>9. \A r \in requests : r.draft \in Drafts
  BY DEF DocumentsInv, RequestKept
<1>10. ASSUME NEW u \in Tabs PROVE PageKept(u)'
  <2>1. CASE u = t
    <3>1. \A r \in requests' : r.draft # n /\ r.who # t
      BY <1>1, <1>2, <1>4, <1>9
    <3>2. DraftKept(t)'
      BY <1>2, <1>4, <1>6, <1>7, <3>1 DEF DraftKept, Drafts
    <3> QED BY <1>6, <1>7, <2>1, <3>1, <3>2 DEF PageKept, Awaited
  <2>2. CASE u # t
    <3>1. HasDraft(u) => Untouched(page[u].draft)
      BY <1>2 DEF DocumentsInv, PageKept, DraftKept
    <3> QED BY <1>1, <1>7, <2>2, <3>1, OtherPage
  <2> QED BY <2>1, <2>2
<1>11. ASSUME NEW p \in proposals PROVE ProposalKept(p)'
  <2>1. ProposalKept(p) /\ p.draft \in Drafts
    BY DEF DocumentsInv, ProposalKept
  <2>2. ASSUME NEW u \in Tabs, HasDraft(u)', page'[u].draft = p.draft PROVE FALSE
    <3>1. CASE u = t
      BY <1>2, <1>6, <1>7, <2>1, <2>2, <3>1
    <3>2. CASE u # t
      <4>1. HasDraft(u) /\ page[u].draft = p.draft
        BY <1>7, <2>2, <3>2 DEF HasDraft
      <4> QED BY <2>1, <4>1 DEF ProposalKept
    <3> QED BY <3>1, <3>2
  <2> QED BY <1>1, <1>2, <2>1, <2>2, OtherProposal
<1> QED BY <1>1, <1>2, <1>8, <1>10, <1>11 DEF DocumentsInv

LEMMA OutsideCreateKeeps ==
  ASSUME DocumentsInv, Create(Outside), UNCHANGED <<requests, page, proposals>>
  PROVE  DocumentsInv'
<1>1. /\ drafts' \in Seq(DraftRow) /\ objects' \in Seq(ObjectRow)
      /\ Len(objects') = Len(drafts')
      /\ \A d \in Drafts : Untouched(d)
      /\ SealedFilesReadable' /\ \A r \in requests' : RequestKept(r)'
  BY CreateAdds
<1>2. DocumentsTypeOK'
  BY <1>1 DEF DocumentsInv, DocumentsTypeOK
<1>3. ASSUME NEW u \in Tabs PROVE PageKept(u)'
  <2>1. HasDraft(u) => Untouched(page[u].draft)
    BY <1>1 DEF DocumentsInv, PageKept, DraftKept
  <2> QED BY <2>1, OtherPage
<1>4. ASSUME NEW p \in proposals PROVE ProposalKept(p)'
  <2>1. ProposalKept(p) /\ p.draft \in Drafts
    BY DEF DocumentsInv, ProposalKept
  <2>2. \A u \in Tabs : HasDraft(u)' /\ page'[u].draft = p.draft => FALSE
    BY <2>1 DEF ProposalKept, HasDraft
  <2> QED BY <1>1, <2>1, <2>2, OtherProposal
<1> QED BY <1>1, <1>2, <1>3, <1>4 DEF DocumentsInv

----------------------------------------------------------------------------
\* A request begins.

LEMMA BeginKeeps ==
  ASSUME DocumentsInv, NEW r \in RequestRow, RequestKept(r), requests' = requests \cup {r},
         UNCHANGED <<drafts, objects, page, proposals>>,
         \A t \in Tabs : r.who = t => PageKept(t)',
         \A t \in Tabs : HasDraft(t) /\ r.who # t => page[t].draft # r.draft,
         \A p \in proposals : p.draft # r.draft
  PROVE  DocumentsInv'
<1>1. DocumentsTypeOK' /\ SealedFilesReadable'
  BY DEF DocumentsInv, DocumentsTypeOK, SealedFilesReadable, Drafts
<1>2. \A s \in requests' : RequestKept(s)'
  BY DEF DocumentsInv, RequestKept, Drafts
<1>3. ASSUME NEW t \in Tabs PROVE PageKept(t)'
  <2>1. CASE r.who = t
    BY <2>1
  <2>2. CASE r.who # t
    <3>1. HasDraft(t) => Untouched(page[t].draft)
      BY DEF DocumentsInv, PageKept, DraftKept, Untouched, Drafts
    <3> QED BY <2>2, <3>1, OtherPage
  <2> QED BY <2>1, <2>2
<1>4. ASSUME NEW p \in proposals PROVE ProposalKept(p)'
  <2>1. ProposalKept(p)
    BY DEF DocumentsInv
  <2> QED BY <2>1 DEF ProposalKept, HasDraft, Drafts
<1> QED BY <1>1, <1>2, <1>3, <1>4 DEF DocumentsInv

\* Whose draft is whose.
LEMMA DraftsApart ==
  ASSUME DocumentsInv
  PROVE  /\ \A t, u \in Tabs : HasDraft(t) /\ HasDraft(u) /\ t # u =>
              page[t].draft # page[u].draft
         /\ \A t \in Tabs : HasDraft(t) =>
              /\ page[t].draft \in Drafts /\ drafts[page[t].draft].owner = t
              /\ \A p \in proposals : p.draft # page[t].draft
<1>1. \A t \in Tabs : HasDraft(t) =>
        page[t].draft \in Drafts /\ drafts[page[t].draft].owner = t
  BY DEF DocumentsInv, PageKept, DraftKept
<1> QED BY <1>1 DEF DocumentsInv, ProposalKept

LEMMA UploadsNextKeeps ==
  ASSUME DocumentsInv, NEW t \in Tabs, UploadsNext(t)
  PROVE  DocumentsInv'
<1> DEFINE d == page[t].draft
<1>1. PICK f \in page[t].left : BeginUpload(t, d, f)
  BY DEF UploadsNext
<1> DEFINE r == Request(t, "upload", d, f, {})
<1>2. /\ requests' = requests \cup {r} /\ page[t].at = "uploading" /\ ~Waiting(t)
      /\ UNCHANGED <<drafts, objects, page, proposals>>
  BY <1>1 DEF UploadsNext, Authed, Calls, BeginUpload, Begin
<1>3. /\ HasDraft(t) /\ DraftKept(t) /\ f \in Files /\ d \in Drafts /\ d \in Nat
      /\ \A s \in requests : s.who # t
  BY <1>1, <1>2, NobodyAwaited, Fields DEF HasDraft, DocumentsInv, PageKept, DraftKept
<1>4. /\ r \in RequestRow /\ r.who = t /\ r.kind = "upload" /\ r.draft = d /\ r.file = f
      /\ r.at = "checked"
  BY <1>3 DEF Request, RequestRow
<1> HIDE DEF r
<1>5. RequestKept(r)
  BY <1>3, <1>4 DEF RequestKept
<1>6. PageKept(t)'
  <2>1. \A s \in requests' : s.who = t => s = r
    BY <1>2, <1>3
  <2>2. Awaited(t)'
    BY <1>1, <1>2, <1>4, <2>1 DEF Awaited
  <2>3. DraftKept(t)'
    BY <1>2, <1>3, <1>4 DEF DraftKept, Drafts
  <2> QED BY <1>2, <2>2, <2>3 DEF PageKept
<1>7. /\ \A u \in Tabs : r.who = u => PageKept(u)'
      /\ \A u \in Tabs : HasDraft(u) /\ r.who # u => page[u].draft # r.draft
      /\ \A p \in proposals : p.draft # r.draft
  BY <1>3, <1>4, <1>6, DraftsApart
<1> QED BY <1>2, <1>4, <1>5, <1>7, BeginKeeps

LEMMA SealsKeeps ==
  ASSUME DocumentsInv, NEW t \in Tabs, Seals(t)
  PROVE  DocumentsInv'
<1> DEFINE d == page[t].draft
           r == Request(t, "seal", d, {}, drafts[d].rows)
<1>1. /\ requests' = requests \cup {r} /\ page[t].at = "sealing" /\ ~Waiting(t)
      /\ UNCHANGED <<drafts, objects, page, proposals>>
  BY DEF Seals, Authed, Calls, BeginSeal, Begin
<1>2. HasDraft(t) /\ DocumentsTypeOK /\ \A s \in requests : s.who # t
  BY <1>1, NobodyAwaited DEF HasDraft, DocumentsInv
<1>3. DraftKept(t) /\ d \in Drafts /\ d \in Nat
  BY <1>2, Fields DEF DocumentsInv, PageKept, DraftKept
<1>4. drafts[d].rows = page[t].chosen /\ drafts[d].rows \subseteq Files
  BY <1>1, <1>2, <1>3, Fields DEF DraftKept
<1>5. /\ r \in RequestRow /\ r.who = t /\ r.kind = "seal" /\ r.draft = d
      /\ r.saw = drafts[d].rows /\ r.at = "checked"
  BY <1>3, <1>4 DEF Request, RequestRow
<1> HIDE DEF r
<1>6. RequestKept(r)
  BY <1>3, <1>5 DEF RequestKept
<1>7. PageKept(t)'
  <2>1. \A s \in requests' : s.who = t => s = r
    BY <1>1, <1>2
  <2>2. Awaited(t)'
    BY <1>1, <1>4, <1>5, <2>1 DEF Awaited
  <2>3. DraftKept(t)'
    BY <1>1, <1>2, <1>3, <1>5 DEF DraftKept, Drafts
  <2> QED BY <1>1, <2>2, <2>3 DEF PageKept
<1>8. /\ \A u \in Tabs : r.who = u => PageKept(u)'
      /\ \A u \in Tabs : HasDraft(u) /\ r.who # u => page[u].draft # r.draft
      /\ \A p \in proposals : p.draft # r.draft
  BY <1>2, <1>5, <1>7, DraftsApart
<1> QED BY <1>1, <1>5, <1>6, <1>8, BeginKeeps

LEMMA OutsideBeginKeeps ==
  ASSUME DocumentsInv, NEW d \in Drafts, drafts[d].owner = Outside,
         BeginSeal(Outside, d) \/ \E f \in Files : BeginUpload(Outside, d, f),
         UNCHANGED <<drafts, objects, page, proposals>>
  PROVE  DocumentsInv'
<1>1. PICK r : /\ requests' = requests \cup {r}
               /\ \/ r = Request(Outside, "seal", d, {}, drafts[d].rows)
                  \/ \E f \in Files : r = Request(Outside, "upload", d, f, {})
  BY DEF BeginSeal, BeginUpload, Begin
<1>2. d \in Nat /\ drafts[d].rows \subseteq Files /\ Outside \notin Tabs
  BY DocumentsAssumption, Fields, Shapes DEF DocumentsInv
<1>3. /\ r \in RequestRow /\ r.who = Outside /\ r.draft = d /\ r.at = "checked"
      /\ r.kind = "upload" => r.file \in Files
      /\ r.kind = "seal" => r.saw = drafts[d].rows
  BY <1>1, <1>2 DEF Request, RequestRow
<1>4. RequestKept(r)
  BY <1>3 DEF RequestKept
<1>5. /\ \A u \in Tabs : r.who # u
      /\ \A u \in Tabs : HasDraft(u) => page[u].draft # r.draft
      /\ \A p \in proposals : p.draft # r.draft
  BY <1>2, <1>3, DraftsApart DEF DocumentsInv, ProposalKept
<1> QED BY <1>1, <1>3, <1>4, <1>5, BeginKeeps

----------------------------------------------------------------------------
\* A request goes on.

\* A request of one page is no other's, and is not on a draft proposed.
LEMMA RequestApart ==
  ASSUME DocumentsInv, NEW r \in requests
  PROVE  /\ RequestKept(r) /\ r.draft \in Drafts /\ r \in RequestRow
         /\ \A t \in Tabs : r.who = t =>
              /\ HasDraft(t) /\ DraftKept(t) /\ Awaited(t) /\ r.draft = page[t].draft
              /\ \A s \in requests : s.who = t => s = r
         /\ \A t \in Tabs : r.who # t /\ HasDraft(t) => r.draft # page[t].draft
         /\ \A p \in proposals : p.draft # r.draft
<1>1. RequestKept(r) /\ r.draft \in Drafts /\ r \in RequestRow
  BY Shapes DEF DocumentsInv, RequestKept
<1>2. ASSUME NEW t \in Tabs, r.who = t
      PROVE  /\ HasDraft(t) /\ DraftKept(t) /\ Awaited(t) /\ r.draft = page[t].draft
             /\ \A s \in requests : s.who = t => s = r
  <2>1. Awaited(t) /\ HasDraft(t)
    BY <1>2 DEF DocumentsInv, PageKept, Awaited, HasDraft
  <2>2. DraftKept(t)
    BY <2>1 DEF DocumentsInv, PageKept
  <2> QED BY <1>2, <2>1, <2>2 DEF DraftKept, Awaited
<1>3. \A t \in Tabs : r.who # t /\ HasDraft(t) => r.draft # page[t].draft
  BY DEF DocumentsInv, PageKept, DraftKept
<1>4. \A p \in proposals : p.draft # r.draft
  BY DEF DocumentsInv, ProposalKept
<1> QED BY <1>1, <1>2, <1>3, <1>4

LEMMA StoreKeeps ==
  ASSUME DocumentsInv, NEW r \in requests, Further(r), NEW obj \in ObjectRow,
         objects' = [objects EXCEPT ![r.draft] = obj],
         UNCHANGED <<drafts, page, proposals>>,
         obj.manifest \subseteq drafts[r.draft].rows,
         objects[r.draft].files \subseteq obj.files,
         r.kind = "upload" => r.file \in obj.files,
         r.kind = "seal" => obj.manifest = r.saw
  PROVE  DocumentsInv'
<1> DEFINE q == [r EXCEPT !.at = "stored"]
           d == r.draft
<1>1. requests' = (requests \ {r}) \cup {q}
  BY DEF Further
<1>2. /\ RequestKept(r) /\ d \in Drafts /\ r \in RequestRow /\ DocumentsTypeOK
      /\ objects \in Seq(ObjectRow) /\ d \in 1..Len(objects) /\ Drafts = 1..Len(objects)
  BY RequestApart, Shapes DEF DocumentsInv, DocumentsTypeOK
<1>3. /\ q \in RequestRow /\ q.who = r.who /\ q.kind = r.kind /\ q.draft = d
      /\ q.file = r.file /\ q.saw = r.saw /\ q.at = "stored"
  BY <1>2 DEF RequestRow
<1> HIDE DEF q
<1>4. /\ objects' \in Seq(ObjectRow) /\ Len(objects') = Len(objects) /\ objects'[d] = obj
      /\ \A e \in Drafts : e # d => objects'[e] = objects[e]
  BY <1>2, ExceptSeq
<1>5. DocumentsTypeOK'
  BY <1>1, <1>2, <1>3, <1>4 DEF DocumentsTypeOK
<1>6. SealedFilesReadable'
  <2>1. ASSUME NEW e \in Drafts
        PROVE  /\ drafts[e].hash \cup objects'[e].manifest \subseteq drafts[e].rows
               /\ drafts[e].rows \subseteq objects'[e].files
    <3>1. CASE e = d
      BY <1>4, <3>1 DEF DocumentsInv, SealedFilesReadable
    <3>2. CASE e # d
      BY <1>4, <3>2 DEF DocumentsInv, SealedFilesReadable
    <3> QED BY <3>1, <3>2
  <2> QED BY <2>1 DEF SealedFilesReadable, Drafts
<1>7. ASSUME NEW s \in requests' PROVE RequestKept(s)'
  <2>1. CASE s = q
    BY <1>2, <1>3, <1>4, <2>1 DEF RequestKept, Drafts
  <2>2. CASE s # q
    <3>1. RequestKept(s) /\ s.draft \in Drafts
      BY <1>1, <2>2 DEF DocumentsInv, RequestKept
    <3>2. objects[s.draft].files \subseteq objects'[s.draft].files
      BY <1>4, <3>1
    <3> QED BY <3>1, <3>2, OtherRequest DEF Drafts
  <2> QED BY <2>1, <2>2
<1>8. ASSUME NEW t \in Tabs PROVE PageKept(t)'
  <2>1. CASE r.who = t
    <3>1. /\ HasDraft(t) /\ DraftKept(t) /\ Awaited(t) /\ d = page[t].draft
          /\ \A s \in requests : s.who = t => s = r
      BY <2>1, RequestApart
    <3>2. /\ page[t].at \in {"uploading", "sealing"}
          /\ page[t].at = "uploading" => r.kind = "upload" /\ r.file \in page[t].left
          /\ page[t].at = "sealing" => r.kind = "seal" /\ r.saw = page[t].chosen
      BY <2>1, <3>1 DEF Awaited
    <3>3. \A s \in requests' : s.who = t => s = q
      BY <1>1, <3>1
    <3>4. Awaited(t)'
      BY <1>3, <1>4, <3>2, <3>3 DEF Awaited
    <3>5. \A s \in requests' : s.draft = d <=> s.who = t
      BY <1>1, <1>3, <2>1, <3>1 DEF DraftKept
    <3>6. DraftKept(t)'
      BY <3>1, <3>2, <3>5 DEF DraftKept, Drafts
    <3> QED BY <3>2, <3>4, <3>6 DEF PageKept
  <2>2. CASE r.who # t
    <3>1. HasDraft(t) => page[t].draft # d /\ page[t].draft \in Drafts
      BY <2>2, RequestApart, DraftsApart
    <3>2. HasDraft(t) => Untouched(page[t].draft)
      BY <1>4, <3>1 DEF Untouched, Drafts
    <3>3. \A s \in requests' : s.who = t => s \in requests
      BY <1>1, <1>3, <2>2
    <3>4. HasDraft(t) => \A s \in requests' : s.draft = page[t].draft => s \in requests
      BY <1>1, <1>3, <3>1
    <3> QED BY <3>2, <3>3, <3>4, OtherPage
  <2> QED BY <2>1, <2>2
<1>9. ASSUME NEW p \in proposals PROVE ProposalKept(p)'
  <2>1. ProposalKept(p) /\ p.draft \in Drafts /\ p.draft # d
    BY RequestApart DEF DocumentsInv, ProposalKept
  <2>2. Untouched(p.draft)
    BY <1>4, <2>1 DEF Untouched, Drafts
  <2>3. \A s \in requests' : s.draft = p.draft => \E x \in requests : x.draft = p.draft
    BY <1>1, <1>3, <2>1
  <2>4. \A t \in Tabs : HasDraft(t)' /\ page'[t].draft = p.draft => FALSE
    BY <2>1 DEF ProposalKept, HasDraft
  <2> QED BY <2>2, <2>3, <2>4, OtherProposal
<1> QED BY <1>5, <1>6, <1>7, <1>8, <1>9 DEF DocumentsInv

LEMMA StoresKeep ==
  ASSUME DocumentsInv, NEW r \in requests, StoreFile(r) \/ StoreManifest(r),
         UNCHANGED <<page, proposals>>
  PROVE  DocumentsInv'
<1> DEFINE d   == r.draft
           was == objects[d]
<1>1. /\ RequestKept(r) /\ d \in Drafts /\ was \in ObjectRow
      /\ was.manifest \subseteq drafts[d].rows
      /\ objects \in Seq(ObjectRow) /\ r.saw \subseteq Files
  BY RequestApart, Shapes, Fields DEF DocumentsInv, SealedFilesReadable, DocumentsTypeOK
<1>2. CASE StoreFile(r)
  <2> DEFINE new == was.files \cup {r.file}
             obj == [was EXCEPT !.files = new]
  <2>1. /\ r.kind = "upload" /\ Further(r) /\ UNCHANGED drafts
        /\ objects' = [objects EXCEPT ![d] = obj]
    BY <1>2 DEF StoreFile
  <2>2. new \subseteq Files
    BY <1>1, <2>1 DEF RequestKept, ObjectRow
  <2> HIDE DEF new, was
  <2>3. obj \in ObjectRow /\ obj.files = new /\ obj.manifest = was.manifest
    BY <1>1, <2>2 DEF ObjectRow
  <2> HIDE DEF obj
  <2>4. /\ obj.manifest \subseteq drafts[d].rows /\ objects[d].files \subseteq obj.files
        /\ r.file \in obj.files
    BY <1>1, <2>3 DEF new, was
  <2> QED BY <2>1, <2>3, <2>4, StoreKeeps
<1>3. CASE StoreManifest(r)
  <2> DEFINE new == r.saw
             obj == [was EXCEPT !.manifest = new]
  <2>1. /\ r.kind = "seal" /\ Further(r) /\ UNCHANGED drafts
        /\ objects' = [objects EXCEPT ![d] = obj]
    BY <1>3 DEF StoreManifest
  <2>2. new \subseteq Files /\ new \subseteq drafts[d].rows
    BY <1>1, <2>1 DEF RequestKept
  <2> HIDE DEF new, was
  <2>3. obj \in ObjectRow /\ obj.files = was.files /\ obj.manifest = new
    BY <1>1, <2>2 DEF ObjectRow
  <2> HIDE DEF obj
  <2>4. /\ obj.manifest \subseteq drafts[d].rows /\ objects[d].files \subseteq obj.files
        /\ obj.manifest = r.saw
    BY <2>2, <2>3 DEF new, was
  <2> QED BY <2>1, <2>3, <2>4, StoreKeeps
<1> QED BY <1>2, <1>3

\* The last write of a request, and its answer.
LEMMA AnswerKeeps ==
  ASSUME DocumentsInv, NEW r \in requests, Answer(r), HeardBy(r),
         UNCHANGED <<objects, proposals>>,
         NEW row \in DraftRow, drafts' = [drafts EXCEPT ![r.draft] = row],
         row.owner = drafts[r.draft].owner,
         row.hash \subseteq row.rows,
         row.rows \subseteq objects[r.draft].files,
         drafts[r.draft].rows \subseteq row.rows,
         r.kind = "upload" => /\ r.file \in row.rows
                              /\ row.rows \subseteq drafts[r.draft].rows \cup {r.file},
         r.kind = "seal" => /\ row.rows = drafts[r.draft].rows
                            /\ row.hash = r.saw /\ r.at = "stored"
  PROVE  DocumentsInv'
<1> DEFINE d == r.draft
<1>1. requests' = requests \ {r}
  BY DEF Answer
<1>2. /\ RequestKept(r) /\ d \in Drafts /\ r \in RequestRow /\ DocumentsTypeOK
      /\ drafts \in Seq(DraftRow) /\ d \in 1..Len(drafts) /\ Drafts = 1..Len(drafts)
      /\ page \in [Tabs -> PageRow] /\ r.kind \in {"upload", "seal"} /\ r.saw \subseteq Files
  BY RequestApart, Shapes, Fields DEF DocumentsInv, DocumentsTypeOK
<1>3. /\ drafts' \in Seq(DraftRow) /\ Len(drafts') = Len(drafts) /\ drafts'[d] = row
      /\ DOMAIN drafts' = Drafts
      /\ \A e \in Drafts : e # d => drafts'[e] = drafts[e]
  BY <1>2, ExceptSeq
<1>4. ASSUME NEW t \in Tabs, r.who = t
      PROVE  /\ page'[t] \in PageRow /\ page' = [page EXCEPT ![t] = page'[t]]
             /\ page'[t].chosen = page[t].chosen /\ page'[t].draft = page[t].draft
             /\ r.kind = "upload" => /\ page'[t].left = page[t].left \ {r.file}
                                     /\ page'[t].at = page[t].at
             /\ r.kind = "seal" => /\ page'[t].left = page[t].left
                                   /\ page'[t].sealed = r.saw /\ page'[t].at = "wallet"
  <2> DEFINE old  == page[t]
             less == old.left \ {r.file}
             saw  == r.saw
             new  == Heard(page[t], r)
  <2>1. /\ page' = [page EXCEPT ![t] = new] /\ page'[t] = new /\ old \in PageRow
        /\ less \subseteq Files /\ saw \subseteq Files
    BY <1>2, <1>4, Fields DEF HeardBy
  <2>2. CASE r.kind = "upload"
    <3>1. new = [old EXCEPT !.left = less, !.retried = FALSE]
      BY <2>2 DEF Heard
    <3> HIDE DEF new, less, old
    <3>2. /\ new \in PageRow /\ new.chosen = old.chosen /\ new.draft = old.draft
          /\ new.left = less /\ new.at = old.at
      BY <2>1, <3>1 DEF PageRow
    <3> QED BY <2>1, <2>2, <3>2 DEF old, less
  <2>3. CASE r.kind = "seal"
    <3>1. new = [old EXCEPT !.sealed = saw, !.at = "wallet"]
      BY <2>3 DEF Heard
    <3> HIDE DEF new, saw, old
    <3>2. /\ new \in PageRow /\ new.chosen = old.chosen /\ new.draft = old.draft
          /\ new.left = old.left /\ new.sealed = saw /\ new.at = "wallet"
      BY <2>1, <3>1 DEF PageRow
    <3> QED BY <2>1, <2>3, <3>2 DEF old, saw
  <2> QED BY <1>2, <2>2, <2>3
<1>5. page' \in [Tabs -> PageRow] /\ \A t \in Tabs : t # r.who => page'[t] = page[t]
  <2>1. CASE r.who \in Tabs
    BY <1>2, <1>4, <2>1
  <2>2. CASE r.who \notin Tabs
    BY <1>2, <2>2 DEF HeardBy
  <2> QED BY <2>1, <2>2
<1>6. DocumentsTypeOK'
  BY <1>1, <1>2, <1>3, <1>5 DEF DocumentsTypeOK
<1>7. SealedFilesReadable'
  <2>1. ASSUME NEW e \in Drafts
        PROVE  /\ drafts'[e].hash \cup objects[e].manifest \subseteq drafts'[e].rows
               /\ drafts'[e].rows \subseteq objects[e].files
    <3>1. CASE e = d
      BY <1>3, <3>1 DEF DocumentsInv, SealedFilesReadable
    <3>2. CASE e # d
      BY <1>3, <3>2 DEF DocumentsInv, SealedFilesReadable
    <3> QED BY <3>1, <3>2
  <2> QED BY <1>3, <2>1 DEF SealedFilesReadable, Drafts
<1>8. ASSUME NEW s \in requests' PROVE RequestKept(s)'
  <2>1. RequestKept(s) /\ s.draft \in Drafts
    BY <1>1 DEF DocumentsInv, RequestKept
  <2>2. drafts[s.draft].rows \subseteq drafts'[s.draft].rows
    BY <1>3, <2>1
  <2> QED BY <1>3, <2>1, <2>2, OtherRequest
<1>9. ASSUME NEW t \in Tabs PROVE PageKept(t)'
  <2>1. CASE r.who = t
    <3>1. /\ HasDraft(t) /\ DraftKept(t) /\ Awaited(t) /\ d = page[t].draft
          /\ \A s \in requests : s.who = t => s = r
      BY <2>1, RequestApart
    <3>2. /\ page[t].at \in {"uploading", "sealing"}
          /\ page[t].at = "uploading" => r.kind = "upload" /\ r.file \in page[t].left
          /\ page[t].at = "sealing" =>
               /\ r.kind = "seal" /\ r.saw = page[t].chosen
               /\ r.at = "stored" => objects[d].manifest = r.saw
      BY <2>1, <3>1 DEF Awaited
    <3>3. /\ \A s \in requests' : s.who # t
          /\ \A s \in requests' : s.draft = d <=> s.who = t
      BY <1>1, <3>1 DEF DraftKept
    <3>4. Awaited(t)'
      BY <3>3 DEF Awaited
    <3>5. CASE page[t].at = "uploading"
      <4>1. /\ page'[t].at = "uploading" /\ page'[t].left = page[t].left \ {r.file}
            /\ page'[t].chosen = page[t].chosen /\ page'[t].draft = d
            /\ r.file \in page[t].left /\ r.kind = "upload"
        BY <1>4, <2>1, <3>1, <3>2, <3>5
      <4>2. DraftKept(t)'
        BY <1>3, <3>1, <3>3, <4>1 DEF DraftKept, Drafts
      <4> QED BY <3>4, <4>1, <4>2 DEF PageKept
    <3>6. CASE page[t].at = "sealing"
      <4>1. /\ page'[t].at = "wallet" /\ page'[t].left = page[t].left
            /\ page'[t].chosen = page[t].chosen /\ page'[t].draft = d
            /\ page'[t].sealed = page[t].chosen
            /\ r.kind = "seal" /\ r.saw = page[t].chosen /\ objects[d].manifest = r.saw
            /\ page[t].left = {}
        BY <1>4, <2>1, <3>1, <3>2, <3>6 DEF DraftKept
      <4>2. DraftKept(t)'
        BY <1>3, <3>1, <3>3, <4>1 DEF DraftKept, Drafts
      <4> QED BY <3>4, <4>1, <4>2 DEF PageKept
    <3> QED BY <3>2, <3>5, <3>6
  <2>2. CASE r.who # t
    <3>1. HasDraft(t) => page[t].draft # d /\ page[t].draft \in Drafts
      BY <2>2, RequestApart, DraftsApart
    <3>2. HasDraft(t) => Untouched(page[t].draft)
      BY <1>3, <3>1 DEF Untouched, Drafts
    <3> QED BY <1>1, <1>5, <2>2, <3>2, OtherPage
  <2> QED BY <2>1, <2>2
<1>10. ASSUME NEW p \in proposals PROVE ProposalKept(p)'
  <2>1. ProposalKept(p) /\ p.draft \in Drafts /\ p.draft # d
    BY RequestApart DEF DocumentsInv, ProposalKept
  <2>2. Untouched(p.draft)
    BY <1>3, <2>1 DEF Untouched, Drafts
  <2>3. ASSUME NEW t \in Tabs, HasDraft(t)', page'[t].draft = p.draft PROVE FALSE
    <3>1. CASE r.who = t
      <4>1. HasDraft(t) /\ page'[t].draft = page[t].draft
        BY <1>4, <3>1, RequestApart
      <4> QED BY <2>1, <2>3, <4>1 DEF ProposalKept
    <3>2. CASE r.who # t
      <4>1. HasDraft(t) /\ page[t].draft = p.draft
        BY <1>5, <2>3, <3>2 DEF HasDraft
      <4> QED BY <2>1, <4>1 DEF ProposalKept
    <3> QED BY <3>1, <3>2
  <2> QED BY <1>1, <2>1, <2>2, <2>3, OtherProposal
<1> QED BY <1>6, <1>7, <1>8, <1>9, <1>10 DEF DocumentsInv

LEMMA AnswersKeep ==
  ASSUME DocumentsInv, NEW r \in requests,
         AnswerKnown(r) \/ RecordFile(r) \/ RecordSeal(r), HeardBy(r), UNCHANGED proposals
  PROVE  DocumentsInv'
<1> DEFINE d   == r.draft
           was == drafts[d]
<1>1. /\ RequestKept(r) /\ d \in Drafts /\ was \in DraftRow /\ objects[d] \in ObjectRow
      /\ was.hash \subseteq was.rows /\ was.rows \subseteq objects[d].files
      /\ drafts \in Seq(DraftRow) /\ r.saw \subseteq Files
  BY RequestApart, Shapes, Fields DEF DocumentsInv, SealedFilesReadable, DocumentsTypeOK
<1>2. CASE AnswerKnown(r)
  <2>1. /\ r.kind = "upload" /\ r.file \in was.rows /\ Answer(r)
        /\ UNCHANGED <<drafts, objects>>
    BY <1>2 DEF AnswerKnown
  <2>2. drafts' = [drafts EXCEPT ![d] = was]
    BY <1>1, <2>1
  <2> HIDE DEF was
  <2>3. was = drafts[d]
    BY DEF was
  <2> QED BY <1>1, <2>1, <2>2, <2>3, AnswerKeeps
<1>3. CASE RecordFile(r)
  <2> DEFINE rows == was.rows \cup {r.file}
             row  == [was EXCEPT !.rows = rows]
  <2>1. /\ r.kind = "upload" /\ r.at = "stored" /\ Answer(r) /\ UNCHANGED objects
        /\ drafts' = [drafts EXCEPT ![d] = row]
    BY <1>3 DEF RecordFile
  <2>2. r.file \in Files /\ r.file \in objects[d].files /\ rows \subseteq Files
    BY <1>1, <2>1 DEF RequestKept, DraftRow
  <2>3. rows \subseteq objects[d].files /\ was = drafts[d]
    BY <1>1, <2>2
  <2> HIDE DEF rows, was
  <2>4. row \in DraftRow /\ row.owner = was.owner /\ row.rows = rows /\ row.hash = was.hash
    BY <1>1, <2>2 DEF DraftRow
  <2> HIDE DEF row
  <2>5. /\ row.hash \subseteq row.rows /\ row.rows \subseteq objects[d].files
        /\ drafts[d].rows \subseteq row.rows /\ row.owner = drafts[d].owner
        /\ r.file \in row.rows /\ row.rows \subseteq drafts[d].rows \cup {r.file}
    BY <1>1, <2>3, <2>4 DEF rows
  <2> QED BY <2>1, <2>4, <2>5, AnswerKeeps
<1>4. CASE RecordSeal(r)
  <2> DEFINE saw == r.saw
             row == [was EXCEPT !.hash = saw]
  <2>1. /\ r.kind = "seal" /\ r.at = "stored" /\ Answer(r) /\ UNCHANGED objects
        /\ drafts' = [drafts EXCEPT ![d] = row]
    BY <1>4 DEF RecordSeal
  <2>2. saw \subseteq Files /\ saw \subseteq was.rows /\ was = drafts[d]
    BY <1>1, <2>1 DEF RequestKept
  <2> HIDE DEF saw, was
  <2>3. row \in DraftRow /\ row.owner = was.owner /\ row.rows = was.rows /\ row.hash = saw
    BY <1>1, <2>2 DEF DraftRow
  <2> HIDE DEF row
  <2>4. /\ row.hash \subseteq row.rows /\ row.rows \subseteq objects[d].files
        /\ drafts[d].rows = row.rows /\ row.owner = drafts[d].owner /\ row.hash = r.saw
    BY <1>1, <2>2, <2>3 DEF saw
  <2> QED BY <2>1, <2>3, <2>4, AnswerKeeps
<1> QED BY <1>2, <1>3, <1>4

----------------------------------------------------------------------------
\* A page goes idle, and no request is left that it would wait for.

LEMMA IdleIsAPage == IdlePage \in PageRow /\ IdlePage.at = "idle"
BY DEF IdlePage, PageRow

LEMMA ClearsKeep ==
  ASSUME DocumentsInv, UNCHANGED <<drafts, objects>>, page' \in [Tabs -> PageRow],
         requests' \subseteq RequestRow,
         \A s \in requests' : RequestKept(s) /\ \E r \in requests : r.draft = s.draft,
         \A t \in Tabs :
            \/ /\ page'[t] = page[t]
               /\ \A s \in requests' :
                     s.who = t \/ (HasDraft(t) /\ s.draft = page[t].draft) => s \in requests
            \/ page'[t] = IdlePage /\ \A s \in requests' : s.who # t,
         \A p \in proposals' : p \in proposals \/ ProposalKept(p)'
  PROVE  DocumentsInv'
<1>1. DocumentsTypeOK' /\ SealedFilesReadable' /\ \A s \in requests' : RequestKept(s)'
  BY DEF DocumentsInv, DocumentsTypeOK, SealedFilesReadable, RequestKept, Drafts
<1>2. ASSUME NEW t \in Tabs PROVE PageKept(t)'
  <2>1. CASE /\ page'[t] = page[t]
             /\ \A s \in requests' :
                   s.who = t \/ (HasDraft(t) /\ s.draft = page[t].draft) => s \in requests
    <3>1. HasDraft(t) => Untouched(page[t].draft)
      BY DEF DocumentsInv, PageKept, DraftKept, Untouched, Drafts
    <3>2. /\ page'[t] = page[t]
          /\ \A s \in requests' : s.who = t => s \in requests
          /\ HasDraft(t) => \A s \in requests' : s.draft = page[t].draft => s \in requests
      BY <2>1
    <3> QED BY ONLY DocumentsInv, t \in Tabs, <3>1, <3>2, OtherPage
  <2>2. CASE page'[t] = IdlePage /\ \A s \in requests' : s.who # t
    <3>1. page'[t].at = "idle"
      BY <2>2, IdleIsAPage
    <3>2. Awaited(t)'
      BY <2>2 DEF Awaited
    <3> QED BY <3>1, <3>2 DEF PageKept, HasDraft
  <2> QED BY <2>1, <2>2
<1>3. ASSUME NEW p \in proposals PROVE ProposalKept(p)'
  <2>1. ProposalKept(p)
    BY DEF DocumentsInv
  <2>2. Untouched(p.draft)
    BY <2>1 DEF ProposalKept, Untouched, Drafts
  <2>3. ASSUME NEW t \in Tabs, HasDraft(t)', page'[t].draft = p.draft PROVE FALSE
    <3>1. page'[t] = page[t]
      BY <2>3, IdleIsAPage DEF HasDraft
    <3> QED BY <2>1, <2>3, <3>1 DEF ProposalKept, HasDraft
  <2>4. \A s \in requests' : s.draft = p.draft => \E r \in requests : r.draft = p.draft
    OBVIOUS
  <2> QED BY <2>2, <2>3, <2>4, OtherProposal
<1> QED BY <1>1, <1>2, <1>3 DEF DocumentsInv

LEMMA FailsKeep ==
  ASSUME DocumentsInv, NEW r \in requests, Fails(r)
  PROVE  DocumentsInv'
<1>1. /\ requests' = requests \ {r} /\ UNCHANGED <<drafts, objects, proposals>>
      /\ page' = IF r.who \in Tabs THEN [page EXCEPT ![r.who] = IdlePage] ELSE page
      /\ DocumentsTypeOK /\ page \in [Tabs -> PageRow] /\ requests \subseteq RequestRow
  BY DEF Fails, Answer, DocumentsInv, DocumentsTypeOK
<1>2. page' \in [Tabs -> PageRow]
  BY <1>1, IdleIsAPage
<1>3. \A s \in requests' : RequestKept(s) /\ \E x \in requests : x.draft = s.draft
  BY <1>1 DEF DocumentsInv
<1>4. ASSUME NEW t \in Tabs
      PROVE  \/ /\ page'[t] = page[t]
                /\ \A s \in requests' :
                      s.who = t \/ (HasDraft(t) /\ s.draft = page[t].draft) => s \in requests
             \/ page'[t] = IdlePage /\ \A s \in requests' : s.who # t
  <2>1. CASE r.who = t
    <3>1. \A s \in requests : s.who = t => s = r
      BY <2>1 DEF DocumentsInv, PageKept, Awaited
    <3> QED BY <1>1, <2>1, <3>1
  <2>2. CASE r.who # t
    BY <1>1, <2>2
  <2> QED BY <2>1, <2>2
<1> QED BY <1>1, <1>2, <1>3, <1>4, ClearsKeep

LEMMA ProposesKeeps ==
  ASSUME DocumentsInv, NEW t \in Tabs, Proposes(t)
  PROVE  DocumentsInv'
<1> DEFINE d == page[t].draft
           new == [draft |-> d, hash |-> page[t].sealed, chosen |-> page[t].chosen]
<1>1. /\ page[t].at = "wallet" /\ proposals' = proposals \cup {new}
      /\ page' = [page EXCEPT ![t] = IdlePage] /\ UNCHANGED <<drafts, objects, requests>>
      /\ page \in [Tabs -> PageRow] /\ requests \subseteq RequestRow
  BY DEF Proposes, DocumentsInv, DocumentsTypeOK
<1>2. /\ page' \in [Tabs -> PageRow] /\ page'[t] = IdlePage
      /\ \A u \in Tabs : u # t => page'[u] = page[u]
  BY <1>1, IdleIsAPage
<1>3. HasDraft(t) /\ DraftKept(t) /\ \A r \in requests : r.who # t
  BY <1>1, NobodyAwaited DEF HasDraft, DocumentsInv, PageKept
<1>4. /\ d \in Drafts /\ drafts[d].owner = t /\ \A r \in requests : r.draft # d
      /\ drafts[d].rows = page[t].chosen /\ page[t].sealed = page[t].chosen
      /\ drafts[d].hash = page[t].chosen /\ objects[d].manifest = page[t].chosen
  BY <1>1, <1>3 DEF DraftKept
<1>5. \A u \in Tabs : HasDraft(u)' => page'[u].draft # d
  BY <1>2, <1>3, DraftsApart, IdleIsAPage DEF HasDraft
<1>6. \A p \in proposals' : p \in proposals \/ ProposalKept(p)'
  <2> DEFINE q == new
  <2>1. q.draft = d /\ q.hash = page[t].chosen /\ q.chosen = page[t].chosen
    BY <1>4
  <2> HIDE DEF new, q
  <2> SUFFICES ASSUME NEW p \in proposals', p \notin proposals PROVE ProposalKept(p)'
    OBVIOUS
  <2>2. p = q
    BY <1>1 DEF q
  <2>3. /\ d \in Drafts' /\ drafts'[d].owner \in Tabs /\ drafts'[d].rows = page[t].chosen
        /\ drafts'[d].hash = page[t].chosen /\ objects'[d].manifest = page[t].chosen
        /\ \A r \in requests' : r.draft # d
    BY <1>1, <1>4 DEF Drafts
  <2> QED BY <1>5, <2>1, <2>2, <2>3 DEF ProposalKept
<1>7. \A s \in requests' : RequestKept(s) /\ \E x \in requests : x.draft = s.draft
  BY <1>1 DEF DocumentsInv
<1> QED BY <1>1, <1>2, <1>3, <1>6, <1>7, ClearsKeep

LEMMA AbandonsKeeps ==
  ASSUME DocumentsInv, NEW t \in Tabs, Abandons(t)
  PROVE  DocumentsInv'
<1> DEFINE Left(r) == [r EXCEPT !.who = IF r.who = t THEN Gone ELSE r.who]
<1>1. /\ requests' = {Left(r) : r \in requests} /\ UNCHANGED <<drafts, objects, proposals>>
      /\ page' = [page EXCEPT ![t] = IdlePage]
      /\ page \in [Tabs -> PageRow] /\ requests \subseteq RequestRow
  BY DEF Abandons, DocumentsInv, DocumentsTypeOK
<1>2. /\ page' \in [Tabs -> PageRow] /\ page'[t] = IdlePage
      /\ \A u \in Tabs : u # t => page'[u] = page[u]
  BY <1>1, IdleIsAPage
<1>3. ASSUME NEW r \in requests
      PROVE  /\ Left(r) \in RequestRow /\ Left(r).draft = r.draft /\ Left(r).kind = r.kind
             /\ Left(r).file = r.file /\ Left(r).saw = r.saw /\ Left(r).at = r.at
             /\ r.who = t => Left(r).who = Gone
             /\ r.who # t => Left(r) = r
  <2>1. r \in RequestRow
    BY <1>1
  <2>2. CASE r.who = t
    <3> DEFINE q == [r EXCEPT !.who = Gone]
    <3>1. Left(r) = q
      BY <2>2
    <3>2. /\ q \in RequestRow /\ q.draft = r.draft /\ q.kind = r.kind /\ q.file = r.file
          /\ q.saw = r.saw /\ q.at = r.at /\ q.who = Gone
      BY <2>1 DEF RequestRow
    <3> QED BY <2>2, <3>1, <3>2
  <2>3. CASE r.who # t
    <3>1. Left(r) = r
      BY <2>1, <2>3 DEF RequestRow
    <3> QED BY <2>1, <2>3, <3>1
  <2> QED BY <2>2, <2>3
<1> HIDE DEF Left
<1>4. requests' \subseteq RequestRow
  BY <1>1, <1>3
<1>5. ASSUME NEW s \in requests'
      PROVE  RequestKept(s) /\ \E x \in requests : x.draft = s.draft
  <2>1. PICK r \in requests : s = Left(r)
    BY <1>1
  <2>2. RequestKept(r)
    BY DEF DocumentsInv
  <2> QED BY <1>3, <2>1, <2>2 DEF RequestKept
<1>6. ASSUME NEW u \in Tabs, u # t, NEW s \in requests',
             s.who = u \/ (HasDraft(u) /\ s.draft = page[u].draft)
      PROVE  s \in requests
  <2>1. PICK r \in requests : s = Left(r)
    BY <1>1
  <2>2. CASE s.who = u
    BY <1>3, <1>6, <2>1, <2>2, DocumentsAssumption
  <2>3. CASE HasDraft(u) /\ s.draft = page[u].draft
    <3>1. r.who = u
      BY <1>3, <2>1, <2>3 DEF DocumentsInv, PageKept, DraftKept
    <3> QED BY <1>3, <1>6, <2>1, <3>1
  <2> QED BY <1>6, <2>2, <2>3
<1>7. \A s \in requests' : s.who # t
  <2> SUFFICES ASSUME NEW r \in requests PROVE Left(r).who # t
    BY <1>1
  <2> QED BY <1>3, DocumentsAssumption
<1> QED BY <1>1, <1>2, <1>4, <1>5, <1>6, <1>7, ClearsKeep

----------------------------------------------------------------------------
LEMMA DocumentsInvStep == DocumentsInv /\ [DocumentsNext]_documentsVars => DocumentsInv'
<1> SUFFICES ASSUME DocumentsInv, [DocumentsNext]_documentsVars PROVE DocumentsInv'
  OBVIOUS
<1>1. ASSUME NEW t \in Tabs, PageStep(t) PROVE DocumentsInv'
  <2>1. ASSUME NEW chosen \in Choosable, Submit(t, chosen) PROVE DocumentsInv'
    BY <2>1, SubmitKeeps
  <2>2. CASE SignsIn(t)
    BY <2>2, Stutters DEF SignsIn, NeedsToken, docVars
  <2>3. CASE Retries(t)
    BY <2>3, RetriesKeeps
  <2>4. CASE SignsInFurther(t)
    BY <2>4, Stutters DEF SignsInFurther
  <2>5. CASE CreatesDraft(t)
    BY <2>5, CreatesDraftKeeps
  <2>6. CASE UploadsNext(t)
    BY <2>6, UploadsNextKeeps
  <2>7. CASE Uploaded(t)
    BY <2>7, UploadedKeeps
  <2>8. CASE Seals(t)
    BY <2>8, SealsKeeps
  <2>9. CASE Proposes(t)
    BY <2>9, ProposesKeeps
  <2>10. CASE Abandons(t)
    BY <2>10, AbandonsKeeps
  <2> QED BY <1>1, <2>1, <2>2, <2>3, <2>4, <2>5, <2>6, <2>7, <2>8, <2>9, <2>10 DEF PageStep
<1>2. CASE OutsideStep
  <2>1. CASE Create(Outside) /\ UNCHANGED <<requests, page, proposals>>
    BY <2>1, OutsideCreateKeeps
  <2>2. ASSUME NEW d \in Drafts, drafts[d].owner = Outside,
               BeginSeal(Outside, d) \/ \E f \in Files : BeginUpload(Outside, d, f),
               UNCHANGED <<drafts, objects, page, proposals>>
        PROVE  DocumentsInv'
    BY <2>2, OutsideBeginKeeps
  <2> QED BY <1>2, <2>1, <2>2 DEF OutsideStep
<1>3. ASSUME NEW r \in requests, Handle(r) PROVE DocumentsInv'
  BY <1>3, StoresKeep, AnswersKeep DEF Handle
<1>4. ASSUME NEW r \in requests, Fails(r) PROVE DocumentsInv'
  BY <1>4, FailsKeep
<1>5. CASE UNCHANGED docVars
  BY <1>5, Stutters
<1>6. UNCHANGED documentsVars => UNCHANGED docVars
  BY DEF documentsVars
<1> QED BY <1>1, <1>2, <1>3, <1>4, <1>5, <1>6 DEF DocumentsNext

(***************************************************************************)
(* What pages and requests know of the drafts stays true: a page's draft   *)
(* is its own, no request on it is out but the one the page waits for, and *)
(* what it holds and what is still to be sent are what was chosen; nothing *)
(* touches a draft that was proposed.  It is what the two theorems below   *)
(* rest on.                                                                *)
(***************************************************************************)
THEOREM DocumentsInvariant == DocumentsSpec => []DocumentsInv
<1>1. DocumentsInit => DocumentsInv
  BY DocumentsInvInit
<1>2. DocumentsInv /\ [DocumentsNext]_documentsVars => DocumentsInv'
  BY DocumentsInvStep
<1> QED BY <1>1, <1>2, PTL DEF DocumentsSpec

(***************************************************************************)
(* The hash on the chain covers exactly what the originator chose, and for *)
(* good: the seal hashes the rows it finds, the page seals when every file *)
(* was answered for, and a request it gave up on, it never comes back to.  *)
(***************************************************************************)
THEOREM ProposedAreChosen == DocumentsSpec => []ProposedAsChosen
<1>1. DocumentsInv => ProposedAsChosen
  <2> SUFFICES ASSUME DocumentsInv, NEW p \in proposals
               PROVE  /\ p.hash = p.chosen
                      /\ Listed(p) = p.hash /\ Opens(p) = p.hash
                      /\ drafts[p.draft].hash = p.hash /\ objects[p.draft].manifest = p.hash
    BY DEF ProposedAsChosen
  <2>1. ProposalKept(p)
    BY DEF DocumentsInv
  <2>2. drafts[p.draft].rows \subseteq objects[p.draft].files
    BY <2>1 DEF ProposalKept, DocumentsInv, SealedFilesReadable
  <2> QED BY <2>1, <2>2 DEF ProposalKept, Listed, Opens
<1> QED BY <1>1, DocumentsInvariant, PTL

(***************************************************************************)
(* Every file a seal or a manifest names has its row, and every row its    *)
(* object: the object is put before the row is written, rows are never     *)
(* taken back, and a seal writes rows that it saw.                         *)
(***************************************************************************)
THEOREM SealedAreReadable == DocumentsSpec => []SealedFilesReadable
<1>1. DocumentsInv => SealedFilesReadable
  BY DEF DocumentsInv
<1> QED BY <1>1, DocumentsInvariant, PTL

----------------------------------------------------------------------------
\* Signing in.  The challenge a tab is answering is its own and still open.

SignInRow == [at : {"no", "needed", "challenged", "proven", "refused"}, nonce : Nat]
Answering(t) == At(t, "challenged") \/ At(t, "proven")

SessionsInv ==
  /\ used \in Seq(BOOLEAN) /\ lapsed \in Nat
  /\ signIn \in [Tabs -> SignInRow]
  /\ \A t \in Tabs : Answering(t) => signIn[t].nonce \in Nonces /\ ~used[signIn[t].nonce]
  /\ \A t, u \in Tabs : Answering(t) /\ Answering(u) /\ signIn[t].nonce = signIn[u].nonce => t = u

\* A tab goes where it answers nothing.
LEMMA TabLeaves ==
  ASSUME SessionsInv, NEW t \in Tabs, UNCHANGED used, lapsed' \in Nat,
         NEW new \in SignInRow, new.at \notin {"challenged", "proven"},
         signIn' = [signIn EXCEPT ![t] = new]
  PROVE  SessionsInv'
<1>1. /\ signIn' \in [Tabs -> SignInRow] /\ signIn'[t] = new
      /\ \A u \in Tabs : u # t => signIn'[u] = signIn[u]
  BY DEF SessionsInv
<1>2. \A u \in Tabs : Answering(u)' => Answering(u) /\ signIn'[u] = signIn[u]
  BY <1>1 DEF Answering, At
<1> QED BY <1>1, <1>2 DEF SessionsInv, Nonces

LEMMA AskKeeps ==
  ASSUME SessionsInv, NEW t \in Tabs, Ask(t)
  PROVE  SessionsInv'
<1> DEFINE n == Len(used) + 1
           new == [at |-> "challenged", nonce |-> n]
<1>1. /\ used \in Seq(BOOLEAN) /\ used' = Append(used, FALSE) /\ UNCHANGED lapsed
      /\ signIn' = [signIn EXCEPT ![t] = [at |-> "challenged", nonce |-> Len(used')]]
      /\ signIn \in [Tabs -> SignInRow]
  BY DEF Ask, SessionsInv
<1>2. /\ used' \in Seq(BOOLEAN) /\ Len(used') = n /\ n \in Nat /\ n \notin Nonces
      /\ n \in DOMAIN used' /\ ~used'[n]
      /\ \A k \in Nonces : k \in DOMAIN used' /\ used'[k] = used[k]
  <2>1. FALSE \in BOOLEAN /\ Nonces = 1..Len(used) /\ Len(used) \in Nat
    BY <1>1 DEF Nonces
  <2>2. /\ used' \in Seq(BOOLEAN) /\ Len(used') = n /\ used'[n] = FALSE
        /\ \A k \in 1..Len(used) : used'[k] = used[k]
    BY <1>1, <2>1, AppendProperties
  <2>3. DOMAIN used' = 1..n
    BY <2>2
  <2> QED BY <2>1, <2>2, <2>3
<1>3. new \in SignInRow /\ new.nonce = n /\ signIn' = [signIn EXCEPT ![t] = new]
  BY <1>1, <1>2 DEF SignInRow
<1> HIDE DEF new, n
<1>4. /\ signIn' \in [Tabs -> SignInRow] /\ signIn'[t].nonce = n
      /\ \A u \in Tabs : u # t => signIn'[u] = signIn[u]
  BY <1>1, <1>3
<1>5. \A u \in Tabs : u # t /\ Answering(u)' =>
        /\ Answering(u) /\ signIn'[u].nonce = signIn[u].nonce /\ signIn[u].nonce \in Nonces
        /\ ~used[signIn[u].nonce]
  BY <1>4 DEF Answering, At, SessionsInv
<1>6. \A u \in Tabs : Answering(u)' =>
        signIn'[u].nonce \in DOMAIN used' /\ ~used'[signIn'[u].nonce]
  BY <1>2, <1>4, <1>5
<1>7. \A u, v \in Tabs : Answering(u)' /\ Answering(v)' /\ signIn'[u].nonce = signIn'[v].nonce
        => u = v
  <2> SUFFICES ASSUME NEW u \in Tabs, NEW v \in Tabs, Answering(u)', Answering(v)',
                      signIn'[u].nonce = signIn'[v].nonce, u # v
               PROVE  FALSE
    OBVIOUS
  <2>1. CASE u = t \/ v = t
    BY <1>2, <1>4, <1>5, <2>1
  <2>2. CASE u # t /\ v # t
    BY <1>5, <2>2 DEF SessionsInv
  <2> QED BY <2>1, <2>2
<1> QED BY <1>1, <1>2, <1>4, <1>6, <1>7 DEF SessionsInv, Nonces

LEMMA MovesOn ==
  ASSUME SessionsInv, NEW t \in Tabs,
         NEW where \in {"no", "needed", "challenged", "proven", "refused"}, Moves(t, where)
  PROVE  /\ signIn' \in [Tabs -> SignInRow] /\ signIn'[t].at = where
         /\ signIn'[t].nonce = signIn[t].nonce
         /\ \A u \in Tabs : u # t => signIn'[u] = signIn[u]
<1> DEFINE old == signIn[t]
           new == [old EXCEPT !.at = where]
<1>1. /\ signIn' = [signIn EXCEPT ![t] = new] /\ old \in SignInRow
      /\ signIn \in [Tabs -> SignInRow]
  BY DEF Moves, SessionsInv
<1> HIDE DEF old
<1>2. new \in SignInRow /\ new.at = where /\ new.nonce = old.nonce
  BY <1>1 DEF SignInRow
<1> HIDE DEF new
<1> QED BY <1>1, <1>2 DEF old

LEMMA RedeemKeeps ==
  ASSUME SessionsInv, NEW t \in Tabs, Redeem(t)
  PROVE  SessionsInv'
<1>1. At(t, "challenged") /\ UNCHANGED <<used, lapsed>>
  BY DEF Redeem
<1>2. /\ signIn' \in [Tabs -> SignInRow] /\ signIn'[t].nonce = signIn[t].nonce
      /\ \A u \in Tabs : u # t => signIn'[u] = signIn[u]
  BY MovesOn DEF Redeem
<1>3. \A u \in Tabs : Answering(u)' => Answering(u) /\ signIn'[u].nonce = signIn[u].nonce
  BY <1>1, <1>2 DEF Answering, At
<1> QED BY <1>1, <1>2, <1>3 DEF SessionsInv, Nonces

LEMMA AdmitKeeps ==
  ASSUME SessionsInv, NEW t \in Tabs, Admit(t)
  PROVE  SessionsInv'
<1> DEFINE n == signIn[t].nonce
<1>1. /\ At(t, "proven") /\ UNCHANGED lapsed /\ used' = [used EXCEPT ![n] = TRUE]
      /\ Moves(t, "no") \/ Moves(t, "refused")
      /\ used \in Seq(BOOLEAN) /\ n \in Nonces /\ Answering(t)
  BY DEF Admit, SessionsInv, Answering
<1>2. /\ used' \in Seq(BOOLEAN) /\ DOMAIN used' = Nonces
      /\ \A k \in Nonces : k # n => used'[k] = used[k]
  BY <1>1, ExceptSeq DEF Nonces
<1>3. /\ signIn' \in [Tabs -> SignInRow] /\ signIn'[t].at \in {"no", "refused"}
      /\ \A u \in Tabs : u # t => signIn'[u] = signIn[u]
  BY <1>1, MovesOn
<1>4. \A u \in Tabs : Answering(u)' =>
        u # t /\ Answering(u) /\ signIn'[u].nonce = signIn[u].nonce
  BY <1>3 DEF Answering, At
<1>5. \A u \in Tabs : Answering(u)' => signIn[u].nonce # n
  BY <1>1, <1>4 DEF SessionsInv
<1> QED BY <1>1, <1>2, <1>3, <1>4, <1>5 DEF SessionsInv, Nonces

LEMMA SessionsInvStep == SessionsInv /\ [DocumentsNext]_documentsVars => SessionsInv'
<1> SUFFICES ASSUME SessionsInv, [DocumentsNext]_documentsVars PROVE SessionsInv'
  OBVIOUS
<1>1. CASE UNCHANGED <<used, lapsed, signIn>>
  BY <1>1 DEF SessionsInv, Answering, At, Nonces
<1>2. ASSUME NEW t \in Tabs, SignInStep(t) PROVE SessionsInv'
  BY <1>2, AskKeeps, RedeemKeeps, AdmitKeeps DEF SignInStep
<1>3. ASSUME NEW t \in Tabs, NeedsToken(t) PROVE SessionsInv'
  <2> DEFINE new == [at |-> "needed", nonce |-> 0]
  <2>1. /\ signIn' = [signIn EXCEPT ![t] = new] /\ UNCHANGED <<used, lapsed>> /\ lapsed \in Nat
        /\ new \in SignInRow /\ new.at = "needed"
    BY <1>3 DEF NeedsToken, SessionsInv, SignInRow
  <2> HIDE DEF new
  <2> QED BY <2>1, TabLeaves
<1>4. ASSUME NEW t \in Tabs, Abandons(t) PROVE SessionsInv'
  <2>1. /\ signIn' = [signIn EXCEPT ![t] = NotSigning] /\ UNCHANGED <<used, lapsed>>
        /\ lapsed \in Nat /\ NotSigning \in SignInRow /\ NotSigning.at = "no"
    BY <1>4 DEF Abandons, SessionsInv, SignInRow, NotSigning
  <2> QED BY <2>1, TabLeaves
<1>5. CASE Lapse
  <2>1. UNCHANGED <<used, signIn>> /\ lapsed' \in Nat
    BY <1>5 DEF Lapse, SessionsInv
  <2> QED BY <2>1 DEF SessionsInv, Answering, At, Nonces
<1>6. ASSUME NEW t \in Tabs, PageStep(t) PROVE SessionsInv'
  BY <1>1, <1>2, <1>3, <1>4, <1>6
     DEF PageStep, Submit, SignsIn, Retries, SignsInFurther, CreatesDraft, UploadsNext,
         Uploaded, Seals, Proposes, sessionVars
<1>7. CASE OutsideStep
  BY <1>1, <1>7 DEF OutsideStep, sessionVars
<1>8. ASSUME NEW r \in requests, Handle(r) \/ Fails(r) PROVE SessionsInv'
  BY <1>1, <1>8 DEF Handle, Fails, sessionVars
<1>9. CASE UNCHANGED documentsVars
  BY <1>1, <1>9 DEF documentsVars, sessionVars
<1> QED BY <1>2, <1>5, <1>6, <1>7, <1>8, <1>9 DEF DocumentsNext

\* An open challenge that is not the one found has a later one open.
LEMMA FoundIsLatest ==
  ASSUME SessionsInv, NEW n \in Nonces, ~used[n], Found # n
  PROVE  \E k \in Nonces : k > n /\ ~used[k]
<1> DEFINE open == {k \in Nonces : ~used[k]}
           N    == Len(used)
           back == {N - k : k \in open}
<1>1. N \in Nat /\ Nonces = 1..N /\ n \in open
  BY DEF SessionsInv, Nonces
<1>2. back \in SUBSET Nat /\ back # {}
  BY <1>1
<1>3. PICK j \in back : \A i \in back : j <= i
  BY ONLY <1>2, LeastElement
<1>4. PICK m \in open : j = N - m
  BY <1>3
<1>5. \A k \in open : k <= m
  <2> SUFFICES ASSUME NEW k \in open PROVE k <= m
    OBVIOUS
  <2>1. N - k \in back
    OBVIOUS
  <2>2. N - m <= N - k
    BY <1>3, <1>4, <2>1
  <2> QED BY <1>1, <1>4, <2>2
<1>6. Found \in open /\ \A k \in open : k <= Found
  BY <1>1, <1>4, <1>5 DEF Found
<1>7. n <= Found /\ Found \in 1..N
  BY <1>1, <1>6
<1> QED BY <1>1, <1>6, <1>7

(***************************************************************************)
(* A signed answer is turned away only for its age or for a later          *)
(* challenge still open: the challenge a tab answers is spent by that tab  *)
(* alone, whatever was asked for and abandoned before or meanwhile.        *)
(***************************************************************************)
THEOREM LatestAnswerIsHeard == DocumentsSpec => AbandonedChallengesDoNotBlock
<1> DEFINE Heeded ==
      \A t \in Tabs :
        (Redeem(t) /\ signIn'[t].at = "refused") =>
           LET mine == signIn[t].nonce
           IN  mine <= lapsed \/ \E n \in Nonces : n > mine /\ ~used[n]
<1>1. DocumentsInit => SessionsInv
  <2>1. NotSigning \in SignInRow /\ NotSigning.at = "no"
    BY DEF NotSigning, SignInRow
  <2> QED BY <2>1 DEF DocumentsInit, SessionsInit, SessionsInv, Answering, At
<1>2. SessionsInv => Heeded
  <2> SUFFICES ASSUME SessionsInv, NEW t \in Tabs, Redeem(t), signIn'[t].at = "refused",
                      ~(signIn[t].nonce <= lapsed)
               PROVE  \E n \in Nonces : n > signIn[t].nonce /\ ~used[n]
    OBVIOUS
  <2> DEFINE mine == signIn[t].nonce
  <2>1. /\ mine \in Nonces /\ ~used[mine] /\ mine \in Nat /\ lapsed \in Nat
    BY DEF SessionsInv, Redeem, Answering, SignInRow
  <2>2. Redeemable(mine) => signIn'[t].at = "proven"
    BY MovesOn DEF Redeem
  <2>3. Found # mine
    BY <2>1, <2>2 DEF Redeemable
  <2> QED BY <2>1, <2>3, FoundIsLatest
<1>3. SessionsInv /\ [DocumentsNext]_documentsVars => SessionsInv'
  BY SessionsInvStep
<1>4. DocumentsSpec => [][Heeded]_sessionVars
  BY <1>1, <1>2, <1>3, PTL DEF DocumentsSpec
<1> QED BY <1>4 DEF AbandonedChallengesDoNotBlock
=============================================================================
