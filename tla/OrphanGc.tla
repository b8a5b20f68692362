-------------------------------- MODULE OrphanGc --------------------------------
(***************************************************************************)
(* Collection of orphan blobs: _gcOrphanBlobs of sync_engine.dart, which   *)
(* ends a sync round, among devices that upload and publish.  A blob is    *)
(* named by the hash of its text.  A device moves to quarantine what two   *)
(* of its rounds in a row found in the store and not in the manifest, and  *)
(* deletes what has been there for the retention period.                   *)
(*                                                                         *)
(* Of the round only what concerns blobs is kept (NoteSync has the rest):  *)
(* a device downloads the manifest, uploads the texts it has changed,      *)
(* publishes, collects.  Its user edits between rounds; of two concurrent  *)
(* texts of a note either may win.  Times are kept as ages.                *)
(***************************************************************************)
EXTENDS Naturals, FiniteSets

CONSTANTS
    Device,
    Note,
    Hash,
    None,       \* "hash" of a note that has no text
    Retention,  \* orphanRetention, in steps of the clock
    Revert,     \* TRUE: a user may type a text that was typed before
    Timely,     \* TRUE: a device that syncs again finds that what others had
                \* uploaded when it last collected is published or given up
    MaxEdits,   \* bound: edits
    MaxFaults   \* bound: rounds that end early, calls that fail

ASSUME GcAssumption ==
    /\ None \notin Hash /\ Retention \in Nat
    /\ Revert \in BOOLEAN /\ Timely \in BOOLEAN /\ MaxEdits \in Nat /\ MaxFaults \in Nat

VARIABLES
    text,        \* text[d][n]: the text of n on d
    base,        \* base[d][n]: the text that d last saw published
    manifest,    \* manifest[n]: the text of n in the remote manifest
    created,     \* there is a remote manifest
    etagOk,      \* etagOk[d]: nobody has published since d downloaded it
    pc,          \* pc[d]: where the round of d stands
    first,       \* first[d]: d found no remote manifest
    view,        \* view[d]: the manifest d downloaded
    merged,      \* merged[d]: the manifest d is to publish
    sending,     \* sending[d]: blobs that d has yet to upload
    failed,      \* failed[d]: notes whose upload failed in this round
    blobs,       \* the store
    quarantine,  \* blobs-orphan/: the hashes in it, with the age of each copy
    orphans,     \* orphans[d]: the orphans that d has found
    candidates,  \* candidates[d]: gcOrphanCandidates in d's database
    moving,      \* moving[d]: blobs that d has yet to quarantine
    edits, faults, typed,
    (* Bookkeeping that the program does not keep.                         *)
    flying,      \* flying[d]: blobs that d uploaded for a text not yet published
    spanned,     \* spanned[d]: blobs of others flying when d last collected
    seen         \* seen[d][h]: how often d found the orphan h since it flies

round_vars == <<pc, first, view, merged, sending, failed, orphans, moving>>
gc_vars == <<text, base, manifest, created, etagOk, round_vars, blobs, quarantine, candidates,
             edits, faults, typed, flying, spanned, seen>>

Texts == [Note -> Hash \cup {None}]
Refs(m) == {m[n] : n \in Note} \ {None}
Copy == [hash : Hash, age : 0 .. Retention + 1]
States == {"off", "merge", "list", "register", "drop", "move", "purge"}

Init ==
    /\ text = [d \in Device |-> [n \in Note |-> None]]
    /\ base = text
    /\ manifest = [n \in Note |-> None]
    /\ created = FALSE
    /\ first = [d \in Device |-> FALSE]
    /\ etagOk = [d \in Device |-> FALSE]
    /\ pc = [d \in Device |-> "off"]
    /\ view = text /\ merged = text
    /\ sending = [d \in Device |-> {}]
    /\ failed = [d \in Device |-> {}]
    /\ blobs = {} /\ quarantine = {}
    /\ orphans = [d \in Device |-> {}]
    /\ candidates = [d \in Device |-> {}]
    /\ moving = [d \in Device |-> {}]
    /\ edits = 0 /\ faults = 0 /\ typed = {}
    /\ flying = [d \in Device |-> {}]
    /\ spanned = [d \in Device |-> {}]
    /\ seen = [d \in Device |-> [h \in Hash |-> 0]]

At(d, s) == pc[d] = s
Go(d, s) == pc' = [pc EXCEPT ![d] = s]

-----------------------------------------------------------------------------
\* The user types a text, or deletes the note.
Edit(d, n, h) ==
    /\ At(d, "off") /\ edits < MaxEdits /\ text[d][n] # h
    /\ Revert \/ h \notin typed
    /\ text' = [text EXCEPT ![d][n] = h]
    /\ flying' = [flying EXCEPT ![d] = @ \cap Refs(text'[d])]
    /\ typed' = typed \cup ({h} \ {None})
    /\ edits' = edits + 1
    /\ UNCHANGED <<base, manifest, created, etagOk, round_vars, blobs, quarantine, candidates, faults,
                   spanned, seen>>

\* _syncOnce: GET, and the merge of each note with base as the common ancestor.
Get(d) ==
    /\ At(d, "off")
    /\ Timely => \A e \in Device \ {d} : flying[e] \cap spanned[d] = {}
    /\ view' = [view EXCEPT ![d] = manifest]
    /\ first' = [first EXCEPT ![d] = ~created]
    /\ etagOk' = [etagOk EXCEPT ![d] = TRUE]
    /\ \E m \in Texts :
        /\ \A n \in Note :
              IF text[d][n] = base[d][n] THEN m[n] = manifest[n]
              ELSE IF manifest[n] = base[d][n] THEN m[n] = text[d][n]
              ELSE m[n] \in {text[d][n], manifest[n]}
        /\ merged' = [merged EXCEPT ![d] = m]
        /\ sending' = [sending EXCEPT ![d] =
                          {m[n] : n \in {k \in Note : m[k] # manifest[k]}} \ {None}]
    /\ failed' = [failed EXCEPT ![d] = {}]
    /\ Go(d, "merge")
    /\ UNCHANGED <<text, base, manifest, created, orphans, moving, blobs, quarantine, candidates,
                   edits, faults, typed, flying, spanned, seen>>

\* _uploadNote: putBlob writes the blob whether or not there is one.
Send(d, h) ==
    /\ At(d, "merge") /\ h \in sending[d]
    /\ sending' = [sending EXCEPT ![d] = @ \ {h}]
    /\ blobs' = blobs \cup {h}
    /\ flying' = [flying EXCEPT ![d] = @ \cup {h}]
    /\ seen' = IF \E e \in Device : h \in flying[e] THEN seen
               ELSE [e \in Device |-> [seen[e] EXCEPT ![h] = 0]]
    /\ UNCHANGED <<text, base, manifest, created, etagOk, pc, first, view, merged, failed, orphans, moving, quarantine,
                   candidates, edits, faults, typed, spanned>>

\* What cannot be uploaded is not published.
SendFails(d, h) ==
    /\ At(d, "merge") /\ h \in sending[d] /\ faults < MaxFaults
    /\ sending' = [sending EXCEPT ![d] = @ \ {h}]
    /\ merged' = [merged EXCEPT ![d] =
                     [n \in Note |-> IF @[n] = h THEN view[d][n] ELSE @[n]]]
    /\ failed' = [failed EXCEPT ![d] = @ \cup {n \in Note : merged[d][n] = h /\ view[d][n] # h}]
    /\ faults' = faults + 1
    /\ UNCHANGED <<text, base, manifest, created, etagOk, pc, first, view, orphans, moving, blobs, quarantine,
                   candidates, edits, typed, flying, spanned, seen>>

\* _updateLocalState; a text whose upload failed stays to be sent.
Settled(d) ==
    LET Settle(f) == [n \in Note |-> IF n \in failed[d] THEN f[n] ELSE merged[d][n]]
    IN  /\ text' = [text EXCEPT ![d] = Settle(@)]
        /\ base' = [base EXCEPT ![d] = Settle(@)]
        /\ flying' = [flying EXCEPT ![d] = @ \cap {text[d][n] : n \in failed[d]}]

\* PUT with If-Match, or If-None-Match for the first manifest, unless nothing
\* changed.  A first upload is not followed by a collection.
Put(d) ==
    /\ At(d, "merge") /\ sending[d] = {}
    /\ \/ ~first[d] /\ merged[d] = view[d] /\ UNCHANGED <<manifest, created, etagOk>>
       \/ /\ first[d] \/ merged[d] # view[d]
          /\ etagOk[d]
          /\ manifest' = merged[d]
          /\ created' = TRUE
          /\ etagOk' = [e \in Device |-> FALSE]
    /\ Settled(d)
    /\ Go(d, IF first[d] THEN "off" ELSE "list")
    /\ UNCHANGED <<first, view, merged, sending, failed, orphans, moving, blobs, quarantine, candidates,
                   edits, faults, typed, spanned, seen>>

\* 412: the round starts again.
PutConflict(d) ==
    /\ At(d, "merge") /\ sending[d] = {} /\ ~etagOk[d]
    /\ first[d] \/ merged[d] # view[d]
    /\ Go(d, "off")
    /\ UNCHANGED <<text, base, manifest, created, etagOk, first, view, merged, sending, failed, orphans, moving, blobs,
                   quarantine, candidates, edits, faults, typed, flying, spanned, seen>>

-----------------------------------------------------------------------------
(* _gcOrphanBlobs.                                                         *)

List(d) ==
    LET found == blobs \ Refs(merged[d]) IN
    /\ At(d, "list")
    /\ orphans' = [orphans EXCEPT ![d] = found]
    /\ Go(d, IF blobs = {} THEN "off" ELSE "register")
    /\ spanned' = [spanned EXCEPT ![d] = UNION {flying[e] : e \in Device \ {d}}]
    /\ seen' = [seen EXCEPT ![d] =
                   [h \in Hash |-> IF h \in found /\ @[h] < 2 THEN @[h] + 1 ELSE @[h]]]
    /\ UNCHANGED <<text, base, manifest, created, etagOk, first, view, merged, sending, failed, moving, blobs,
                   quarantine, candidates, edits, faults, typed, flying>>

\* The candidates of the next round are written, then once more without those
\* that are to be quarantined now.
Registering(d, taken, kept) ==
    /\ At(d, "register")
    /\ moving' = [moving EXCEPT ![d] = taken]
    /\ candidates' = [candidates EXCEPT ![d] = kept]
    /\ Go(d, "drop")
    /\ UNCHANGED <<text, base, manifest, created, etagOk, first, view, merged, sending, failed, orphans, blobs,
                   quarantine, edits, faults, typed, flying, spanned, seen>>

\* Mutants: an orphan is quarantined at first sight; a candidate is quarantined
\* without another look; candidates are not kept for the next round.
Register_FirstSight(d) == Registering(d, orphans[d], orphans[d])
Register_AnyCandidate(d) == Registering(d, candidates[d], orphans[d])
Register_Forgets(d) == Registering(d, orphans[d] \cap candidates[d], {})

Register(d) == Registering(d, orphans[d] \cap candidates[d], orphans[d])

Drop(d) ==
    /\ At(d, "drop")
    /\ candidates' = [candidates EXCEPT ![d] = @ \ moving[d]]
    /\ Go(d, "move")
    /\ UNCHANGED <<text, base, manifest, created, etagOk, first, view, merged, sending, failed, orphans, moving, blobs,
                   quarantine, edits, faults, typed, flying, spanned, seen>>

\* deleteBlobSoft: a move; if a copy of this very moment is there, the blob is
\* deleted; if another device has moved it, nothing is left to do.
Quarantine(d, h) ==
    /\ At(d, "move") /\ h \in moving[d]
    /\ moving' = [moving EXCEPT ![d] = @ \ {h}]
    /\ blobs' = blobs \ {h}
    /\ quarantine' = IF h \in blobs THEN quarantine \cup {[hash |-> h, age |-> 0]} ELSE quarantine
    /\ UNCHANGED <<text, base, manifest, created, etagOk, pc, first, view, merged, sending, failed, orphans, candidates,
                   edits, faults, typed, flying, spanned, seen>>

QuarantineFails(d, h) ==
    /\ At(d, "move") /\ h \in moving[d] /\ faults < MaxFaults
    /\ moving' = [moving EXCEPT ![d] = @ \ {h}]
    /\ faults' = faults + 1
    /\ UNCHANGED <<text, base, manifest, created, etagOk, pc, first, view, merged, sending, failed, orphans, blobs,
                   quarantine, candidates, edits, typed, flying, spanned, seen>>

\* purgeOrphans
Purge(d) ==
    /\ At(d, "move") /\ moving[d] = {}
    /\ quarantine' = {c \in quarantine : c.age <= Retention}
    /\ Go(d, "off")
    /\ UNCHANGED <<text, base, manifest, created, etagOk, first, view, merged, sending, failed, orphans, moving, blobs,
                   candidates, edits, faults, typed, flying, spanned, seen>>

\* The process dies, or an exception ends the round.
Abort(d) ==
    /\ ~At(d, "off") /\ faults < MaxFaults
    /\ Go(d, "off")
    /\ faults' = faults + 1
    /\ UNCHANGED <<text, base, manifest, created, etagOk, first, view, merged, sending, failed, orphans, moving, blobs,
                   quarantine, candidates, edits, typed, flying, spanned, seen>>

Tick ==
    /\ \E c \in quarantine : c.age <= Retention
    /\ quarantine' = {[c EXCEPT !.age = IF @ <= Retention THEN @ + 1 ELSE @] : c \in quarantine}
    /\ UNCHANGED <<text, base, manifest, created, etagOk, round_vars, blobs, candidates,
                   edits, faults, typed, flying, spanned, seen>>

Round(d) ==
    \/ Get(d) \/ Put(d) \/ PutConflict(d) \/ List(d) \/ Register(d) \/ Drop(d) \/ Purge(d)
    \/ \E h \in Hash : Send(d, h) \/ Quarantine(d, h)

Next ==
    \/ \E d \in Device :
        \/ Round(d) \/ Abort(d)
        \/ \E n \in Note, h \in Hash \cup {None} : Edit(d, n, h)
        \/ \E h \in Hash : SendFails(d, h) \/ QuarantineFails(d, h)
    \/ Tick

Spec == Init /\ [][Next]_gc_vars
FairSpec == Spec /\ WF_gc_vars(Tick) /\ \A d \in Device : WF_gc_vars(Round(d))

-----------------------------------------------------------------------------
TypeOK ==
    /\ text \in [Device -> Texts] /\ base \in [Device -> Texts]
    /\ manifest \in Texts /\ view \in [Device -> Texts] /\ merged \in [Device -> Texts]
    /\ created \in BOOLEAN /\ first \in [Device -> BOOLEAN]
    /\ etagOk \in [Device -> BOOLEAN] /\ pc \in [Device -> States]
    /\ sending \in [Device -> SUBSET Hash] /\ failed \in [Device -> SUBSET Note] /\ orphans \in [Device -> SUBSET Hash]
    /\ candidates \in [Device -> SUBSET Hash] /\ moving \in [Device -> SUBSET Hash]
    /\ blobs \subseteq Hash /\ quarantine \subseteq Copy
    /\ edits \in 0 .. MaxEdits /\ faults \in 0 .. MaxFaults /\ typed \subseteq Hash
    /\ flying \in [Device -> SUBSET Hash] /\ spanned \in [Device -> SUBSET Hash]
    /\ seen \in [Device -> [Hash -> 0 .. 2]]

\* Every blob the manifest refers to is in the store.
Referenced == Refs(manifest) \subseteq blobs

\* A blob that is being uploaded is spared until a device has found it an orphan
\* in two rounds.
UploadsProtected ==
    [][\A d \in Device, h \in blobs \ blobs' :
          (\E e \in Device \ {d} : h \in flying[e]) /\ h \in moving[d] \ moving'[d] =>
              seen[d][h] = 2]_gc_vars

\* A text leaves the vault only from quarantine, after the retention period.
Held(h) == h \in blobs \/ \E c \in quarantine : c.hash = h
Retained ==
    [][\A h \in Hash : Held(h) /\ ~Held(h)' =>
          h \notin blobs /\ \A c \in quarantine : c.hash = h => c.age > Retention]_gc_vars

\* Nothing is collected too soon.
Spared == UploadsProtected /\ Retained

\* A blob that nobody wants any more leaves the store; and it leaves quarantine
\* if the store does not become empty: an empty listing ends the collection
\* before purgeOrphans.
Unwanted(h) == h \notin Refs(manifest) /\ \A d \in Device : h \notin Refs(text[d])
Collected ==
    \A h \in Hash :
        <>[]Unwanted(h) =>
            /\ <>[](h \notin blobs)
            /\ <>[](blobs # {}) => <>[]~Held(h)
================================================================================
