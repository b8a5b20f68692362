---------------------------- MODULE OrphanGcProofs ----------------------------
(* Proofs about the collection of orphan blobs (OrphanGc).                  *)
EXTENDS OrphanGc, TLAPS

-----------------------------------------------------------------------------
(* Types.                                                                  *)

LEMMA TypeInit == Init => TypeOK
<1> SUFFICES ASSUME Init PROVE TypeOK
  OBVIOUS
<1>1. [n \in Note |-> None] \in Texts
  BY DEF Texts
<1>2. text \in [Device -> Texts] /\ manifest \in Texts
  BY <1>1 DEF Init
<1>3. [h \in Hash |-> 0] \in [Hash -> 0 .. 2]
  OBVIOUS
<1>4. seen \in [Device -> [Hash -> 0 .. 2]]
  BY <1>3 DEF Init
<1>5. pc \in [Device -> States] /\ edits \in 0 .. MaxEdits /\ faults \in 0 .. MaxFaults
  BY GcAssumption DEF Init, States
<1>6. base \in [Device -> Texts] /\ view \in [Device -> Texts] /\ merged \in [Device -> Texts]
  BY <1>2 DEF Init
<1>7. first \in [Device -> BOOLEAN] /\ etagOk \in [Device -> BOOLEAN] /\ created \in BOOLEAN
  BY DEF Init
<1>8. {} \in SUBSET Hash /\ {} \in SUBSET Note
  OBVIOUS
<1>9. /\ sending \in [Device -> SUBSET Hash] /\ failed \in [Device -> SUBSET Note]
      /\ orphans \in [Device -> SUBSET Hash] /\ candidates \in [Device -> SUBSET Hash]
      /\ moving \in [Device -> SUBSET Hash] /\ flying \in [Device -> SUBSET Hash]
      /\ spanned \in [Device -> SUBSET Hash]
  BY <1>8 DEF Init
<1> QED
  BY <1>2, <1>4, <1>5, <1>6, <1>7, <1>9 DEF Init, TypeOK

\* The steps that only move a round on.
LEMMA GoTyped ==
  ASSUME pc \in [Device -> States], NEW d \in Device, NEW s \in States, Go(d, s)
  PROVE  pc' \in [Device -> States]
BY DEF Go

LEMMA TypeRound ==
  ASSUME TypeOK, NEW d \in Device, Round(d) \/ Abort(d)
  PROVE  TypeOK'
<1> USE DEF TypeOK
<1>1. ASSUME Get(d) PROVE TypeOK'
  <2>1. PICK m \in Texts :
           /\ merged' = [merged EXCEPT ![d] = m]
           /\ sending' = [sending EXCEPT ![d] = {m[n] : n \in {k \in Note : m[k] # manifest[k]}} \ {None}]
    BY <1>1 DEF Get
  <2>2. {m[n] : n \in {k \in Note : m[k] # manifest[k]}} \ {None} \in SUBSET Hash
    BY DEF Texts
  <2>3. sending' \in [Device -> SUBSET Hash] /\ merged' \in [Device -> Texts]
    BY <2>1, <2>2
  <2>4. first' \in [Device -> BOOLEAN] /\ etagOk' \in [Device -> BOOLEAN] /\ view' \in [Device -> Texts]
    BY <1>1 DEF Get
  <2>5. failed' \in [Device -> SUBSET Note] /\ pc' \in [Device -> States]
    BY <1>1, GoTyped DEF Get, States
  <2> QED
    BY <1>1, <2>3, <2>4, <2>5 DEF Get
<1>2. ASSUME Put(d) PROVE TypeOK'
  <2>1. \A f \in Texts : [n \in Note |-> IF n \in failed[d] THEN f[n] ELSE merged[d][n]] \in Texts
    BY DEF Texts
  <2>2. text' \in [Device -> Texts] /\ base' \in [Device -> Texts]
    BY <1>2, <2>1 DEF Put, Settled
  <2>3. flying' \in [Device -> SUBSET Hash]
    BY <1>2 DEF Put, Settled
  <2>a. [e \in Device |-> FALSE] \in [Device -> BOOLEAN] /\ merged[d] \in Texts
    OBVIOUS
  <2>4. manifest' \in Texts /\ created' \in BOOLEAN /\ etagOk' \in [Device -> BOOLEAN]
    BY <1>2, <2>a DEF Put
  <2>5. pc' \in [Device -> States]
    BY <1>2, GoTyped DEF Put, States
  <2> QED
    BY <1>2, <2>2, <2>3, <2>4, <2>5 DEF Put
<1>3. ASSUME PutConflict(d) \/ Abort(d) \/ Drop(d) PROVE TypeOK'
  <2>1. pc' \in [Device -> States]
    BY <1>3, GoTyped DEF PutConflict, Abort, Drop, States
  <2>2. faults' \in 0 .. MaxFaults /\ candidates' \in [Device -> SUBSET Hash]
    BY <1>3, GcAssumption DEF PutConflict, Abort, Drop
  <2> QED
    BY <1>3, <2>1, <2>2 DEF PutConflict, Abort, Drop
<1>4. ASSUME List(d) PROVE TypeOK'
  <2>1. pc' \in [Device -> States] /\ orphans' \in [Device -> SUBSET Hash]
    BY <1>4, GoTyped DEF List, States
  <2>2. spanned' \in [Device -> SUBSET Hash]
    BY <1>4 DEF List
  <2>3. [h \in Hash |-> IF h \in blobs \ Refs(merged[d]) /\ seen[d][h] < 2 THEN seen[d][h] + 1 ELSE seen[d][h]]
           \in [Hash -> 0 .. 2]
    OBVIOUS
  <2>4. seen' \in [Device -> [Hash -> 0 .. 2]]
    BY <1>4, <2>3 DEF List
  <2> QED
    BY <1>4, <2>1, <2>2, <2>4 DEF List
<1>5. ASSUME Register(d) PROVE TypeOK'
  <2>1. pc' \in [Device -> States]
    BY <1>5, GoTyped DEF Register, Registering, States
  <2>2. moving' \in [Device -> SUBSET Hash] /\ candidates' \in [Device -> SUBSET Hash]
    BY <1>5 DEF Register, Registering
  <2> QED
    BY <1>5, <2>1, <2>2 DEF Register, Registering
<1>6. ASSUME Purge(d) PROVE TypeOK'
  BY <1>6, GoTyped DEF Purge, States
<1>7. ASSUME NEW h \in Hash, Send(d, h) PROVE TypeOK'
  <2>1. \A e \in Device : [seen[e] EXCEPT ![h] = 0] \in [Hash -> 0 .. 2]
    OBVIOUS
  <2>2. seen' \in [Device -> [Hash -> 0 .. 2]]
    BY <1>7, <2>1 DEF Send
  <2>3. sending' \in [Device -> SUBSET Hash] /\ flying' \in [Device -> SUBSET Hash] /\ blobs' \subseteq Hash
    BY <1>7 DEF Send
  <2> QED
    BY <1>7, <2>2, <2>3 DEF Send
<1>8. ASSUME NEW h \in Hash, Quarantine(d, h) PROVE TypeOK'
  <2>1. [hash |-> h, age |-> 0] \in Copy
    BY GcAssumption DEF Copy
  <2>2. quarantine' \subseteq Copy /\ moving' \in [Device -> SUBSET Hash]
    BY <1>8, <2>1 DEF Quarantine
  <2> QED
    BY <1>8, <2>2 DEF Quarantine
<1> QED
  BY <1>1, <1>2, <1>3, <1>4, <1>5, <1>6, <1>7, <1>8 DEF Round

LEMMA TypeOthers ==
  ASSUME TypeOK,
         \/ Tick
         \/ \E d \in Device : \/ \E n \in Note, h \in Hash \cup {None} : Edit(d, n, h)
                              \/ \E h \in Hash : SendFails(d, h) \/ QuarantineFails(d, h)
  PROVE  TypeOK'
<1> USE DEF TypeOK
<1>1. ASSUME Tick PROVE TypeOK'
  <2>a. \A c \in Copy : (IF c.age <= Retention THEN c.age + 1 ELSE c.age) \in 0 .. Retention + 1
    BY GcAssumption DEF Copy
  <2>1. \A c \in Copy : [c EXCEPT !.age = IF c.age <= Retention THEN c.age + 1 ELSE c.age] \in Copy
    BY <2>a DEF Copy
  <2>2. quarantine' \subseteq Copy
    BY <1>1, <2>1 DEF Tick
  <2> QED
    BY <1>1, <2>2 DEF Tick, round_vars
<1>2. ASSUME NEW d \in Device, NEW n \in Note, NEW h \in Hash \cup {None}, Edit(d, n, h) PROVE TypeOK'
  <2>1. text' \in [Device -> Texts]
    BY <1>2 DEF Edit, Texts
  <2>2. flying' \in [Device -> SUBSET Hash] /\ typed' \subseteq Hash /\ edits' \in 0 .. MaxEdits
    BY <1>2, GcAssumption DEF Edit
  <2> QED
    BY <1>2, <2>1, <2>2 DEF Edit, round_vars
<1>3. ASSUME NEW d \in Device, NEW h \in Hash, SendFails(d, h) PROVE TypeOK'
  <2>1. [n \in Note |-> IF merged[d][n] = h THEN view[d][n] ELSE merged[d][n]] \in Texts
    BY DEF Texts
  <2>2. merged' \in [Device -> Texts]
    BY <1>3, <2>1 DEF SendFails
  <2>3. sending' \in [Device -> SUBSET Hash] /\ failed' \in [Device -> SUBSET Note] /\ faults' \in 0 .. MaxFaults
    BY <1>3, GcAssumption DEF SendFails
  <2> QED
    BY <1>3, <2>2, <2>3 DEF SendFails
<1>4. ASSUME NEW d \in Device, NEW h \in Hash, QuarantineFails(d, h) PROVE TypeOK'
  <2>1. moving' \in [Device -> SUBSET Hash] /\ faults' \in 0 .. MaxFaults
    BY <1>4, GcAssumption DEF QuarantineFails
  <2> QED
    BY <1>4, <2>1 DEF QuarantineFails
<1> QED
  BY <1>1, <1>2, <1>3, <1>4

\* The devices' tables, rounds and candidates, the store, the quarantine and what
\* is counted keep their shape.
THEOREM GcTypeCorrect == Spec => []TypeOK
<1>1. TypeOK /\ UNCHANGED gc_vars => TypeOK'
  BY DEF TypeOK, gc_vars, round_vars
<1>2. TypeOK /\ Next => TypeOK'
  BY TypeRound, TypeOthers DEF Next
<1> QED
  BY TypeInit, <1>1, <1>2, PTL DEF Spec

-----------------------------------------------------------------------------
(* What leaves the vault.                                                  *)

\* Without any assumption on what users type or on how devices take turns, a text
\* leaves the vault only from quarantine and after the retention period
\* (deleteBlobSoft, purgeOrphans).
THEOREM RetainedCorrect == Spec => Retained
<1> DEFINE Kept == \A h \in Hash : Held(h) /\ ~Held(h)' =>
                      h \notin blobs /\ \A c \in quarantine : c.hash = h => c.age > Retention
<1>1. TypeOK /\ Next => Kept
  <2> SUFFICES ASSUME TypeOK, Next, NEW h \in Hash, Held(h), ~Held(h)'
               PROVE  h \notin blobs /\ \A c \in quarantine : c.hash = h => c.age > Retention
    OBVIOUS
  <2> USE DEF Held
  <2>1. ASSUME NEW d \in Device, Purge(d)
        PROVE  h \notin blobs /\ \A c \in quarantine : c.hash = h => c.age > Retention
    BY <2>1, GcAssumption DEF Purge, TypeOK, Copy
  <2>2. ASSUME NEW d \in Device, NEW k \in Hash, Quarantine(d, k) PROVE FALSE
    <3>1. [hash |-> k, age |-> 0].hash = k
      OBVIOUS
    <3> QED
      BY <2>2, <3>1 DEF Quarantine
  <2>3. ASSUME Tick PROVE FALSE
    <3>1. \A c \in quarantine : [c EXCEPT !.age = IF c.age <= Retention THEN c.age + 1 ELSE c.age].hash = c.hash
      BY DEF TypeOK, Copy
    <3> QED
      BY <2>3, <3>1 DEF Tick
  <2>4. ASSUME NEW d \in Device, NEW k \in Hash, Send(d, k) PROVE FALSE
    BY <2>4 DEF Send
  <2>5. ASSUME UNCHANGED <<blobs, quarantine>> PROVE FALSE
    BY <2>5
  <2> QED
    BY <2>1, <2>2, <2>3, <2>4, <2>5
       DEF Next, Round, Edit, Get, SendFails, Put, PutConflict, List, Register, Registering, Drop,
           QuarantineFails, Abort
<1>2. TypeOK /\ UNCHANGED gc_vars => Kept
  BY DEF gc_vars, Held
<1>3. TypeOK /\ [Next]_gc_vars => [Kept]_gc_vars
  BY <1>1, <1>2
<1> QED
  BY <1>1, <1>2, GcTypeCorrect, PTL DEF Spec, Retained

-----------------------------------------------------------------------------
(* Where a text is while it is being uploaded.  If no text is typed twice,  *)
(* a text that is not published yet belongs to one note of one device.     *)

\* d has typed h into n and has not settled it.
Pending(d, n, h) == text[d][n] = h /\ base[d][n] # h
Elsewhere(d, h) == \E e \in Device \ {d}, n \in Note : Pending(e, n, h)

\* Nothing is anywhere that has not been typed.
TypedOnly ==
    /\ blobs \subseteq typed /\ Refs(manifest) \subseteq typed
    /\ \A d \in Device :
        /\ Refs(text[d]) \cup Refs(base[d]) \cup Refs(view[d]) \cup Refs(merged[d]) \subseteq typed
        /\ orphans[d] \cup candidates[d] \cup moving[d] \subseteq typed
        /\ \A h \in Hash \ typed : seen[d][h] = 0

OnlyOne ==
    \A d \in Device, n \in Note, h \in Hash : Pending(d, n, h) =>
        /\ h \notin Refs(manifest)
        /\ \A e \in Device : h \notin Refs(view[e]) \cup Refs(base[e])
        /\ \A e \in Device, k \in Note : text[e][k] = h \/ merged[e][k] = h => e = d /\ k = n

\* What a round is about to publish it has downloaded, or its user has typed it.
Merging ==
    \A d \in Device :
      /\ etagOk[d] => view[d] = manifest
      /\ At(d, "merge") =>
          /\ \A n \in Note : merged[d][n] # view[d][n] =>
                merged[d][n] = text[d][n] /\ text[d][n] # base[d][n]
          /\ \A n \in failed[d] : merged[d][n] = view[d][n] /\ text[d][n] # base[d][n]
          /\ \A h \in sending[d] : \E n \in Note : merged[d][n] = h /\ view[d][n] # h

\* What flies is pending, and of what is pending and does not fly there is no trace.
Flying ==
    \A d \in Device, h \in Hash :
        /\ h \in flying[d] => \E n \in Note : Pending(d, n, h)
        /\ \A n \in Note : Pending(d, n, h) /\ h \notin flying[d] =>
              /\ h \notin blobs
              /\ \A e \in Device : h \notin orphans[e] \cup candidates[e] \cup moving[e]
                                /\ seen[e][h] = 0

Texted == TypedOnly /\ OnlyOne /\ Merging /\ Flying

LEMMA TextedInit == Init => Texted
<1> SUFFICES ASSUME Init PROVE Texted
  OBVIOUS
<1>1. /\ \A d \in Device, n \in Note : /\ text[d][n] = None /\ base[d][n] = None
                                     /\ view[d][n] = None /\ merged[d][n] = None
      /\ \A n \in Note : manifest[n] = None
  BY DEF Init
<1>2. Refs(manifest) = {} /\ \A d \in Device : Refs(text[d]) = {} /\ Refs(base[d]) = {}
                                             /\ Refs(view[d]) = {} /\ Refs(merged[d]) = {}
  BY <1>1 DEF Refs
<1>3. TypedOnly
  BY <1>2 DEF Init, TypedOnly
<1>4. \A d \in Device, n \in Note, h \in Hash : ~Pending(d, n, h)
  BY <1>1, GcAssumption DEF Pending
<1>5. \A d \in Device : etagOk[d] = FALSE /\ pc[d] = "off" /\ flying[d] = {}
  BY DEF Init
<1> QED
  BY <1>3, <1>4, <1>5 DEF Texted, OnlyOne, Merging, Flying, At

\* Steps that bring nothing new.
LEMMA TextedFrame ==
  ASSUME TypeOK, Texted, blobs' \subseteq blobs,
         UNCHANGED <<typed, manifest, text, base, view, merged, etagOk, sending, failed, flying, seen>>,
         \A d \in Device : /\ pc'[d] = "merge" => pc[d] = "merge"
                           /\ orphans'[d] \cup candidates'[d] \cup moving'[d]
                                 \subseteq orphans[d] \cup candidates[d] \cup moving[d]
  PROVE  Texted'
<1>1. TypedOnly'
  BY DEF Texted, TypedOnly, Refs
<1>2. OnlyOne'
  BY DEF Texted, OnlyOne, Pending, Refs
<1>3. Merging'
  BY DEF Texted, Merging, At
<1>4. Flying'
  BY DEF Texted, Flying, Pending
<1> QED
  BY <1>1, <1>2, <1>3, <1>4 DEF Texted

LEMMA TextedList ==
  ASSUME TypeOK, Texted, NEW d \in Device, List(d)
  PROVE  Texted'
<1>a. UNCHANGED <<text, base, manifest, etagOk, view, merged, sending, failed, moving, blobs, candidates,
                  typed, flying>>
  BY DEF List
<1>b. \A e \in Device : /\ orphans'[e] \subseteq orphans[e] \cup blobs
                        /\ pc'[e] = "merge" => pc[e] = "merge"
                        /\ \A h \in Hash \ blobs : seen'[e][h] = seen[e][h]
  BY DEF List, TypeOK, Go
<1>1. TypedOnly'
  <2>1. \A e \in Device, h \in Hash \ typed : seen'[e][h] = 0
    BY <1>b DEF Texted, TypedOnly
  <2> QED
    BY <1>a, <1>b, <2>1 DEF Texted, TypedOnly, Refs
<1>2. OnlyOne'
  BY <1>a DEF Texted, OnlyOne, Pending, Refs
<1>3. Merging'
  BY <1>a, <1>b DEF Texted, Merging, At
<1>4. Flying'
  BY <1>a, <1>b DEF Texted, Flying, Pending
<1> QED
  BY <1>1, <1>2, <1>3, <1>4 DEF Texted

LEMMA TextedEdit ==
  ASSUME ~Revert, TypeOK, Texted, NEW d \in Device, NEW n \in Note, NEW h \in Hash \cup {None}, Edit(d, n, h)
  PROVE  Texted'
<1>a. /\ At(d, "off") /\ h \notin typed /\ None \notin Hash
      /\ typed' = typed \cup ({h} \ {None}) /\ typed \subseteq Hash
      /\ flying' = [flying EXCEPT ![d] = @ \cap Refs(text'[d])]
      /\ UNCHANGED <<base, manifest, etagOk, pc, view, merged, sending, failed, orphans, moving, blobs,
                     candidates, seen>>
  BY GcAssumption DEF Edit, round_vars, TypeOK
<1>b. \A e \in Device, k \in Note : text'[e][k] = IF e = d /\ k = n THEN h ELSE text[e][k]
  BY DEF Edit, TypeOK, Texts
<1>c. ASSUME NEW e \in Device, NEW k \in Note, NEW g \in Hash, Pending(e, k, g)'
      PROVE  \/ Pending(e, k, g) /\ ~(e = d /\ k = n)
             \/ e = d /\ k = n /\ g = h /\ h \notin typed
  <2>a. text'[e][k] = g /\ base[e][k] # g
    BY <1>a, <1>c DEF Pending
  <2>1. CASE e = d /\ k = n
    BY <2>a, <2>1, <1>a, <1>b
  <2>2. CASE ~(e = d /\ k = n)
    BY <2>a, <2>2, <1>b DEF Pending
  <2> QED
    BY <2>1, <2>2
<1>1. TypedOnly'
  <2>1. \A e \in Device : Refs(text'[e]) \subseteq Refs(text[e]) \cup ({h} \ {None})
    BY <1>b DEF Refs
  <2>2. blobs' \subseteq typed' /\ Refs(manifest') \subseteq typed'
    BY <1>a DEF Texted, TypedOnly
  <2>3. \A e \in Device : Refs(text'[e]) \subseteq typed'
    BY <1>a, <2>1 DEF Texted, TypedOnly
  <2>4. \A e \in Device : /\ Refs(base[e]) \cup Refs(view[e]) \cup Refs(merged[e]) \subseteq typed'
                          /\ orphans[e] \cup candidates[e] \cup moving[e] \subseteq typed'
                          /\ \A g \in Hash \ typed' : seen[e][g] = 0
    BY <1>a DEF Texted, TypedOnly
  <2> QED
    BY <1>a, <2>2, <2>3, <2>4 DEF TypedOnly, Refs
<1>d. h \notin Refs(manifest) /\ h \notin blobs /\
      \A e \in Device : /\ h \notin Refs(view[e]) \cup Refs(base[e]) \cup Refs(text[e]) \cup Refs(merged[e])
                        /\ h \notin orphans[e] \cup candidates[e] \cup moving[e]
  BY <1>a DEF Texted, TypedOnly
<1>2. OnlyOne'
  <2> SUFFICES ASSUME NEW e \in Device, NEW k \in Note, NEW g \in Hash, Pending(e, k, g)'
               PROVE  /\ g \notin Refs(manifest)
                      /\ \A f \in Device : g \notin Refs(view[f]) \cup Refs(base[f])
                      /\ \A f \in Device, j \in Note : text'[f][j] = g \/ merged[f][j] = g => f = e /\ j = k
    BY <1>a DEF OnlyOne, Refs
  <2>1. CASE Pending(e, k, g) /\ ~(e = d /\ k = n)
    <3>1. text[e][k] = g /\ g \in typed
      BY <2>1, <1>a DEF Pending, Texted, TypedOnly, Refs
    <3>2. g # h
      BY <3>1, <1>a
    <3> QED
      BY <2>1, <3>2, <1>b DEF Texted, OnlyOne
  <2>2. CASE e = d /\ k = n /\ g = h
    BY <2>2, <1>a, <1>b, <1>d DEF Refs
  <2> QED
    BY <2>1, <2>2, <1>c
<1>3. Merging'
  <2>1. \A e \in Device : pc[e] = "merge" => e # d /\ \A k \in Note : text'[e][k] = text[e][k]
    BY <1>a, <1>b DEF At
  <2>2. \A e \in Device : failed[e] \subseteq Note
    BY DEF TypeOK
  <2> QED
    BY <1>a, <2>1, <2>2 DEF Texted, Merging, At
<1>4. Flying'
  <2>1. ASSUME NEW e \in Device, NEW g \in Hash, g \in flying'[e] PROVE \E k \in Note : Pending(e, k, g)'
    <3>1. g \in flying[e] /\ (e = d => g \in Refs(text'[d]))
      BY <1>a, <2>1 DEF TypeOK
    <3>2. PICK k \in Note : Pending(e, k, g)
      BY <3>1 DEF Texted, Flying
    <3>3. CASE e = d /\ k = n
      <4>1. PICK j \in Note : text'[d][j] = g
        BY <3>1, <3>3 DEF Refs
      <4>2. j # n
        <5>1. text[d][n] = g /\ g \in typed
          BY <3>2, <3>3, <1>a DEF Pending, Texted, TypedOnly, Refs
        <5> QED
          BY <4>1, <5>1, <1>a, <1>b
      <4>3. text[d][j] = g
        BY <4>1, <4>2, <1>b
      <4> QED
        BY <4>2, <4>3, <3>2, <3>3 DEF Texted, OnlyOne
    <3>4. CASE ~(e = d /\ k = n)
      BY <3>2, <3>4, <1>a, <1>b DEF Pending
    <3> QED
      BY <3>3, <3>4
  <2>2. ASSUME NEW e \in Device, NEW g \in Hash, NEW k \in Note, Pending(e, k, g)', g \notin flying'[e]
        PROVE  /\ g \notin blobs
               /\ \A f \in Device : g \notin orphans[f] \cup candidates[f] \cup moving[f] /\ seen[f][g] = 0
    <3>1. CASE Pending(e, k, g) /\ ~(e = d /\ k = n)
      <4>1. text'[e][k] = g
        BY <2>2 DEF Pending
      <4>2. g \notin flying[e]
        BY <2>2, <4>1, <1>a DEF TypeOK, Refs
      <4> QED
        BY <3>1, <4>2 DEF Texted, Flying
    <3>2. CASE e = d /\ k = n /\ g = h
      BY <3>2, <1>a, <1>d DEF Texted, TypedOnly
    <3> QED
      BY <2>2, <3>1, <3>2, <1>c
  <2> QED
    BY <1>a, <2>1, <2>2 DEF Flying
<1> QED
  BY <1>1, <1>2, <1>3, <1>4 DEF Texted

LEMMA TextedGet ==
  ASSUME TypeOK, Texted, NEW d \in Device, Get(d)
  PROVE  Texted'
<1>1. PICK m \in Texts :
         /\ \A n \in Note :
               IF text[d][n] = base[d][n] THEN m[n] = manifest[n]
               ELSE IF manifest[n] = base[d][n] THEN m[n] = text[d][n]
               ELSE m[n] \in {text[d][n], manifest[n]}
         /\ merged' = [merged EXCEPT ![d] = m]
         /\ sending' = [sending EXCEPT ![d] = {m[n] : n \in {k \in Note : m[k] # manifest[k]}} \ {None}]
  BY DEF Get
<1>a. UNCHANGED <<text, base, manifest, orphans, moving, blobs, candidates, typed, flying, seen>>
  BY DEF Get
<1>b. /\ \A e \in Device : /\ view'[e] = IF e = d THEN manifest ELSE view[e]
                           /\ merged'[e] = IF e = d THEN m ELSE merged[e]
                           /\ etagOk'[e] = IF e = d THEN TRUE ELSE etagOk[e]
                           /\ failed'[e] = IF e = d THEN {} ELSE failed[e]
                           /\ e # d => pc'[e] = pc[e] /\ sending'[e] = sending[e]
      /\ \A h \in sending'[d] : \E n \in Note : m[n] = h /\ manifest[n] # h
  BY <1>1 DEF Get, Go, TypeOK
<1>c. \A n \in Note : /\ m[n] \in {text[d][n], manifest[n]}
                      /\ m[n] # manifest[n] => m[n] = text[d][n] /\ text[d][n] # base[d][n]
  BY <1>1
<1>2. TypedOnly'
  <2>1. ASSUME NEW h \in Refs(m) PROVE h \in Refs(text[d]) \cup Refs(manifest)
    <3>1. PICK n \in Note : m[n] = h /\ h # None
      BY DEF Refs
    <3>2. m[n] = text[d][n] \/ m[n] = manifest[n]
      BY <1>c
    <3> QED
      BY <3>1, <3>2 DEF Refs
  <2>2. \A e \in Device : Refs(merged'[e]) \subseteq typed /\ Refs(view'[e]) \subseteq typed
    BY <1>b, <2>1 DEF Texted, TypedOnly
  <2> QED
    BY <1>a, <2>2 DEF Texted, TypedOnly, Refs
<1>3. OnlyOne'
  <2> SUFFICES ASSUME NEW e \in Device, NEW k \in Note, NEW g \in Hash, Pending(e, k, g)
               PROVE  /\ g \notin Refs(manifest)
                      /\ \A f \in Device : g \notin Refs(view'[f]) \cup Refs(base[f])
                      /\ \A f \in Device, j \in Note : text[f][j] = g \/ merged'[f][j] = g => f = e /\ j = k
    BY <1>a DEF OnlyOne, Refs, Pending
  <2>0. \A j \in Note : manifest[j] = g => g \in Refs(manifest)
    BY GcAssumption DEF Refs
  <2>1. /\ g \notin Refs(manifest) /\ \A f \in Device : g \notin Refs(view[f]) \cup Refs(base[f])
        /\ \A f \in Device, j \in Note : text[f][j] = g \/ merged[f][j] = g => f = e /\ j = k
    BY DEF Texted, OnlyOne
  <2>2. \A j \in Note : m[j] = g => text[d][j] = g
    BY <1>c, <2>0, <2>1
  <2>3. \A f \in Device : g \notin Refs(view'[f])
    BY <1>b, <2>1
  <2>4. \A f \in Device, j \in Note : merged'[f][j] = g => text[f][j] = g \/ merged[f][j] = g
    BY <1>b, <2>2
  <2> QED
    BY <2>1, <2>3, <2>4
<1>4. Merging'
  <2>1. /\ etagOk'[d] => view'[d] = manifest
        /\ \A n \in Note : merged'[d][n] # view'[d][n] =>
              merged'[d][n] = text[d][n] /\ text[d][n] # base[d][n]
        /\ failed'[d] = {}
        /\ \A h \in sending'[d] : \E n \in Note : merged'[d][n] = h /\ view'[d][n] # h
    <3>1. merged'[d] = m /\ view'[d] = manifest /\ failed'[d] = {}
      BY <1>b
    <3>2. \A h \in sending'[d] : \E n \in Note : m[n] = h /\ manifest[n] # h
      BY <1>b
    <3>3. \A n \in Note : m[n] # manifest[n] => m[n] = text[d][n] /\ text[d][n] # base[d][n]
      BY <1>c
    <3> QED
      BY <3>1, <3>2, <3>3
  <2>2. ASSUME NEW e \in Device \ {d} PROVE
          /\ etagOk'[e] = etagOk[e] /\ view'[e] = view[e] /\ merged'[e] = merged[e]
          /\ failed'[e] = failed[e] /\ sending'[e] = sending[e] /\ pc'[e] = pc[e]
    BY <1>b
  <2> QED
    BY <1>a, <2>1, <2>2 DEF Texted, Merging, At
<1>5. Flying'
  BY <1>a DEF Texted, Flying, Pending
<1> QED
  BY <1>2, <1>3, <1>4, <1>5 DEF Texted

\* What a round has yet to send, its user has typed.
LEMMA SendingPending ==
  ASSUME TypeOK, Texted, NEW d \in Device, At(d, "merge"), NEW h \in Hash, h \in sending[d]
  PROVE  \E n \in Note : Pending(d, n, h)
<1>1. PICK n \in Note : merged[d][n] = h /\ view[d][n] # h
  BY DEF Texted, Merging
<1>2. text[d][n] = h /\ base[d][n] # h
  BY <1>1 DEF Texted, Merging
<1> QED
  BY <1>2 DEF Pending

LEMMA TextedSend ==
  ASSUME TypeOK, Texted, NEW d \in Device, NEW h \in Hash, Send(d, h) \/ SendFails(d, h)
  PROVE  Texted'
<1>1. PICK n \in Note : Pending(d, n, h)
  BY SendingPending DEF Send, SendFails
<1>2. /\ h \in typed /\ \A e \in Device : h \notin Refs(view[e])
      /\ \A e \in Device, k \in Note : text[e][k] = h \/ merged[e][k] = h => e = d /\ k = n
  <2>1. h \in Refs(text[d])
    BY <1>1, GcAssumption DEF Pending, Refs
  <2> QED
    BY <1>1, <2>1 DEF Texted, TypedOnly, OnlyOne
<1>3. CASE Send(d, h)
  <2>a. /\ UNCHANGED <<text, base, manifest, etagOk, pc, view, merged, failed, orphans, moving, candidates, typed>>
        /\ blobs' = blobs \cup {h}
        /\ \A e \in Device : /\ flying'[e] = IF e = d THEN flying[d] \cup {h} ELSE flying[e]
                             /\ sending'[e] \subseteq sending[e]
                             /\ \A g \in Hash : seen'[e][g] = IF g = h THEN seen'[e][h] ELSE seen[e][g]
    BY <1>3 DEF Send, TypeOK
  <2>1. TypedOnly'
    BY <1>2, <2>a DEF Texted, TypedOnly, Refs
  <2>2. OnlyOne'
    BY <2>a DEF Texted, OnlyOne, Refs, Pending
  <2>3. Merging'
    BY <2>a DEF Texted, Merging, At
  <2>4. Flying'
    <3>1. ASSUME NEW e \in Device, NEW g \in flying'[e] PROVE \E k \in Note : Pending(e, k, g)
      <4>1. g \in flying[e] \/ (e = d /\ g = h)
        BY <2>a
      <4>2. CASE g \in flying[e]
        BY <4>2 DEF Texted, Flying, TypeOK
      <4> QED
        BY <1>1, <4>1, <4>2
    <3>2. \A e \in Device, k \in Note, g \in Hash : Pending(e, k, g) /\ g \notin flying'[e] =>
              g # h /\ g \notin flying[e]
      BY <1>2, <2>a DEF Pending
    <3> QED
      BY <2>a, <3>1, <3>2 DEF Texted, Flying, Pending
  <2> QED
    BY <2>1, <2>2, <2>3, <2>4 DEF Texted
<1>4. CASE SendFails(d, h)
  <2>a. /\ UNCHANGED <<text, base, manifest, etagOk, pc, view, orphans, moving, blobs, candidates, typed, flying, seen>>
        /\ \A e \in Device \ {d} : merged'[e] = merged[e] /\ failed'[e] = failed[e] /\ sending'[e] = sending[e]
        /\ \A k \in Note : merged'[d][k] = IF merged[d][k] = h THEN view[d][k] ELSE merged[d][k]
        /\ failed'[d] = failed[d] \cup {k \in Note : merged[d][k] = h /\ view[d][k] # h}
        /\ sending'[d] = sending[d] \ {h}
    BY <1>4 DEF SendFails, TypeOK
  <2>1. TypedOnly'
    <3>1. Refs(merged'[d]) \subseteq Refs(merged[d]) \cup Refs(view[d])
      BY <2>a DEF Refs
    <3>2. \A e \in Device : Refs(merged'[e]) \subseteq typed
      BY <2>a, <3>1 DEF Texted, TypedOnly
    <3> QED
      BY <2>a, <3>2 DEF Texted, TypedOnly, Refs
  <2>2. OnlyOne'
    <3> SUFFICES ASSUME NEW e \in Device, NEW k \in Note, NEW g \in Hash, Pending(e, k, g)
                 PROVE  /\ g \notin Refs(manifest)
                        /\ \A f \in Device : g \notin Refs(view[f]) \cup Refs(base[f])
                        /\ \A f \in Device, j \in Note : text[f][j] = g \/ merged'[f][j] = g => f = e /\ j = k
      BY <2>a DEF OnlyOne, Refs, Pending
    <3>1. /\ g \notin Refs(manifest) /\ \A f \in Device : g \notin Refs(view[f]) \cup Refs(base[f])
          /\ \A f \in Device, j \in Note : text[f][j] = g \/ merged[f][j] = g => f = e /\ j = k
      BY DEF Texted, OnlyOne
    <3>2. \A j \in Note : view[d][j] # g
      BY <3>1, GcAssumption DEF Refs
    <3> QED
      BY <2>a, <3>1, <3>2
  <2>3. Merging'
    <3>1. ASSUME At(d, "merge") PROVE
            /\ \A k \in Note : merged'[d][k] # view[d][k] => merged'[d][k] = text[d][k] /\ text[d][k] # base[d][k]
            /\ \A k \in failed'[d] : merged'[d][k] = view[d][k] /\ text[d][k] # base[d][k]
            /\ \A g \in sending'[d] : \E k \in Note : merged'[d][k] = g /\ view[d][k] # g
      <4>1. /\ \A k \in Note : merged[d][k] # view[d][k] => merged[d][k] = text[d][k] /\ text[d][k] # base[d][k]
            /\ \A k \in failed[d] : merged[d][k] = view[d][k] /\ text[d][k] # base[d][k]
            /\ \A g \in sending[d] : \E k \in Note : merged[d][k] = g /\ view[d][k] # g
            /\ failed[d] \subseteq Note
        BY <3>1 DEF Texted, Merging, TypeOK
      <4>2. \A k \in Note : merged'[d][k] # view[d][k] => merged'[d][k] = text[d][k] /\ text[d][k] # base[d][k]
        BY <2>a, <4>1
      <4>3. ASSUME NEW k \in failed'[d] PROVE merged'[d][k] = view[d][k] /\ text[d][k] # base[d][k]
        BY <2>a, <4>1
      <4>4. ASSUME NEW g \in sending'[d] PROVE \E k \in Note : merged'[d][k] = g /\ view[d][k] # g
        <5>1. PICK k \in Note : merged[d][k] = g /\ view[d][k] # g
          BY <2>a, <4>1
        <5>2. g # h
          BY <2>a
        <5> QED
          BY <2>a, <5>1, <5>2
      <4> QED
        BY <4>2, <4>3, <4>4
    <3> QED
      BY <2>a, <3>1 DEF Texted, Merging, At
  <2>4. Flying'
    BY <2>a DEF Texted, Flying, Pending
  <2> QED
    BY <2>1, <2>2, <2>3, <2>4 DEF Texted
<1> QED
  BY <1>3, <1>4

LEMMA TextedPut ==
  ASSUME TypeOK, Texted, NEW d \in Device, Put(d)
  PROVE  Texted'
<1>a. /\ UNCHANGED <<view, merged, sending, failed, orphans, moving, blobs, candidates, typed, seen>>
      /\ At(d, "merge") /\ \A e \in Device \ {d} : text'[e] = text[e] /\ base'[e] = base[e] /\ flying'[e] = flying[e]
      /\ \A e \in Device : At(e, "merge")' => e # d /\ At(e, "merge")
      /\ \A n \in Note : /\ text'[d][n] = IF n \in failed[d] THEN text[d][n] ELSE merged[d][n]
                         /\ base'[d][n] = IF n \in failed[d] THEN base[d][n] ELSE merged[d][n]
      /\ flying'[d] = flying[d] \cap {text[d][n] : n \in failed[d]}
      /\ failed[d] \subseteq Note
  BY DEF Put, Settled, Go, At, TypeOK
<1>b. \/ UNCHANGED <<manifest, etagOk>>
      \/ manifest' = merged[d] /\ \A e \in Device : ~etagOk'[e]
  BY DEF Put, TypeOK
<1>c. ASSUME NEW e \in Device, NEW k \in Note, NEW g \in Hash, Pending(e, k, g)'
      PROVE  Pending(e, k, g) /\ (e = d => k \in failed[d])
  BY <1>a, <1>c DEF Pending
<1>d. \A n \in failed[d] : merged[d][n] = view[d][n]
  BY <1>a DEF Texted, Merging
<1>1. TypedOnly'
  <2>1. Refs(manifest') \subseteq Refs(manifest) \cup Refs(merged[d])
    BY <1>b
  <2>2. \A e \in Device : /\ Refs(text'[e]) \subseteq Refs(text[e]) \cup Refs(merged[e])
                          /\ Refs(base'[e]) \subseteq Refs(base[e]) \cup Refs(merged[e])
    BY <1>a DEF Refs
  <2>3. \A e \in Device : Refs(text'[e]) \subseteq typed /\ Refs(base'[e]) \subseteq typed
    BY <2>2 DEF Texted, TypedOnly
  <2>4. Refs(manifest') \subseteq typed
    BY <2>1 DEF Texted, TypedOnly
  <2> QED
    BY <1>a, <2>3, <2>4 DEF Texted, TypedOnly, Refs
<1>2. OnlyOne'
  <2> SUFFICES ASSUME NEW e \in Device, NEW k \in Note, NEW g \in Hash, Pending(e, k, g)'
               PROVE  /\ g \notin Refs(manifest')
                      /\ \A f \in Device : g \notin Refs(view[f]) \cup Refs(base'[f])
                      /\ \A f \in Device, j \in Note : text'[f][j] = g \/ merged[f][j] = g => f = e /\ j = k
    BY <1>a DEF OnlyOne, Refs
  <2>1. Pending(e, k, g) /\ (e = d => k \in failed[d])
    BY <1>c
  <2>2. /\ g \notin Refs(manifest) /\ \A f \in Device : g \notin Refs(view[f]) \cup Refs(base[f])
        /\ \A f \in Device, j \in Note : text[f][j] = g \/ merged[f][j] = g => f = e /\ j = k
    BY <2>1 DEF Texted, OnlyOne
  <2>3. \A j \in Note : merged[d][j] # g
    <3> SUFFICES ASSUME NEW j \in Note, merged[d][j] = g PROVE FALSE
      OBVIOUS
    <3>1. j \in failed[d]
      BY <2>1, <2>2
    <3> QED
      BY <1>d, <2>2, <3>1, GcAssumption DEF Refs
  <2>4. g \notin Refs(manifest') /\ \A f \in Device : g \notin Refs(base'[f])
    BY <1>a, <1>b, <2>2, <2>3 DEF Refs
  <2> QED
    BY <1>a, <2>2, <2>3, <2>4
<1>3. Merging'
  BY <1>a, <1>b DEF Texted, Merging
<1>4. Flying'
  <2>1. ASSUME NEW e \in Device, NEW g \in Hash, g \in flying'[e] PROVE \E k \in Note : Pending(e, k, g)'
    <3>1. PICK k \in Note : Pending(e, k, g)
      BY <1>a, <2>1 DEF Texted, Flying, TypeOK
    <3>2. CASE e = d
      <4>1. PICK n \in failed[d] : text[d][n] = g
        BY <1>a, <2>1, <3>2
      <4>2. n = k
        BY <1>a, <3>1, <3>2, <4>1 DEF Texted, OnlyOne
      <4> QED
        BY <1>a, <3>1, <3>2, <4>2 DEF Pending
    <3>3. CASE e # d
      BY <1>a, <3>1, <3>3 DEF Pending
    <3> QED
      BY <3>2, <3>3
  <2>2. ASSUME NEW e \in Device, NEW k \in Note, NEW g \in Hash, Pending(e, k, g)', g \notin flying'[e]
        PROVE  Pending(e, k, g) /\ g \notin flying[e]
    <3>1. Pending(e, k, g) /\ (e = d => k \in failed[d])
      BY <1>c, <2>2
    <3> QED
      BY <1>a, <2>2, <3>1 DEF Pending
  <2> QED
    BY <1>a, <2>1, <2>2 DEF Texted, Flying
<1> QED
  BY <1>1, <1>2, <1>3, <1>4 DEF Texted

LEMMA TextedStep ==
  ASSUME ~Revert, TypeOK, Texted, [Next]_gc_vars
  PROVE  Texted'
<1>1. ASSUME NEW d \in Device, PutConflict(d) \/ Abort(d) \/ Purge(d) PROVE Texted'
  <2>1. \A e \in Device : pc'[e] = "merge" => pc[e] = "merge"
    BY <1>1 DEF PutConflict, Abort, Purge, Go, TypeOK
  <2> QED
    BY <1>1, <2>1, TextedFrame DEF PutConflict, Abort, Purge
<1>2. ASSUME NEW d \in Device, Drop(d) \/ Register(d) PROVE Texted'
  <2>1. \A e \in Device : /\ pc'[e] = "merge" => pc[e] = "merge"
                          /\ orphans'[e] \cup candidates'[e] \cup moving'[e]
                                 \subseteq orphans[e] \cup candidates[e] \cup moving[e]
    BY <1>2 DEF Drop, Register, Registering, Go, TypeOK
  <2> QED
    BY <1>2, <2>1, TextedFrame DEF Drop, Register, Registering
<1>3. ASSUME NEW d \in Device, NEW h \in Hash, Quarantine(d, h) \/ QuarantineFails(d, h) PROVE Texted'
  <2>1. \A e \in Device : moving'[e] \subseteq moving[e]
    BY <1>3 DEF Quarantine, QuarantineFails, TypeOK
  <2> QED
    BY <1>3, <2>1, TextedFrame DEF Quarantine, QuarantineFails
<1>4. ASSUME Tick \/ UNCHANGED gc_vars PROVE Texted'
  BY <1>4, TextedFrame DEF Tick, gc_vars, round_vars
<1> QED
  BY <1>1, <1>2, <1>3, <1>4, TextedEdit, TextedGet, TextedSend, TextedPut, TextedList DEF Next, Round

THEOREM TextedCorrect == ~Revert => (Spec => []Texted)
<1> SUFFICES ASSUME ~Revert PROVE Spec => []Texted
  OBVIOUS
<1>1. TypeOK /\ Texted /\ [Next]_gc_vars => Texted'
  BY TextedStep
<1> QED
  BY TextedInit, <1>1, GcTypeCorrect, PTL DEF Spec

-----------------------------------------------------------------------------
(* What a collection rests on: how often an orphan has been found.          *)

Counted ==
    \A d \in Device, h \in Hash :
        /\ h \in candidates[d] => seen[d][h] >= 1
        /\ At(d, "register") /\ h \in orphans[d] => seen[d][h] >= 1
        /\ At(d, "register") /\ h \in orphans[d] \cap candidates[d] => seen[d][h] = 2
        /\ (At(d, "drop") \/ At(d, "move")) /\ h \in moving[d] => seen[d][h] = 2

LEMMA CountedInit == Init => Counted
  BY DEF Init, Counted, At

LEMMA CountedFrame ==
  ASSUME Counted,
         \A d \in Device :
            /\ seen'[d] = seen[d] /\ candidates'[d] \subseteq candidates[d]
            /\ pc'[d] = "register" => pc[d] = "register" /\ orphans'[d] = orphans[d]
            /\ pc'[d] \in {"drop", "move"} => pc[d] \in {"drop", "move"} /\ moving'[d] \subseteq moving[d]
  PROVE  Counted'
  BY DEF Counted, At

LEMMA CountedList ==
  ASSUME TypeOK, Counted, NEW d \in Device, List(d)
  PROVE  Counted'
<1>1. UNCHANGED <<candidates, moving>>
  BY DEF List
<1>2. \A e \in Device \ {d} : pc'[e] = pc[e] /\ orphans'[e] = orphans[e] /\ seen'[e] = seen[e]
  BY DEF List, TypeOK, Go
<1>3. ~At(d, "drop")' /\ ~At(d, "move")'
  BY DEF List, TypeOK, Go, At
<1>4. \A h \in Hash : /\ seen[d][h] \in 0 .. 2
                      /\ seen'[d][h] = IF h \in orphans'[d] /\ seen[d][h] < 2 THEN seen[d][h] + 1 ELSE seen[d][h]
  BY DEF List, TypeOK
<1>5. \A h \in Hash : h \in candidates[d] => seen[d][h] >= 1
  BY DEF Counted
<1>6. \A h \in Hash : /\ h \in candidates[d] => seen'[d][h] >= 1
                      /\ h \in orphans'[d] => seen'[d][h] >= 1
                      /\ h \in orphans'[d] \cap candidates[d] => seen'[d][h] = 2
  BY <1>4, <1>5
<1> QED
  BY <1>1, <1>2, <1>3, <1>6 DEF Counted, At

LEMMA CountedRegister ==
  ASSUME TypeOK, Counted, NEW d \in Device, Register(d)
  PROVE  Counted'
<1>1. /\ UNCHANGED <<seen, orphans>> /\ At(d, "register") /\ At(d, "drop")'
      /\ candidates'[d] = orphans[d] /\ moving'[d] = orphans[d] \cap candidates[d]
      /\ \A e \in Device \ {d} : pc'[e] = pc[e] /\ moving'[e] = moving[e] /\ candidates'[e] = candidates[e]
  BY DEF Register, Registering, TypeOK, Go, At
<1> QED
  BY <1>1 DEF Counted, At

LEMMA CountedSend ==
  ASSUME TypeOK, Texted, Counted, NEW d \in Device, NEW h \in Hash, Send(d, h)
  PROVE  Counted'
<1>1. PICK n \in Note : Pending(d, n, h)
  BY SendingPending DEF Send
<1>2. UNCHANGED <<pc, orphans, candidates, moving>>
  BY DEF Send
<1>3. CASE \E e \in Device : h \in flying[e]
  BY <1>2, <1>3, CountedFrame DEF Send
<1>4. CASE ~ \E e \in Device : h \in flying[e]
  <2>1. \A e \in Device : h \notin orphans[e] \cup candidates[e] \cup moving[e]
    BY <1>1, <1>4 DEF Texted, Flying
  <2>2. \A e \in Device, g \in Hash \ {h} : seen'[e][g] = seen[e][g]
    BY <1>4 DEF Send, TypeOK
  <2> QED
    BY <1>2, <2>1, <2>2 DEF Counted, At
<1> QED
  BY <1>3, <1>4

LEMMA CountedStep ==
  ASSUME TypeOK, Texted, Counted, [Next]_gc_vars
  PROVE  Counted'
<1>1. ASSUME NEW d \in Device, Get(d) \/ Put(d) \/ PutConflict(d) \/ Abort(d) \/ Purge(d) PROVE Counted'
  <2>1. /\ UNCHANGED <<seen, candidates, orphans, moving>>
        /\ \A e \in Device : pc'[e] = pc[e] \/ pc'[e] \in {"off", "merge", "list"}
    BY <1>1 DEF Get, Put, PutConflict, Abort, Purge, Go, TypeOK
  <2> QED
    BY <2>1, CountedFrame
<1>2. ASSUME NEW d \in Device, Drop(d) PROVE Counted'
  <2>1. /\ UNCHANGED <<seen, orphans, moving>> /\ \A e \in Device : candidates'[e] \subseteq candidates[e]
        /\ \A e \in Device : pc'[e] = pc[e] \/ (pc[e] = "drop" /\ pc'[e] = "move")
    BY <1>2 DEF Drop, At, Go, TypeOK
  <2> QED
    BY <2>1, CountedFrame
<1>3. ASSUME NEW d \in Device, NEW h \in Hash, Quarantine(d, h) \/ QuarantineFails(d, h) \/ SendFails(d, h)
      PROVE  Counted'
  <2>1. UNCHANGED <<seen, candidates, orphans, pc>> /\ \A e \in Device : moving'[e] \subseteq moving[e]
    BY <1>3, ZenonT(60) DEF Quarantine, QuarantineFails, SendFails, TypeOK
  <2> QED
    BY <2>1, CountedFrame
<1>4. ASSUME \/ Tick \/ UNCHANGED gc_vars
             \/ \E d \in Device, n \in Note, h \in Hash \cup {None} : Edit(d, n, h)
      PROVE  Counted'
  <2>1. UNCHANGED <<seen, candidates, orphans, moving, pc>>
    BY <1>4 DEF Tick, Edit, gc_vars, round_vars
  <2> QED
    BY <2>1, CountedFrame
<1> QED
  BY <1>1, <1>2, <1>3, <1>4, CountedList, CountedRegister, CountedSend DEF Next, Round

\* If no text is typed twice, a blob that another device is uploading for a text
\* not yet published is taken to quarantine only by a device that has found it an
\* orphan in two of its rounds since; and nothing leaves the vault but from
\* quarantine, after the retention period (_gcOrphanBlobs).
THEOREM SparedCorrect == ~Revert => (Spec => Spared)
<1> SUFFICES ASSUME ~Revert PROVE Spec => Spared
  OBVIOUS
<1> DEFINE Protected == \A d \in Device, h \in blobs \ blobs' :
                           (\E e \in Device \ {d} : h \in flying[e]) /\ h \in moving[d] \ moving'[d] =>
                               seen[d][h] = 2
<1>1. TypeOK /\ Texted /\ Counted /\ [Next]_gc_vars => Counted'
  BY CountedStep
<1>2. Spec => []Counted
  BY CountedInit, <1>1, GcTypeCorrect, TextedCorrect, PTL DEF Spec
<1>3. TypeOK /\ Counted /\ [Next]_gc_vars => Protected
  <2> SUFFICES ASSUME TypeOK, Counted, [Next]_gc_vars, NEW d \in Device, NEW h \in blobs \ blobs',
                      h \in moving[d] \ moving'[d]
               PROVE  seen[d][h] = 2
    OBVIOUS
  <2>1. ASSUME NEW e \in Device, NEW k \in Hash, Quarantine(e, k) PROVE seen[d][h] = 2
    <3>1. e = d /\ k = h /\ At(e, "move")
      BY <2>1 DEF Quarantine, TypeOK
    <3> QED
      BY <3>1 DEF Counted, TypeOK
  <2>2. ASSUME NEW e \in Device, NEW k \in Hash, Send(e, k) PROVE FALSE
    BY <2>2 DEF Send
  <2>3. ASSUME UNCHANGED blobs PROVE FALSE
    BY <2>3
  <2> QED
    BY <2>1, <2>2, <2>3
       DEF Next, Round, Edit, Get, SendFails, Put, PutConflict, List, Register, Registering, Drop,
           QuarantineFails, Purge, Abort, Tick, gc_vars
<1>4. TypeOK /\ Counted /\ [Next]_gc_vars => [Protected]_gc_vars
  BY <1>3
<1> QED
  BY <1>2, <1>3, <1>4, GcTypeCorrect, RetainedCorrect, PTL DEF Spec, Spared, UploadsProtected

-----------------------------------------------------------------------------
(* Why the manifest's blobs stay: a device that is about to quarantine a    *)
(* blob has found it in no manifest, and nobody else is about to publish it.*)

\* What a round is about to publish is in the store, or has yet to be sent.
Stored ==
    \A d \in Device, n \in Note :
        At(d, "merge") /\ merged[d][n] # view[d][n] =>
            merged[d][n] \in {None} \cup sending[d] \cup blobs

SafeAt(d) ==
    /\ \A h \in candidates[d], e \in Device \ {d}, n \in Note : Pending(e, n, h) => h \in spanned[d]
    /\ At(d, "merge") =>
          \A h \in candidates[d] : ~Elsewhere(d, h) /\ (h \in Refs(manifest) => h \in Refs(view[d]))
    /\ At(d, "list") =>
          \A h \in candidates[d] : ~Elsewhere(d, h) /\ (h \in Refs(manifest) => h \in Refs(merged[d]))
    /\ At(d, "register") =>
          /\ \A h \in candidates[d] \cap orphans[d] : ~Elsewhere(d, h) /\ h \notin Refs(manifest)
          /\ \A h \in orphans[d], e \in Device \ {d}, n \in Note : Pending(e, n, h) => h \in spanned[d]
    /\ At(d, "drop") \/ At(d, "move") =>
          \A h \in moving[d] : ~Elsewhere(d, h) /\ h \notin Refs(manifest)

Safe == \A d \in Device : SafeAt(d)

LEMMA SafeInit == Init => Safe /\ Stored /\ Referenced
<1> SUFFICES ASSUME Init PROVE Safe /\ Stored /\ Referenced
  OBVIOUS
<1>1. Refs(manifest) = {}
  BY DEF Init, Refs
<1> QED
  BY <1>1 DEF Init, Safe, SafeAt, Stored, Referenced, At

\* A device that the step leaves where it is: nothing typed before becomes
\* pending, and what is published anew was pending.
LEMMA SafeFrame ==
  ASSUME TypeOK, Texted, NEW d \in Device, SafeAt(d),
         \A e \in Device, k \in Note, g \in typed :
             text'[e][k] = g /\ base'[e][k] # g => text[e][k] = g /\ base[e][k] # g,
         \A g \in typed : g \in Refs(manifest') => g \in Refs(manifest) \/ Elsewhere(d, g),
         candidates'[d] \subseteq candidates[d], spanned'[d] = spanned[d],
         pc'[d] = "merge" => pc[d] = "merge" /\ view'[d] = view[d],
         pc'[d] = "list" => pc[d] = "list" /\ merged'[d] = merged[d],
         pc'[d] = "register" => pc[d] = "register" /\ orphans'[d] = orphans[d],
         pc'[d] \in {"drop", "move"} => pc[d] \in {"drop", "move"} /\ moving'[d] \subseteq moving[d]
  PROVE  SafeAt(d)'
<1>1. candidates[d] \subseteq typed /\ orphans[d] \subseteq typed /\ moving[d] \subseteq typed
  BY DEF Texted, TypedOnly
<1>2. ASSUME NEW g \in typed, ~Elsewhere(d, g)
      PROVE  ~Elsewhere(d, g)' /\ (g \in Refs(manifest') => g \in Refs(manifest))
  BY <1>2 DEF Elsewhere, Pending
<1>3. \A h \in candidates'[d], e \in Device \ {d}, n \in Note : Pending(e, n, h)' => h \in spanned'[d]
  BY <1>1 DEF SafeAt, Pending
<1>4. At(d, "merge")' =>
         \A h \in candidates'[d] : ~Elsewhere(d, h)' /\ (h \in Refs(manifest') => h \in Refs(view'[d]))
  BY <1>1, <1>2 DEF SafeAt, At
<1>5. At(d, "list")' =>
         \A h \in candidates'[d] : ~Elsewhere(d, h)' /\ (h \in Refs(manifest') => h \in Refs(merged'[d]))
  BY <1>1, <1>2 DEF SafeAt, At
<1>6. At(d, "register")' =>
         /\ \A h \in candidates'[d] \cap orphans'[d] : ~Elsewhere(d, h)' /\ h \notin Refs(manifest')
         /\ \A h \in orphans'[d], e \in Device \ {d}, n \in Note : Pending(e, n, h)' => h \in spanned'[d]
  <2> SUFFICES ASSUME At(d, "register")'
               PROVE  /\ \A h \in candidates'[d] \cap orphans'[d] : ~Elsewhere(d, h)' /\ h \notin Refs(manifest')
                      /\ \A h \in orphans'[d], e \in Device \ {d}, n \in Note : Pending(e, n, h)' => h \in spanned'[d]
    OBVIOUS
  <2>1. At(d, "register") /\ orphans'[d] = orphans[d]
    BY DEF At
  <2>2. \A h \in candidates'[d] \cap orphans'[d] : ~Elsewhere(d, h)' /\ h \notin Refs(manifest')
    BY <1>1, <1>2, <2>1 DEF SafeAt
  <2>3. \A h \in orphans'[d], e \in Device \ {d}, n \in Note : Pending(e, n, h)' => h \in spanned'[d]
    BY <1>1, <2>1 DEF SafeAt, Pending
  <2> QED
    BY <2>2, <2>3
<1>7. At(d, "drop")' \/ At(d, "move")' =>
         \A h \in moving'[d] : ~Elsewhere(d, h)' /\ h \notin Refs(manifest')
  BY <1>1, <1>2 DEF SafeAt, At
<1> QED
  BY <1>3, <1>4, <1>5, <1>6, <1>7 DEF SafeAt, At

LEMMA SafeEdit ==
  ASSUME ~Revert, TypeOK, Texted, Safe, NEW d \in Device, NEW n \in Note, NEW h \in Hash \cup {None}, Edit(d, n, h)
  PROVE  Safe'
<1>1. h \notin typed
  BY DEF Edit
<1>2. \A e \in Device, k \in Note : text'[e][k] = IF e = d /\ k = n THEN h ELSE text[e][k]
  BY DEF Edit, TypeOK, Texts
<1>3. UNCHANGED <<base, manifest, candidates, spanned, pc, view, merged, orphans, moving>>
  BY DEF Edit, round_vars
<1>4. \A e \in Device, k \in Note, g \in typed :
          text'[e][k] = g /\ base'[e][k] # g => text[e][k] = g /\ base[e][k] # g
  BY <1>1, <1>2, <1>3
<1> QED
  BY <1>3, <1>4, SafeFrame DEF Safe

\* A device that starts a round finds nothing pending elsewhere that it might
\* collect: what was flying when it last collected is published or given up, and
\* of what has not flown there is no trace.
LEMMA SafeGet ==
  ASSUME Timely, TypeOK, Texted, Safe, NEW d \in Device, Get(d)
  PROVE  Safe'
<1>1. UNCHANGED <<text, base, manifest, candidates, orphans, moving, spanned>>
  BY DEF Get
<1>2. \A e \in Device \ {d} : pc'[e] = pc[e] /\ view'[e] = view[e] /\ merged'[e] = merged[e]
  BY DEF Get, Go, TypeOK
<1>3. pc'[d] = "merge" /\ view'[d] = manifest
  BY DEF Get, Go, TypeOK
<1>4. ASSUME NEW h \in candidates[d], NEW e \in Device \ {d}, NEW n \in Note, Pending(e, n, h) PROVE FALSE
  <2>1. h \in spanned[d] /\ h \in Hash
    BY <1>4 DEF Safe, SafeAt, TypeOK
  <2>2. h \notin flying[e]
    BY <2>1 DEF Get
  <2> QED
    BY <1>4, <2>1, <2>2 DEF Texted, Flying
<1>5. SafeAt(d)'
  BY <1>1, <1>3, <1>4 DEF SafeAt, At, Elsewhere, Pending
<1>6. ASSUME NEW e \in Device \ {d} PROVE SafeAt(e)'
  BY <1>1, <1>2, SafeFrame DEF Safe
<1> QED
  BY <1>5, <1>6 DEF Safe

\* What a round publishes anew, its user had typed and nobody else holds.
LEMMA PutPublishes ==
  ASSUME TypeOK, Texted, NEW d \in Device, Put(d), NEW h \in Refs(manifest')
  PROVE  h \in Refs(manifest) \/ \E n \in Note : Pending(d, n, h)
<1>1. CASE manifest' = manifest
  BY <1>1
<1>2. CASE manifest' = merged[d] /\ etagOk[d]
  <2>1. PICK n \in Note : merged[d][n] = h /\ h # None
    BY <1>2 DEF Refs
  <2>2. view[d] = manifest
    BY <1>2 DEF Texted, Merging
  <2>3. CASE merged[d][n] = view[d][n]
    BY <2>1, <2>2, <2>3 DEF Refs
  <2>4. CASE merged[d][n] # view[d][n]
    <3>1. text[d][n] = h /\ base[d][n] # h
      BY <2>1, <2>4 DEF Put, Texted, Merging
    <3> QED
      BY <3>1 DEF Pending
  <2> QED
    BY <2>3, <2>4
<1> QED
  BY <1>1, <1>2 DEF Put

LEMMA SafePut ==
  ASSUME TypeOK, Texted, Safe, NEW d \in Device, Put(d)
  PROVE  Safe'
<1>1. UNCHANGED <<view, merged, candidates, orphans, moving, spanned>> /\ At(d, "merge")
  BY DEF Put
<1>2. \A e \in Device \ {d} : pc'[e] = pc[e] /\ text'[e] = text[e] /\ base'[e] = base[e]
  BY DEF Put, Settled, Go, TypeOK
<1>3. pc'[d] \in {"off", "list"} /\ (manifest' = merged[d] \/ (manifest' = manifest /\ (pc'[d] = "list" => merged[d] = view[d])))
  BY DEF Put, Go, TypeOK
<1>4. \A n \in Note : /\ text'[d][n] = IF n \in failed[d] THEN text[d][n] ELSE merged[d][n]
                      /\ base'[d][n] = IF n \in failed[d] THEN base[d][n] ELSE merged[d][n]
  BY DEF Put, Settled, TypeOK
<1>5. \A e \in Device, k \in Note, g \in typed :
          text'[e][k] = g /\ base'[e][k] # g => text[e][k] = g /\ base[e][k] # g
  BY <1>2, <1>4
<1>6. ASSUME NEW e \in Device \ {d} PROVE SafeAt(e)'
  <2>1. \A g \in typed : g \in Refs(manifest') => g \in Refs(manifest) \/ Elsewhere(e, g)
    BY PutPublishes DEF Elsewhere
  <2>2. SafeAt(e)
    BY DEF Safe
  <2> QED
    BY <1>1, <1>2, <1>5, <2>1, <2>2, SafeFrame
<1>7. SafeAt(d)'
  <2>1. \A h \in candidates[d] : h \in typed /\ ~Elsewhere(d, h) /\ (h \in Refs(manifest) => h \in Refs(view[d]))
    BY <1>1 DEF Safe, SafeAt, Texted, TypedOnly
  <2>2. \A h \in candidates[d] : ~Elsewhere(d, h)'
    BY <1>5, <2>1 DEF Elsewhere, Pending
  <2>3. pc'[d] = "list" => \A h \in candidates[d] : h \in Refs(manifest') => h \in Refs(merged[d])
    BY <1>3, <2>1
  <2>4. \A h \in candidates'[d], e \in Device \ {d}, n \in Note : ~Pending(e, n, h)'
    BY <1>1, <2>2 DEF Elsewhere
  <2> QED
    BY <1>1, <1>3, <2>2, <2>3, <2>4 DEF SafeAt, At
<1> QED
  BY <1>6, <1>7 DEF Safe

\* An orphan that is pending elsewhere is in the store because it flies.
LEMMA SafeList ==
  ASSUME TypeOK, Texted, Safe, NEW d \in Device, List(d)
  PROVE  Safe'
<1>1. /\ UNCHANGED <<text, base, manifest, view, merged, candidates, moving, blobs>>
      /\ orphans'[d] = blobs \ Refs(merged[d]) /\ At(d, "list") /\ pc'[d] \in {"off", "register"}
      /\ spanned'[d] = UNION {flying[e] : e \in Device \ {d}}
  BY DEF List, Go, TypeOK
<1>2. \A e \in Device \ {d} : pc'[e] = pc[e] /\ orphans'[e] = orphans[e] /\ spanned'[e] = spanned[e]
  BY DEF List, Go, TypeOK
<1>3. ASSUME NEW e \in Device \ {d} PROVE SafeAt(e)'
  BY <1>1, <1>2, SafeFrame DEF Safe
<1>4. SafeAt(d)'
  <2>1. \A h \in candidates[d] : ~Elsewhere(d, h) /\ (h \in Refs(manifest) => h \in Refs(merged[d]))
    BY <1>1 DEF Safe, SafeAt
  <2>2. \A h \in candidates[d] : ~Elsewhere(d, h)'
    BY <1>1, <2>1 DEF Elsewhere, Pending
  <2>3. \A h \in candidates'[d], e \in Device \ {d}, n \in Note : ~Pending(e, n, h)'
    BY <1>1, <2>2 DEF Elsewhere
  <2>4. ASSUME NEW h \in orphans'[d], NEW e \in Device \ {d}, NEW n \in Note, Pending(e, n, h)
        PROVE  h \in spanned'[d]
    <3>1. h \in blobs /\ h \in Hash
      BY <1>1 DEF TypeOK
    <3>2. h \in flying[e]
      BY <2>4, <3>1 DEF Texted, Flying
    <3> QED
      BY <1>1, <3>2
  <2>5. \A h \in orphans'[d], e \in Device \ {d}, n \in Note : Pending(e, n, h)' => h \in spanned'[d]
    BY <1>1, <2>4 DEF Pending
  <2>6. \A h \in candidates'[d] \cap orphans'[d] : h \notin Refs(manifest')
    BY <1>1, <2>1
  <2> QED
    BY <1>1, <2>2, <2>3, <2>5, <2>6 DEF SafeAt, At
<1> QED
  BY <1>3, <1>4 DEF Safe

LEMMA SafeRegister ==
  ASSUME TypeOK, Texted, Safe, NEW d \in Device, Register(d)
  PROVE  Safe'
<1>1. /\ UNCHANGED <<text, base, manifest, view, merged, orphans, spanned>>
      /\ moving'[d] = orphans[d] \cap candidates[d] /\ candidates'[d] = orphans[d]
      /\ At(d, "register") /\ pc'[d] = "drop"
  BY DEF Register, Registering, Go, TypeOK
<1>2. \A e \in Device \ {d} : pc'[e] = pc[e] /\ moving'[e] = moving[e] /\ candidates'[e] = candidates[e]
  BY DEF Register, Registering, Go, TypeOK
<1>3. ASSUME NEW e \in Device \ {d} PROVE SafeAt(e)'
  BY <1>1, <1>2, SafeFrame DEF Safe
<1>4. SafeAt(d)'
  <2>1. /\ \A h \in candidates[d] \cap orphans[d] : ~Elsewhere(d, h) /\ h \notin Refs(manifest)
        /\ \A h \in orphans[d], e \in Device \ {d}, n \in Note : Pending(e, n, h) => h \in spanned[d]
    BY <1>1 DEF Safe, SafeAt
  <2>2. \A h \in moving'[d] : ~Elsewhere(d, h)' /\ h \notin Refs(manifest')
    BY <1>1, <2>1 DEF Elsewhere, Pending
  <2>3. \A h \in candidates'[d], e \in Device \ {d}, n \in Note : Pending(e, n, h)' => h \in spanned'[d]
    BY <1>1, <2>1 DEF Pending
  <2> QED
    BY <1>1, <2>2, <2>3 DEF SafeAt, At
<1> QED
  BY <1>3, <1>4 DEF Safe

LEMMA SafeStep ==
  ASSUME ~Revert, Timely, TypeOK, Texted, Safe, [Next]_gc_vars
  PROVE  Safe'
<1>1. ASSUME NEW d \in Device, PutConflict(d) \/ Abort(d) \/ Purge(d) \/ Drop(d) PROVE Safe'
  <2>1. /\ UNCHANGED <<text, base, manifest, view, merged, orphans, spanned, moving>>
        /\ \A e \in Device : candidates'[e] \subseteq candidates[e]
    BY <1>1 DEF PutConflict, Abort, Purge, Drop, TypeOK
  <2>2. \A e \in Device : pc'[e] = pc[e] \/ pc'[e] = "off" \/ (pc[e] = "drop" /\ pc'[e] = "move")
    BY <1>1 DEF PutConflict, Abort, Purge, Drop, At, Go, TypeOK
  <2>3. ASSUME NEW e \in Device PROVE SafeAt(e)'
    BY <2>1, <2>2, SafeFrame DEF Safe
  <2> QED
    BY <2>3 DEF Safe
<1>2. ASSUME NEW d \in Device, NEW h \in Hash, Quarantine(d, h) \/ QuarantineFails(d, h) \/ Send(d, h)
      PROVE  Safe'
  <2>1. /\ UNCHANGED <<text, base, manifest, view, merged, orphans, spanned, candidates, pc>>
        /\ \A e \in Device : moving'[e] \subseteq moving[e]
    BY <1>2, ZenonT(60) DEF Quarantine, QuarantineFails, Send, TypeOK
  <2>2. ASSUME NEW e \in Device PROVE SafeAt(e)'
    BY <2>1, SafeFrame DEF Safe
  <2> QED
    BY <2>2 DEF Safe
<1>3. ASSUME NEW d \in Device, NEW h \in Hash, SendFails(d, h) PROVE Safe'
  <2>1. /\ UNCHANGED <<text, base, manifest, view, orphans, spanned, candidates, pc, moving>>
        /\ pc[d] = "merge" /\ \A e \in Device \ {d} : merged'[e] = merged[e]
    BY <1>3 DEF SendFails, At, TypeOK
  <2>2. ASSUME NEW e \in Device PROVE SafeAt(e)'
    BY <2>1, SafeFrame DEF Safe
  <2> QED
    BY <2>2 DEF Safe
<1>4. ASSUME Tick \/ UNCHANGED gc_vars PROVE Safe'
  <2>1. UNCHANGED <<text, base, manifest, view, merged, orphans, spanned, candidates, pc, moving>>
    BY <1>4 DEF Tick, gc_vars, round_vars
  <2>2. ASSUME NEW e \in Device PROVE SafeAt(e)'
    BY <2>1, SafeFrame DEF Safe
  <2> QED
    BY <2>2 DEF Safe
<1> QED
  BY <1>1, <1>2, <1>3, <1>4, SafeEdit, SafeGet, SafePut, SafeList, SafeRegister DEF Next, Round

\* What is being published stays in the store: its quarantine would need a device
\* that takes nothing that is pending elsewhere.
LEMMA StoredQuarantine ==
  ASSUME TypeOK, Texted, Safe, Stored, Referenced, NEW d \in Device, NEW h \in Hash, Quarantine(d, h)
  PROVE  Stored' /\ Referenced'
<1>1. /\ UNCHANGED <<pc, merged, view, sending, manifest>> /\ blobs' = blobs \ {h}
      /\ At(d, "move") /\ h \in moving[d]
  BY DEF Quarantine
<1>2. ~Elsewhere(d, h) /\ h \notin Refs(manifest)
  BY <1>1 DEF Safe, SafeAt
<1>3. ASSUME NEW e \in Device, NEW n \in Note, At(e, "merge"), merged[e][n] # view[e][n], merged[e][n] = h
      PROVE  FALSE
  <2>1. Pending(e, n, h)
    BY <1>3 DEF Texted, Merging, Pending
  <2>2. e # d
    BY <1>1, <1>3 DEF At
  <2> QED
    BY <1>2, <2>1, <2>2 DEF Elsewhere
<1>4. Stored'
  BY <1>1, <1>3 DEF Stored, At
<1>5. Referenced'
  BY <1>1, <1>2 DEF Referenced
<1> QED
  BY <1>4, <1>5

LEMMA StoredGet ==
  ASSUME TypeOK, Stored, Referenced, NEW d \in Device, Get(d)
  PROVE  Stored' /\ Referenced'
<1>1. PICK m \in Texts :
         /\ merged' = [merged EXCEPT ![d] = m]
         /\ sending' = [sending EXCEPT ![d] = {m[n] : n \in {k \in Note : m[k] # manifest[k]}} \ {None}]
  BY DEF Get
<1>2. /\ UNCHANGED <<manifest, blobs>> /\ view'[d] = manifest /\ merged'[d] = m
      /\ sending'[d] = {m[n] : n \in {k \in Note : m[k] # manifest[k]}} \ {None}
      /\ \A e \in Device \ {d} : /\ pc'[e] = pc[e] /\ view'[e] = view[e]
                                 /\ merged'[e] = merged[e] /\ sending'[e] = sending[e]
  BY <1>1 DEF Get, Go, TypeOK
<1>3. \A n \in Note : m[n] # manifest[n] => m[n] \in {None} \cup sending'[d]
  BY <1>2
<1>4. Stored'
  BY <1>2, <1>3 DEF Stored, At
<1> QED
  BY <1>2, <1>4 DEF Referenced

LEMMA StoredSend ==
  ASSUME TypeOK, Stored, Referenced, NEW d \in Device, NEW h \in Hash, Send(d, h) \/ SendFails(d, h)
  PROVE  Stored' /\ Referenced'
<1>1. CASE Send(d, h)
  <2>1. /\ UNCHANGED <<pc, merged, view, manifest>> /\ blobs' = blobs \cup {h}
        /\ \A e \in Device : sending[e] \subseteq sending'[e] \cup {h}
    BY <1>1 DEF Send, TypeOK
  <2>2. Stored'
    BY <2>1 DEF Stored, At
  <2> QED
    BY <2>1, <2>2 DEF Referenced
<1>2. CASE SendFails(d, h)
  <2>1. /\ UNCHANGED <<pc, view, manifest, blobs>>
        /\ \A e \in Device \ {d} : merged'[e] = merged[e] /\ sending'[e] = sending[e]
        /\ \A n \in Note : merged'[d][n] = IF merged[d][n] = h THEN view[d][n] ELSE merged[d][n]
        /\ sending'[d] = sending[d] \ {h}
    BY <1>2 DEF SendFails, TypeOK
  <2>2. Stored'
    BY <2>1 DEF Stored, At
  <2> QED
    BY <2>1, <2>2 DEF Referenced
<1> QED
  BY <1>1, <1>2

LEMMA StoredPut ==
  ASSUME TypeOK, Texted, Stored, Referenced, NEW d \in Device, Put(d)
  PROVE  Stored' /\ Referenced'
<1>1. /\ UNCHANGED <<merged, view, sending, blobs>> /\ At(d, "merge") /\ sending[d] = {}
      /\ \A e \in Device : At(e, "merge")' => At(e, "merge")
  BY DEF Put, Go, At, TypeOK
<1>2. Stored'
  BY <1>1 DEF Stored
<1>3. CASE manifest' = manifest
  BY <1>1, <1>2, <1>3 DEF Referenced, Refs
<1>4. CASE manifest' = merged[d] /\ etagOk[d]
  <2>1. ASSUME NEW n \in Note, merged[d][n] # None PROVE merged[d][n] \in blobs
    <3>1. CASE merged[d][n] # view[d][n]
      BY <1>1, <2>1, <3>1 DEF Stored
    <3>2. CASE merged[d][n] = view[d][n]
      <4>1. view[d] = manifest
        BY <1>4 DEF Texted, Merging
      <4> QED
        BY <2>1, <3>2, <4>1 DEF Referenced, Refs
    <3> QED
      BY <3>1, <3>2
  <2>2. Refs(merged[d]) \subseteq blobs
    BY <2>1 DEF Refs
  <2> QED
    BY <1>1, <1>2, <1>4, <2>2 DEF Referenced, Refs
<1> QED
  BY <1>3, <1>4 DEF Put

LEMMA StoredStep ==
  ASSUME TypeOK, Texted, Safe, Stored, Referenced, [Next]_gc_vars
  PROVE  Stored' /\ Referenced'
<1>1. ASSUME NEW d \in Device, \/ PutConflict(d) \/ Abort(d) \/ Purge(d) \/ Drop(d) \/ List(d) \/ Register(d)
                               \/ \E h \in Hash : QuarantineFails(d, h)
      PROVE  Stored' /\ Referenced'
  <2>1. UNCHANGED <<merged, view, sending, blobs, manifest>>
    BY <1>1 DEF PutConflict, Abort, Purge, Drop, List, Register, Registering, QuarantineFails
  <2>2. \A e \in Device : pc'[e] = "merge" => pc[e] = "merge"
    BY <1>1 DEF PutConflict, Abort, Purge, Drop, List, Register, Registering, QuarantineFails, Go, TypeOK
  <2> QED
    BY <2>1, <2>2 DEF Stored, Referenced, At
<1>2. ASSUME \/ Tick \/ UNCHANGED gc_vars
             \/ \E d \in Device, n \in Note, h \in Hash \cup {None} : Edit(d, n, h)
      PROVE  Stored' /\ Referenced'
  <2>1. UNCHANGED <<merged, view, sending, blobs, manifest, pc>>
    BY <1>2 DEF Tick, Edit, gc_vars, round_vars
  <2> QED
    BY <2>1 DEF Stored, Referenced, At
<1> QED
  BY <1>1, <1>2, StoredQuarantine, StoredGet, StoredSend, StoredPut DEF Next, Round

\* If no text is typed twice, and a device that starts a round finds published or
\* given up what others had uploaded when it last collected, then every blob that
\* the manifest refers to is in the store: no collection takes a blob that is
\* published or about to be, however rounds interleave, fail or die.
THEOREM ReferencedCorrect == ~Revert /\ Timely => (Spec => []Referenced)
<1> SUFFICES ASSUME ~Revert, Timely PROVE Spec => []Referenced
  OBVIOUS
<1>1. Spec => []Texted
  BY TextedCorrect
<1>2. TypeOK /\ Texted /\ Safe /\ [Next]_gc_vars => Safe'
  BY SafeStep
<1>3. TypeOK /\ Texted /\ Safe /\ Stored /\ Referenced /\ [Next]_gc_vars => Stored' /\ Referenced'
  BY StoredStep
<1> QED
  BY <1>1, <1>2, <1>3, SafeInit, GcTypeCorrect, PTL DEF Spec
================================================================================
