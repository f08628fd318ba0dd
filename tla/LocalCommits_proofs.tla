------------------------ MODULE LocalCommits_proofs ------------------------
(* Proofs about LocalCommits, for any paths, contents and bounds, and that  *)
(* it implements the entry of PackageSync.                                  *)
EXTENDS LocalEntry, TLAPS

USE LocalCommitsAssumption

WalkRecord == [on : BOOLEAN, seen : Revision, found : SUBSET Paths, gone : SUBSET Paths,
               stamps : [Paths -> Entry]]

OpRecord == [kind : {"none", "commit", "undo"},
             at : {"idle"} \cup CommitStages \cup UndoStages,
             seen : Revision, todo : SUBSET Paths, now : Paths \cup {Absent}]

-----------------------------------------------------------------------------
(* Types *)

LEMMA ConstantsTyped ==
  /\ NoEntry \in Entry /\ NoWalk \in WalkRecord /\ Idle \in OpRecord
  /\ NoEntry.stamp = "lost" /\ ~NoWalk.on /\ Idle.at = "idle" /\ Idle.kind = "none"
<1>1. NoEntry \in Entry /\ NoEntry.stamp = "lost"
  BY DEF NoEntry, Entry, Content
<1>2. NoWalk \in WalkRecord /\ ~NoWalk.on
  BY <1>1 DEF NoWalk, WalkRecord, Revision, Content
<1>3. Idle \in OpRecord /\ Idle.at = "idle" /\ Idle.kind = "none"
  BY DEF Idle, OpRecord, Revision, Content
<1> QED
  BY <1>1, <1>2, <1>3

\* The parts of TypeOK that the proofs use most.
LEMMA Typed ==
  ASSUME TypeOK
  PROVE  /\ files \in [Paths -> Content] /\ objects \in [Contents -> Content]
         /\ cache \in [Paths -> Entry]
         /\ walks \in [{"commit", "status"} -> WalkRecord]
         /\ op \in OpRecord
         /\ lineage \in [chain : Seq(Revision) \ {<<>>}, tracked : SUBSET Paths]
BY DEF TypeOK, WalkRecord, OpRecord, Revision

LEMMA ChainTyped ==
  ASSUME TypeOK
  PROVE  /\ lineage.chain \in Seq(Revision) /\ Len(lineage.chain) \in Nat \ {0}
         /\ Head1 = lineage.chain[1] /\ Head1 \in [Paths -> Content]
         /\ 1 \in DOMAIN lineage.chain
         /\ Len(lineage.chain) > 1 => 2 \in DOMAIN lineage.chain /\ Second \in [Paths -> Content]
         /\ lineage.tracked \subseteq Paths
<1>1. lineage.chain \in Seq(Revision) /\ lineage.chain # <<>> /\ lineage.tracked \subseteq Paths
  BY DEF TypeOK
<1>2. Len(lineage.chain) \in Nat \ {0} /\ Head1 = lineage.chain[1]
  BY <1>1 DEF Head1
<1>3. 1 \in DOMAIN lineage.chain /\ (Len(lineage.chain) > 1 => 2 \in DOMAIN lineage.chain)
  BY <1>1, <1>2
<1>4. \A i \in DOMAIN lineage.chain : lineage.chain[i] \in Revision
  BY <1>1
<1> QED
  BY <1>1, <1>2, <1>3, <1>4 DEF Second, Revision

LEMMA RowsTyped ==
  ASSUME TypeOK
  PROVE  /\ Rows \in [Paths -> Content] /\ Changed \subseteq Paths
         /\ Rehashed \in [Paths -> Content]
<1>1. Head1 \in [Paths -> Content] /\ op.seen \in [Paths -> Content]
  BY ChainTyped, Typed DEF OpRecord, Revision
<1>2. files \in [Paths -> Content]
  BY Typed
<1> QED
  BY <1>1, <1>2 DEF Rows, Changed, Rehashed

LEMMA SavedTyped ==
  ASSUME TypeOK, NEW w \in {"commit", "status"}
  PROVE  Saved(walks[w]) \in [Paths -> Entry]
<1> DEFINE walk == walks[w]
<1>1. walk \in WalkRecord /\ files \in [Paths -> Content] /\ cache \in [Paths -> Entry]
  BY Typed
<1>2. \A p \in Paths : [walk.stamps[p] EXCEPT !.hash = files[p]] \in Entry
  BY <1>1 DEF WalkRecord, Entry
<1> QED
  BY <1>1, <1>2, ConstantsTyped DEF Saved

LEMMA WalkedTyped ==
  ASSUME TypeOK, NEW full \in BOOLEAN
  PROVE  Walked(full) \in WalkRecord
<1>1. files \in [Paths -> Content] /\ cache \in [Paths -> Entry]
  BY Typed
<1>2. \A p \in Paths : cache[p].hash \in Content
  BY <1>1 DEF Entry
<1>3. \A s \in {"now", "old"} : [NoEntry EXCEPT !.stamp = s] \in Entry
  BY DEF NoEntry, Entry, Content
<1>4. Files(files) \subseteq Paths
  BY DEF Files
<1>5. /\ Walked(full).on \in BOOLEAN /\ Walked(full).found \in SUBSET Paths
      /\ Walked(full).gone \in SUBSET Paths
  BY <1>4 DEF Walked
<1>6. Walked(full).seen \in Revision
  BY <1>2 DEF Walked, Revision, Content
<1>7. Walked(full).stamps \in [Paths -> Entry]
  BY <1>3, ConstantsTyped DEF Walked
<1> HIDE DEF Files
<1> QED
  BY <1>5, <1>6, <1>7 DEF Walked, WalkRecord

-----------------------------------------------------------------------------
(* What most steps leave alone *)

\* The chain stays filed while it does not change and no object or manifest goes.
LEMMA FiledKept ==
  ASSUME TypeOK, ChainIsFiled, lineage'.chain = lineage.chain, manifests \subseteq manifests',
         \A c \in Contents : objects[c] # Absent => objects'[c] # Absent
  PROVE  ChainIsFiled'
<1> SUFFICES ASSUME NEW i \in DOMAIN lineage.chain
             PROVE  /\ lineage.chain[i] \in manifests'
                    /\ \A p \in Files(lineage.chain[i]) : objects'[lineage.chain[i][p]] # Absent
  BY DEF ChainIsFiled, Files
<1>1. lineage.chain[i] \in [Paths -> Content]
  BY ChainTyped DEF Revision
<1>2. \A p \in Files(lineage.chain[i]) : lineage.chain[i][p] \in Contents
  BY <1>1 DEF Files, Content
<1> QED
  BY <1>2 DEF ChainIsFiled

LEMMA HonestKept ==
  ASSUME HonestObjects, UNCHANGED objects, torn \subseteq torn',
         op.at # "copying" \/ UNCHANGED op
  PROVE  HonestObjects'
BY DEF HonestObjects

\* A program's write gives no entry of the cache, or of a walk, a trusted stamp.
LEMMA WritesKeepCache ==
  ASSUME TypeOK, CacheIsTrue, NEW p \in Paths, NEW c \in Content, Writes(p, c)
  PROVE  /\ files' = [files EXCEPT ![p] = c] /\ files' \in Revision
         /\ recent' \subseteq Paths
         /\ cache' \in [Paths -> Entry] /\ CacheIsTrue'
         /\ walks' \in [{"commit", "status"} -> WalkRecord]
         /\ walks'["commit"].on = walks["commit"].on
<1>1. /\ files \in [Paths -> Content] /\ cache \in [Paths -> Entry]
      /\ walks \in [{"commit", "status"} -> WalkRecord]
  BY Typed
<1>2. \A e \in Entry : Rewritten(e) \in Entry /\ Rewritten(e).stamp # "old"
  BY ConstantsTyped DEF Rewritten
<1>3. /\ files' = [files EXCEPT ![p] = c] /\ files' \in Revision
      /\ recent' \subseteq Paths
  BY <1>1 DEF Writes, Revision, TypeOK
<1>4. cache' \in [Paths -> Entry]
  BY <1>1, <1>2 DEF Writes
<1>5. \A q \in Paths : cache'[q] = IF q = p THEN Rewritten(cache[p]) ELSE cache[q]
  BY <1>1 DEF Writes
<1>6. CacheIsTrue'
  BY <1>1, <1>2, <1>3, <1>5 DEF CacheIsTrue, Trusted
<1>7. \A w \in {"commit", "status"} :
         [walks[w] EXCEPT !.stamps[p] = Rewritten(@)] \in WalkRecord
  <2> SUFFICES ASSUME NEW w \in {"commit", "status"}
               PROVE  [walks[w] EXCEPT !.stamps[p] = Rewritten(@)] \in WalkRecord
    OBVIOUS
  <2>1. walks[w] \in WalkRecord
    BY <1>1
  <2>2. walks[w].stamps \in [Paths -> Entry]
    BY <2>1 DEF WalkRecord
  <2>3. [walks[w].stamps EXCEPT ![p] = Rewritten(@)] \in [Paths -> Entry]
    BY <2>2, <1>2
  <2> QED
    BY <2>1, <2>3 DEF WalkRecord
<1>8. walks' = [w \in {"commit", "status"} |-> [walks[w] EXCEPT !.stamps[p] = Rewritten(@)]]
  BY <1>1 DEF Writes
<1>9. walks' \in [{"commit", "status"} -> WalkRecord]
  BY <1>7, <1>8
<1>10. walks'["commit"].on = walks["commit"].on
  BY <1>1, <1>8 DEF WalkRecord
<1> QED
  BY <1>3, <1>4, <1>6, <1>9, <1>10

\* What an operation held is gone when it ends.
LEMMA EndsOK ==
  ASSUME IInv, Ends
  PROVE  /\ op' \in OpRecord /\ touched' \subseteq Paths
         /\ walks' \in [{"commit", "status"} -> WalkRecord]
         /\ OpOK'
<1>1. op' \in OpRecord /\ op'.at = "idle" /\ op'.kind = "none" /\ touched' \subseteq Paths
  BY ConstantsTyped DEF Ends
<1>2. walks \in [{"commit", "status"} -> WalkRecord]
  BY Typed DEF IInv
<1>3. walks' \in [{"commit", "status"} -> WalkRecord] /\ ~walks'["commit"].on
  BY <1>2, ConstantsTyped DEF Ends
<1>4. OpOK'
  BY <1>1, <1>3 DEF OpOK, CommitOK, UndoOK, CommitStages, UndoStages
<1> QED
  BY <1>1, <1>3, <1>4

\* A step that ends the operation and saves nothing.
LEMMA EndsInv ==
  ASSUME IInv, Ends, UNCHANGED <<files, recent, objects, saved, cache, edits>>,
         torn \subseteq torn', torn' \subseteq Contents, stops' \in 0..MaxStops,
         op.at = "copying" => op.seen[op.now] \in torn'
  PROVE  IInv'
<1>1. TypeOK'
  BY EndsOK DEF IInv, TypeOK, WalkRecord, OpRecord, saved
<1>2. ChainIsFiled'
  BY FiledKept DEF IInv, saved
<1>3. HonestObjects'
  BY DEF IInv, HonestObjects
<1>4. CacheIsTrue' /\ TracksHead'
  BY DEF IInv, CacheIsTrue, TracksHead, Head1, Files, saved
<1> QED
  BY <1>1, <1>2, <1>3, <1>4, EndsOK DEF IInv

-----------------------------------------------------------------------------
(* The user's programs, time, and a stop *)

LEMMA InitInv == Init => IInv
<1> SUFFICES ASSUME Init PROVE IInv
  OBVIOUS
<1>1. files \in Revision
  BY DEF Init, Revision, Content
<1>2. lineage = [chain |-> <<files>>, tracked |-> Files(files)] /\ manifests = {files}
  BY DEF Init
<1>3. <<files>> \in Seq(Revision) \ {<<>>} /\ Files(files) \subseteq Paths
  BY <1>1 DEF Files
<1>4. objects \in [Contents -> Content] /\ \A c \in Contents : objects[c] \in {Absent, c}
  BY DEF Init, Content
<1>5. op = Idle /\ walks = [w \in {"commit", "status"} |-> NoWalk]
      /\ cache = [p \in Paths |-> NoEntry]
  BY DEF Init
<1>6. TypeOK
  <2>1. op \in OpRecord /\ walks \in [{"commit", "status"} -> WalkRecord]
        /\ cache \in [Paths -> Entry]
    BY <1>5, ConstantsTyped
  <2>2. edits = 0 /\ stops = 0 /\ recent = {} /\ touched = {} /\ torn = {}
    BY DEF Init
  <2> QED
    BY <1>1, <1>2, <1>3, <1>4, <2>1, <2>2 DEF TypeOK, OpRecord, WalkRecord
<1>7. ChainIsFiled
  <2>1. DOMAIN lineage.chain = {1} /\ lineage.chain[1] = files
    BY <1>2
  <2>2. \A p \in Files(files) : objects[files[p]] # Absent
    BY <1>1 DEF Init, Files, Revision, Content
  <2> QED
    BY <2>1, <2>2, <1>2 DEF ChainIsFiled
<1>8. HonestObjects
  BY <1>4 DEF HonestObjects
<1>9. CacheIsTrue
  BY <1>5, ConstantsTyped DEF CacheIsTrue, Trusted
<1>10. TracksHead
  BY <1>2 DEF TracksHead, Head1
<1>11. OpOK
  BY <1>5, ConstantsTyped DEF OpOK, CommitOK, UndoOK, CommitStages, UndoStages
<1> QED
  BY <1>6, <1>7, <1>8, <1>9, <1>10, <1>11 DEF IInv

\* An operation in flight is in order while it, the record and the objects
\* stay, and each file written is one of those touched.
LEMMA FlightKept ==
  ASSUME IInv, UNCHANGED <<op, lineage, objects, manifests, torn>>,
         walks'["commit"].on = walks["commit"].on,
         touched \subseteq touched',
         op.at # "idle" => \A p \in Paths : files'[p] = files[p] \/ p \in touched'
  PROVE  OpOK'
<1>1. CASE op.at = "idle"
  BY <1>1 DEF IInv, OpOK, CommitOK, UndoOK, CommitStages, UndoStages
<1>2. CASE op.at # "idle"
  <2>1. /\ Rows' = Rows /\ Delta' = Delta /\ Restores' = Restores /\ Checked' = Checked
        /\ Second' = Second /\ Head1' = Head1
    BY DEF Rows, Keeps, Delta, Restores, Checked, Second, Head1
  <2>2. op.todo \subseteq Paths /\ Checked \subseteq Paths /\ lineage.tracked \cup Delta \subseteq Paths
    BY ChainTyped DEF IInv, TypeOK, Checked, Restores, Delta
  <2>3. CommitOK'
    BY <1>2, <2>1, <2>2 DEF IInv, OpOK, CommitOK, Files
  <2>4. UndoOK'
    BY <1>2, <2>1, <2>2 DEF IInv, OpOK, UndoOK
  <2> QED
    BY <2>3, <2>4 DEF IInv, OpOK
<1> QED
  BY <1>1, <1>2

LEMMA EditInv ==
  ASSUME IInv, NEW p \in Paths, NEW c \in Content, Edit(p, c)
  PROVE  IInv'
<1> USE DEF Edit
<1>1. TypeOK /\ Writes(p, c)
  BY DEF IInv
<1>2. TypeOK' /\ CacheIsTrue'
  BY <1>1, WritesKeepCache DEF IInv, TypeOK, saved, WalkRecord
<1>3. ChainIsFiled' /\ HonestObjects'
  BY FiledKept, HonestKept DEF IInv, saved
<1>4. TracksHead'
  BY DEF IInv, TracksHead, Head1, Files, saved
<1>5. OpOK'
  <2>1. op.at # "idle" => \A q \in Paths : files'[q] = files[q] \/ q \in touched'
    BY <1>1, WritesKeepCache, Typed DEF IInv
  <2>2. walks'["commit"].on = walks["commit"].on
    BY <1>1, WritesKeepCache DEF IInv
  <2> QED
    BY <2>1, <2>2, FlightKept DEF saved
<1> QED
  BY <1>2, <1>3, <1>4, <1>5 DEF IInv

LEMMA SecondPassesInv ==
  ASSUME IInv, SecondPasses
  PROVE  IInv'
<1> USE DEF SecondPasses
<1>1. /\ cache \in [Paths -> Entry] /\ walks \in [{"commit", "status"} -> WalkRecord]
  BY Typed DEF IInv
<1>2. \A es \in [Paths -> Entry] : Aged(es) \in [Paths -> Entry]
  BY DEF Aged, Entry
<1>3. \A w \in {"commit", "status"} : [walks[w] EXCEPT !.stamps = Aged(@)] \in WalkRecord
  <2> SUFFICES ASSUME NEW w \in {"commit", "status"}
               PROVE  [walks[w] EXCEPT !.stamps = Aged(@)] \in WalkRecord
    OBVIOUS
  <2>1. walks[w] \in WalkRecord /\ Aged(walks[w].stamps) \in [Paths -> Entry]
    BY <1>1, <1>2 DEF WalkRecord
  <2> QED
    BY <2>1 DEF WalkRecord
<1>4. walks' = [w \in {"commit", "status"} |-> [walks[w] EXCEPT !.stamps = Aged(@)]]
  BY <1>1
<1>5. /\ walks' \in [{"commit", "status"} -> WalkRecord]
      /\ walks'["commit"].on = walks["commit"].on
  BY <1>1, <1>3, <1>4 DEF WalkRecord
<1>6. TypeOK'
  BY <1>1, <1>2, <1>5 DEF IInv, TypeOK, saved, bounds, WalkRecord
<1>7. CacheIsTrue'
  BY <1>1 DEF IInv, CacheIsTrue, Trusted, Aged, Entry
<1>8. ChainIsFiled' /\ HonestObjects'
  BY FiledKept, HonestKept DEF IInv, saved
<1>9. TracksHead'
  BY DEF IInv, TracksHead, Head1, Files, saved
<1>10. OpOK'
  BY <1>5, FlightKept DEF saved
<1> QED
  BY <1>6, <1>7, <1>8, <1>9, <1>10 DEF IInv

LEMMA StopInv ==
  ASSUME IInv, Stop
  PROVE  IInv'
<1>1. op.at = "copying" => op.seen[op.now] \in Contents
  BY DEF IInv, OpOK, CommitOK, TypeOK, Revision, Content
<1>2. torn' \subseteq Contents /\ torn \subseteq torn' /\ stops' \in 0..MaxStops
  BY <1>1 DEF Stop, IInv, TypeOK
<1>3. op.at = "copying" => op.seen[op.now] \in torn'
  BY DEF Stop
<1> QED
  BY <1>2, <1>3, EndsInv DEF Stop

LEMMA UninstallPathInv ==
  ASSUME IInv, NEW p \in Paths, UninstallPath(p)
  PROVE  IInv'
<1> USE DEF UninstallPath
<1>1. TypeOK /\ Absent \in Content /\ Writes(p, Absent)
  BY DEF IInv, Content
<1>2. /\ lineage' = [lineage EXCEPT !.tracked = @ \ {p}]
      /\ lineage' \in [chain : Seq(Revision) \ {<<>>}, tracked : SUBSET Paths]
      /\ lineage'.chain = lineage.chain /\ lineage'.tracked \subseteq lineage.tracked
  BY <1>1, Typed
<1>3. TypeOK' /\ CacheIsTrue'
  BY <1>1, <1>2, WritesKeepCache DEF IInv, TypeOK, saved, WalkRecord
<1>4. ChainIsFiled' /\ HonestObjects'
  BY <1>2, FiledKept, HonestKept DEF IInv
<1>5. TracksHead'
  BY <1>2 DEF IInv, TracksHead, Head1, Files
<1>6. OpOK'
  <2>1. walks'["commit"].on = walks["commit"].on
    BY <1>1, WritesKeepCache DEF IInv
  <2> QED
    BY <2>1 DEF IInv, OpOK, CommitOK, UndoOK, CommitStages, UndoStages
<1> QED
  BY <1>3, <1>4, <1>5, <1>6 DEF IInv

-----------------------------------------------------------------------------
(* The status walk *)

LEMMA WalkInv ==
  ASSUME IInv, NEW w \in DOMAIN walks, NEW full \in BOOLEAN, Walk(w, full)
  PROVE  IInv'
<1> USE DEF Walk
<1>1. walks \in [{"commit", "status"} -> WalkRecord] /\ w \in {"commit", "status"}
  BY Typed DEF IInv
<1>2. walks' \in [{"commit", "status"} -> WalkRecord]
  BY <1>1, WalkedTyped DEF IInv
<1>3. CASE w = "status"
  <2>1. UNCHANGED op /\ walks'["commit"].on = walks["commit"].on
    BY <1>1, <1>3
  <2>2. TypeOK'
    BY <1>2, <2>1 DEF IInv, TypeOK, saved, bounds, WalkRecord
  <2>3. OpOK'
    BY <2>1, FlightKept DEF saved
  <2>4. ChainIsFiled' /\ HonestObjects' /\ CacheIsTrue' /\ TracksHead'
    BY <2>1, FiledKept, HonestKept DEF IInv, CacheIsTrue, TracksHead, Head1, Files, saved
  <2> QED
    BY <2>2, <2>3, <2>4 DEF IInv
<1>4. CASE w # "status"
  <2>1. op.at = "idle" /\ op' = [Idle EXCEPT !.kind = "commit", !.at = "walking"]
    BY <1>4
  <2>2. op' \in OpRecord /\ op'.at = "walking" /\ op'.kind = "commit"
    BY <2>1, ConstantsTyped DEF OpRecord, CommitStages
  <2>3. TypeOK'
    BY <1>2, <2>2 DEF IInv, TypeOK, saved, bounds, WalkRecord, OpRecord
  <2>4. OpOK'
    BY <2>2 DEF OpOK, CommitOK, UndoOK, CommitStages, UndoStages
  <2>5. ChainIsFiled' /\ HonestObjects' /\ CacheIsTrue' /\ TracksHead'
    BY <2>1, FiledKept, HonestKept DEF IInv, CacheIsTrue, TracksHead, Head1, Files, saved
  <2> QED
    BY <2>3, <2>4, <2>5 DEF IInv
<1> QED
  BY <1>3, <1>4

\* What a walk saves is what the files hold, wherever a walk would trust it.
LEMMA SavedIsTrue ==
  ASSUME IInv, NEW w \in {"commit", "status"}
  PROVE  \A p \in Paths : files[p] # Absent /\ Trusted(Saved(walks[w])[p])
            => Saved(walks[w])[p].hash = files[p]
<1> SUFFICES ASSUME NEW p \in Paths, files[p] # Absent, Trusted(Saved(walks[w])[p])
             PROVE  Saved(walks[w])[p].hash = files[p]
  OBVIOUS
<1>1. walks[w].stamps[p] \in Entry
  BY Typed DEF IInv, WalkRecord
<1>2. ~Trusted(NoEntry)
  BY ConstantsTyped DEF Trusted
<1>3. CASE p \in Fresh(walks[w]) /\ walks[w].stamps[p] # NoEntry
  BY <1>1, <1>3 DEF Saved, Entry
<1>4. CASE ~(p \in Fresh(walks[w]) /\ walks[w].stamps[p] # NoEntry)
  <2>1. Saved(walks[w])[p] = cache[p]
    BY <1>2, <1>4 DEF Saved
  <2> QED
    BY <2>1 DEF IInv, CacheIsTrue
<1> QED
  BY <1>3, <1>4

LEMMA StatusHashesInv ==
  ASSUME IInv, StatusHashes
  PROVE  IInv'
<1> USE DEF StatusHashes
<1>1. walks \in [{"commit", "status"} -> WalkRecord]
  BY Typed DEF IInv
<1>2. walks' \in [{"commit", "status"} -> WalkRecord] /\ walks'["commit"].on = walks["commit"].on
  BY <1>1, ConstantsTyped
<1>3. cache' = cache \/ cache' = Saved(walks["status"])
  OBVIOUS
<1>4. cache' \in [Paths -> Entry]
  BY <1>3, SavedTyped, Typed DEF IInv
<1>5. CacheIsTrue'
  BY <1>3, SavedIsTrue DEF IInv, CacheIsTrue
<1>6. TypeOK'
  BY <1>2, <1>4 DEF IInv, TypeOK, saved, bounds, WalkRecord
<1>7. ChainIsFiled' /\ HonestObjects'
  BY FiledKept, HonestKept DEF IInv, saved
<1>8. TracksHead'
  BY DEF IInv, TracksHead, Head1, Files, saved
<1>9. OpOK'
  BY <1>2, FlightKept DEF saved
<1> QED
  BY <1>5, <1>6, <1>7, <1>8, <1>9 DEF IInv

LEMMA CommitHashesInv ==
  ASSUME IInv, CommitHashes
  PROVE  IInv'
<1> DEFINE walk == walks["commit"]
<1>1. walks \in [{"commit", "status"} -> WalkRecord] /\ op \in OpRecord
      /\ files \in [Paths -> Content]
  BY Typed DEF IInv
<1>2. op.at = "walking" /\ op.kind = "commit"
  BY DEF CommitHashes, IInv, OpOK, CommitStages
<1>3. CASE \E p \in Fresh(walk) : files[p] = Absent
  <2>1. Ends /\ UNCHANGED <<files, recent, objects, saved, cache, torn, edits, stops>>
    BY <1>3 DEF CommitHashes, bounds
  <2> QED
    BY <1>2, <2>1, EndsInv DEF IInv, TypeOK
<1>4. CASE ~ \E p \in Fresh(walk) : files[p] = Absent
  <2>1. /\ cache' = Saved(walk) /\ walks' = [walks EXCEPT !["commit"] = NoWalk]
        /\ op' = [op EXCEPT !.at = "walked", !.seen =
                    [p \in Paths |-> IF p \in Fresh(walk) THEN files[p] ELSE walk.seen[p]]]
        /\ UNCHANGED <<files, recent, objects, saved, torn, edits, stops, touched>>
    BY <1>4 DEF CommitHashes, bounds
  <2>2. op' \in OpRecord /\ op'.at = "walked" /\ op'.kind = "commit"
    <3>1. [p \in Paths |-> IF p \in Fresh(walk) THEN files[p] ELSE walk.seen[p]] \in Revision
      BY <1>1 DEF WalkRecord, Revision
    <3> QED
      BY <1>1, <1>2, <2>1, <3>1 DEF OpRecord, CommitStages
  <2>3. walks' \in [{"commit", "status"} -> WalkRecord] /\ ~walks'["commit"].on
    BY <1>1, <2>1, ConstantsTyped
  <2>4. cache' \in [Paths -> Entry] /\ CacheIsTrue'
    BY <2>1, SavedTyped, SavedIsTrue DEF IInv, CacheIsTrue
  <2>5. TypeOK'
    BY <2>1, <2>2, <2>3, <2>4 DEF IInv, TypeOK, saved, WalkRecord, OpRecord
  <2>6. ChainIsFiled' /\ HonestObjects'
    BY <1>2, <2>1, FiledKept, HonestKept DEF IInv, saved
  <2>7. TracksHead'
    BY <2>1 DEF IInv, TracksHead, Head1, Files, saved
  <2>8. OpOK'
    BY <2>2, <2>3 DEF OpOK, CommitOK, UndoOK, CommitStages, UndoStages
  <2> QED
    BY <2>4, <2>5, <2>6, <2>7, <2>8 DEF IInv
<1> QED
  BY <1>3, <1>4

-----------------------------------------------------------------------------
(* Commit *)

\* Each row that the head holds, or that equals the head's, has its object.
LEMMA HeadFiled ==
  ASSUME IInv
  PROVE  \A p \in Paths : Head1[p] # Absent => Head1[p] \in Contents /\ objects[Head1[p]] # Absent
<1>1. 1 \in DOMAIN lineage.chain /\ Head1 = lineage.chain[1] /\ Head1 \in [Paths -> Content]
  BY ChainTyped DEF IInv
<1> QED
  BY <1>1 DEF IInv, ChainIsFiled, Files, Content

LEMMA RehashInv ==
  ASSUME IInv, Rehash
  PROVE  IInv'
<1> USE DEF Rehash
<1>1. op \in OpRecord /\ op.at = "walked" /\ op.kind = "commit"
  BY Typed DEF IInv, OpOK, CommitStages
<1>2. CASE \E p \in Changed : op.seen[p] # Absent /\ files[p] = Absent
  BY <1>1, <1>2, EndsInv DEF bounds, IInv, TypeOK
<1>3. CASE ~ \E p \in Changed : op.seen[p] # Absent /\ files[p] = Absent
  <2>1. PICK todo : todo = {p \in Changed : Rehashed[p] \notin {Absent, Head1[p]}}
    OBVIOUS
  <2>2. /\ op' = [op EXCEPT !.at = "copy", !.seen = Rehashed, !.todo = todo]
        /\ touched' = touched \ Changed
        /\ UNCHANGED <<walks, files, recent, objects, manifests, lineage, cache, torn, edits, stops>>
    BY <1>3, <2>1 DEF saved, bounds
  <2>3. /\ Rehashed \in [Paths -> Content] /\ Changed \subseteq Paths
        /\ Head1 \in [Paths -> Content] /\ files \in [Paths -> Content]
        /\ op.seen \in [Paths -> Content]
    BY RowsTyped, ChainTyped, Typed DEF IInv, OpRecord, Revision
  <2>4. todo \subseteq Paths
    BY <2>1, <2>3
  <2>5. /\ op' \in OpRecord /\ op'.at = "copy" /\ op'.kind = "commit"
        /\ op'.seen = Rehashed /\ op'.todo = todo
    BY <1>1, <2>2, <2>3, <2>4 DEF OpRecord, CommitStages, Revision
  <2>6. TypeOK'
    BY <2>2, <2>5 DEF IInv, TypeOK, OpRecord
  <2>7. ChainIsFiled' /\ HonestObjects' /\ CacheIsTrue' /\ TracksHead'
    BY <1>1, <2>2, FiledKept, HonestKept DEF IInv, CacheIsTrue, TracksHead, Head1, Files
  <2>8. \A p \in Paths : Rehashed[p] = Absent <=> op.seen[p] = Absent
    BY <1>3, <2>3 DEF Rehashed
  <2>9. \A p \in Paths : Rows'[p] = IF Rehashed[p] = Absent /\ p \notin lineage.tracked
                                     THEN Head1[p] ELSE Rehashed[p]
    BY <2>2, <2>5 DEF Rows, Keeps, Head1
  <2>10. \A p \in Files(Rows)' : p \in todo \/ objects[Rows'[p]] # Absent
    <3> SUFFICES ASSUME NEW p \in Paths, Rows'[p] # Absent, p \notin todo
                 PROVE  objects[Rows'[p]] # Absent
      BY DEF Files
    <3>1. Rows'[p] = Head1[p]
      <4>1. CASE Rehashed[p] = Absent /\ p \notin lineage.tracked
        BY <2>9, <4>1
      <4>2. CASE ~(Rehashed[p] = Absent /\ p \notin lineage.tracked)
        <5>1. Rows'[p] = Rehashed[p]
          BY <2>9, <4>2
        <5>2. CASE p \in Changed
          BY <5>1, <5>2, <2>1
        <5>3. CASE p \notin Changed
          <6>1. Rehashed[p] = op.seen[p] /\ Rows[p] = Head1[p]
            BY <5>3, <2>3 DEF Rehashed, Changed
          <6>2. Rows[p] = op.seen[p]
            BY <4>2, <6>1 DEF Rows, Keeps
          <6> QED
            BY <5>1, <6>1, <6>2
        <5> QED
          BY <5>2, <5>3
      <4> QED
        BY <4>1, <4>2
    <3> QED
      BY <3>1, HeadFiled
  <2>11. \A p \in todo : Rehashed[p] # Absent /\ Rehashed[p] = files[p]
    <3>1. \A p \in todo : p \in Changed /\ Rehashed[p] # Absent
      BY <2>1
    <3> QED
      BY <3>1, <2>8, <2>3 DEF Rehashed
  <2>12. CommitOK'
    BY <2>2, <2>5, <2>10, <2>11 DEF CommitOK
  <2>13. OpOK'
    BY <1>1, <2>2, <2>5, <2>12 DEF IInv, OpOK, UndoOK, CommitStages, UndoStages
  <2> QED
    BY <2>6, <2>7, <2>13 DEF IInv
<1> QED
  BY <1>2, <1>3

LEMMA CopyInv ==
  ASSUME IInv, NEW p \in Paths, Copy(p)
  PROVE  IInv'
<1> USE DEF Copy
<1>1. /\ op \in OpRecord /\ op.at = "copy" /\ op.kind = "commit" /\ p \in op.todo
      /\ op.seen \in [Paths -> Content] /\ objects \in [Contents -> Content]
  BY Typed DEF IInv, OpOK, CommitStages, OpRecord, Revision
<1>2. op.seen[p] # Absent /\ op.seen[p] \in Contents /\ (op.seen[p] = files[p] \/ p \in touched)
  BY <1>1 DEF IInv, OpOK, CommitOK, Content
<1>3. CASE files[p] = Absent
  BY <1>1, <1>3, EndsInv DEF bounds, IInv, TypeOK
<1>4. CASE files[p] # Absent
  <2>1. /\ UNCHANGED <<walks, touched, files, recent, manifests, lineage, cache, torn, edits, stops>>
        /\ op'.todo = op.todo \ {p} /\ op'.seen = op.seen /\ op'.kind = "commit"
        /\ op' \in OpRecord
        /\ \/ /\ objects[op.seen[p]] # Absent /\ op'.at = "copy" /\ UNCHANGED objects
           \/ /\ op'.at = "copying" /\ op'.now = p
              /\ objects' = [objects EXCEPT ![op.seen[p]] = Part]
    <3>1. UNCHANGED <<walks, touched, files, recent, manifests, lineage, cache, torn, edits, stops>>
      BY <1>4 DEF saved, bounds
    <3>2. CASE objects[op.seen[p]] # Absent
      <4>1. op' = [op EXCEPT !.todo = @ \ {p}] /\ UNCHANGED objects
        BY <1>4, <3>2
      <4> QED
        BY <1>1, <3>1, <3>2, <4>1 DEF OpRecord
    <3>3. CASE objects[op.seen[p]] = Absent
      <4>1. /\ op' = [op EXCEPT !.at = "copying", !.now = p, !.todo = @ \ {p}]
            /\ objects' = [objects EXCEPT ![op.seen[p]] = Part]
        BY <1>4, <3>3
      <4> QED
        BY <1>1, <3>1, <4>1 DEF OpRecord, CommitStages
    <3> QED
      BY <3>2, <3>3
  <2>2. /\ objects' \in [Contents -> Content] /\ objects'[op.seen[p]] # Absent
        /\ \A c \in Contents : objects[c] # Absent => objects'[c] # Absent
    BY <1>1, <1>2, <2>1 DEF Content
  <2>3. TypeOK'
    BY <2>1, <2>2 DEF IInv, TypeOK, OpRecord
  <2>4. ChainIsFiled' /\ CacheIsTrue' /\ TracksHead'
    BY <2>1, <2>2, FiledKept DEF IInv, CacheIsTrue, TracksHead, Head1, Files
  <2>5. HonestObjects'
    BY <1>1, <1>2, <2>1 DEF IInv, HonestObjects
  <2>6. Rows' = Rows /\ Rows \in [Paths -> Content]
    BY <2>1, RowsTyped DEF IInv, Rows, Keeps, Head1
  <2>7. Rows[p] = op.seen[p]
    BY <1>2 DEF Rows, Keeps
  <2>8. \A q \in Files(Rows) : q \in op'.todo \/ objects'[Rows[q]] # Absent
    <3>1. \A q \in Files(Rows) : Rows[q] \in Contents /\ (q \in op.todo \/ objects[Rows[q]] # Absent)
      BY <1>1, <2>6 DEF IInv, OpOK, CommitOK, Files, Content
    <3> QED
      BY <3>1, <2>1, <2>2, <2>7
  <2>9. CommitOK'
    BY <1>1, <1>2, <2>1, <2>6, <2>8 DEF IInv, OpOK, CommitOK, Files
  <2>10. OpOK'
    BY <1>1, <2>1, <2>9 DEF IInv, OpOK, UndoOK, CommitStages, UndoStages
  <2> QED
    BY <2>3, <2>4, <2>5, <2>10 DEF IInv
<1> QED
  BY <1>3, <1>4

LEMMA CopiedInv ==
  ASSUME IInv, Copied
  PROVE  IInv'
<1> USE DEF Copied
<1>1. PICK h : h = op.seen[op.now]
  OBVIOUS
<1>2. /\ op \in OpRecord /\ op.at = "copying" /\ op.kind = "commit" /\ op.now \in Paths
      /\ op.seen \in [Paths -> Content] /\ objects \in [Contents -> Content]
      /\ files \in [Paths -> Content]
  BY Typed DEF IInv, OpOK, CommitOK, CommitStages, OpRecord, Revision
<1>3. h \in Contents /\ (h = files[op.now] \/ op.now \in touched)
  BY <1>1, <1>2 DEF IInv, OpOK, CommitOK, Content
<1>4. PICK held : /\ held \in Contents /\ objects' = [objects EXCEPT ![h] = held]
                  /\ held = h \/ h \in torn'
  <2>1. CASE op.now \in touched
    <3>1. torn' = torn \cup {h}
      BY <1>1, <2>1
    <3>2. \E held \in {h, files[op.now], Part} \ {Absent} : objects' = [objects EXCEPT ![h] = held]
      BY <1>1, <2>1
    <3> QED
      BY <3>1, <3>2, <1>2, <1>3 DEF Content
  <2>2. CASE op.now \notin touched
    <3>1. \E held \in {files[op.now]} \ {Absent} : objects' = [objects EXCEPT ![h] = held]
      BY <1>1, <2>2
    <3> QED
      BY <3>1, <1>3, <2>2
  <2> QED
    BY <2>1, <2>2
<1>5. torn \subseteq torn' /\ torn' \subseteq Contents
  BY <1>1, <1>3 DEF IInv, TypeOK
<1>6. /\ objects' \in [Contents -> Content]
      /\ \A c \in Contents : objects'[c] = IF c = h THEN held ELSE objects[c]
      /\ \A c \in Contents : objects[c] # Absent => objects'[c] # Absent
  BY <1>2, <1>3, <1>4 DEF Content
<1>7. UNCHANGED <<files, recent, manifests, lineage, cache, edits, stops>>
  BY DEF saved, bounds
<1>8. ChainIsFiled' /\ CacheIsTrue' /\ TracksHead'
  BY <1>6, <1>7, FiledKept DEF IInv, CacheIsTrue, TracksHead, Head1, Files
<1>9. HonestObjects'
  BY <1>1, <1>4, <1>5, <1>6 DEF IInv, HonestObjects
<1>10. CASE files[op.now] = Absent
  <2>1. Ends
    BY <1>10
  <2>2. TypeOK' /\ OpOK'
    BY <2>1, <1>5, <1>6, <1>7, EndsOK DEF IInv, TypeOK, WalkRecord, OpRecord
  <2> QED
    BY <2>2, <1>8, <1>9 DEF IInv
<1>11. CASE files[op.now] # Absent
  <2>1. /\ op' = [op EXCEPT !.at = "copy", !.now = Absent]
        /\ UNCHANGED <<walks, touched>>
    BY <1>11
  <2>2. op' \in OpRecord /\ op'.at = "copy" /\ op'.kind = "commit" /\ op'.seen = op.seen
        /\ op'.todo = op.todo
    BY <1>2, <2>1 DEF OpRecord, CommitStages
  <2>3. TypeOK'
    BY <1>5, <1>6, <1>7, <2>1, <2>2 DEF IInv, TypeOK, OpRecord
  <2>4. Rows' = Rows /\ Rows \in [Paths -> Content]
    BY <1>7, <2>2, RowsTyped DEF IInv, Rows, Keeps, Head1
  <2>5. \A q \in Files(Rows) : q \in op.todo \/ objects'[Rows[q]] # Absent
    <3>1. \A q \in Files(Rows) : Rows[q] \in Contents /\ (q \in op.todo \/ objects[Rows[q]] # Absent)
      BY <1>2, <2>4 DEF IInv, OpOK, CommitOK, Files, Content
    <3> QED
      BY <3>1, <1>6
  <2>6. CommitOK'
    BY <1>2, <1>7, <2>1, <2>2, <2>4, <2>5 DEF IInv, OpOK, CommitOK, Files
  <2>7. OpOK'
    BY <1>2, <2>1, <2>2, <2>6 DEF IInv, OpOK, UndoOK, CommitStages, UndoStages
  <2> QED
    BY <2>3, <2>7, <1>8, <1>9 DEF IInv
<1> QED
  BY <1>10, <1>11

LEMMA FileManifestInv ==
  ASSUME IInv, FileManifest
  PROVE  IInv'
<1> USE DEF FileManifest
<1>1. op \in OpRecord /\ op.at = "copy" /\ op.kind = "commit" /\ op.todo = {}
  BY Typed DEF IInv, OpOK, CommitStages
<1>2. CASE Ends /\ UNCHANGED manifests
  BY <1>1, <1>2, EndsInv DEF bounds, saved, IInv, TypeOK
<1>3. CASE /\ Rows # Head1 /\ Len(lineage.chain) < MaxChain
           /\ manifests' = manifests \cup {Rows}
           /\ op' = [op EXCEPT !.at = "filed"]
           /\ UNCHANGED <<walks, touched>>
  <2>1. UNCHANGED <<walks, touched, files, recent, objects, lineage, cache, torn, edits, stops>>
    BY <1>3 DEF bounds
  <2>2. op' \in OpRecord /\ op'.at = "filed" /\ op'.kind = "commit" /\ op'.seen = op.seen
        /\ op'.todo = {}
    BY <1>1, <1>3 DEF OpRecord, CommitStages
  <2>3. Rows' = Rows /\ Rows \in Revision
    BY <2>1, <2>2, RowsTyped DEF IInv, Rows, Keeps, Head1, Revision
  <2>4. TypeOK'
    BY <1>3, <2>1, <2>2, <2>3 DEF IInv, TypeOK, OpRecord
  <2>5. ChainIsFiled' /\ HonestObjects' /\ CacheIsTrue' /\ TracksHead'
    BY <1>1, <1>3, <2>1, FiledKept, HonestKept DEF IInv, CacheIsTrue, TracksHead, Head1, Files
  <2>6. CommitOK'
    <3>1. Head1' = Head1 /\ lineage' = lineage
      BY <2>1 DEF Head1
    <3> QED
      BY <1>1, <1>3, <2>1, <2>2, <2>3, <3>1 DEF IInv, OpOK, CommitOK, Files
  <2>7. OpOK'
    BY <1>1, <2>1, <2>2, <2>6 DEF IInv, OpOK, UndoOK, CommitStages, UndoStages
  <2> QED
    BY <2>4, <2>5, <2>7 DEF IInv
<1> QED
  BY <1>2, <1>3

LEMMA Prepended ==
  ASSUME NEW S, NEW x \in S, NEW s \in Seq(S)
  PROVE  LET t == <<x>> \o s IN
         /\ t \in Seq(S) /\ t # <<>> /\ Head(t) = x
         /\ \A i \in DOMAIN t : t[i] = x \/ \E j \in DOMAIN s : t[i] = s[j]
<1> DEFINE t == <<x>> \o s
<1>1. /\ t \in Seq(S) /\ Len(t) = Len(s) + 1 /\ Len(s) \in Nat
      /\ DOMAIN t = 1..Len(t) /\ DOMAIN s = 1..Len(s)
  OBVIOUS
<1>2. \A i \in 1..Len(t) : t[i] = IF i = 1 THEN x ELSE s[i - 1]
  OBVIOUS
<1>3. t # <<>> /\ Head(t) = t[1] /\ t[1] = x
  BY <1>1, <1>2
<1>4. ASSUME NEW i \in 1..Len(t), i # 1
      PROVE  i - 1 \in 1..Len(s) /\ t[i] = s[i - 1]
  BY <1>1, <1>2, <1>4
<1> HIDE DEF t
<1>5. \A i \in DOMAIN t : t[i] = x \/ \E j \in DOMAIN s : t[i] = s[j]
  BY <1>1, <1>3, <1>4
<1> QED
  BY <1>1, <1>3, <1>5 DEF t

\* What the commit files becomes the head, with an object for each of its rows.
LEMMA SaveCommitInv ==
  ASSUME IInv, SaveCommit
  PROVE  IInv'
<1> USE DEF SaveCommit
<1>1. op.at = "filed" /\ op.todo = {} /\ Rows \in manifests
  BY DEF IInv, OpOK, CommitOK
<1>2. /\ Rows \in [Paths -> Content] /\ Rows \in Revision /\ Changed \subseteq Paths
      /\ lineage.chain \in Seq(Revision) /\ lineage.tracked \subseteq Paths
  BY RowsTyped, ChainTyped DEF IInv, Revision
<1>3. PICK chain : chain = <<Rows>> \o lineage.chain
  OBVIOUS
<1>4. /\ chain \in Seq(Revision) /\ chain # <<>> /\ Head(chain) = Rows
      /\ \A i \in DOMAIN chain : chain[i] = Rows \/ \E j \in DOMAIN lineage.chain : chain[i] = lineage.chain[j]
  BY <1>2, <1>3, Prepended
<1>5. lineage' = [chain |-> chain, tracked |-> (lineage.tracked \cup Changed) \ Gone]
  BY <1>3
<1>6. TypeOK'
  <2>1. lineage' \in [chain : Seq(Revision) \ {<<>>}, tracked : SUBSET Paths]
    BY <1>2, <1>4, <1>5
  <2> QED
    BY <2>1, EndsOK DEF IInv, TypeOK, WalkRecord, OpRecord, bounds
<1>7. ChainIsFiled'
  <2>1. \A p \in Files(Rows) : objects[Rows[p]] # Absent
    BY <1>1 DEF IInv, OpOK, CommitOK
  <2> QED
    BY <1>1, <1>4, <1>5, <2>1 DEF IInv, ChainIsFiled, Files
<1>8. HonestObjects' /\ CacheIsTrue'
  BY <1>1 DEF IInv, HonestObjects, CacheIsTrue
<1>9. TracksHead'
  <2> SUFFICES ASSUME NEW p \in Paths, p \in (lineage.tracked \cup Changed) \ Gone
               PROVE  Rows[p] # Absent
    BY <1>2, <1>4, <1>5 DEF TracksHead, Head1, Files
  <2>1. CASE p \in lineage.tracked
    BY <2>1 DEF Gone, Rows, Keeps
  <2>2. CASE p \notin lineage.tracked
    BY <2>2 DEF Changed, Rows, Keeps
  <2> QED
    BY <2>1, <2>2
<1> QED
  BY <1>6, <1>7, <1>8, <1>9, EndsOK DEF IInv

-----------------------------------------------------------------------------
(* Undo *)

LEMMA DeltaTyped ==
  ASSUME TypeOK
  PROVE  Delta \subseteq Paths /\ Restores \subseteq Delta /\ Checked \subseteq Paths
BY ChainTyped DEF Delta, Restores, Checked

\* A step of an undo that neither writes a file nor ends it.
LEMMA UndoStepInv ==
  ASSUME IInv, UNCHANGED <<walks, files, recent, objects, saved, cache, torn, bounds>>,
         op' \in OpRecord, touched' \subseteq Paths,
         op.at # "copying", op'.kind = "undo", op'.at \in UndoStages, ~walks["commit"].on,
         UndoOK'
  PROVE  IInv'
<1>1. TypeOK'
  BY DEF IInv, TypeOK, OpRecord, saved, bounds
<1>2. ChainIsFiled' /\ HonestObjects' /\ CacheIsTrue' /\ TracksHead'
  BY FiledKept, HonestKept DEF IInv, CacheIsTrue, TracksHead, Head1, Files, saved
<1>3. OpOK'
  BY DEF OpOK, CommitOK, CommitStages, UndoStages
<1> QED
  BY <1>1, <1>2, <1>3 DEF IInv

\* The record an undo works from is the one it started with.
LEMMA SameRecord ==
  ASSUME UNCHANGED lineage
  PROVE  /\ Head1' = Head1 /\ Second' = Second /\ Delta' = Delta
         /\ Restores' = Restores /\ Checked' = Checked
BY DEF Head1, Second, Delta, Restores, Checked

LEMMA UndoInv ==
  ASSUME IInv, Undo
  PROVE  IInv'
<1> USE DEF Undo
<1>1. PICK todo : todo = Checked
  OBVIOUS
<1>2. todo \subseteq Paths
  BY <1>1, DeltaTyped DEF IInv
<1>3. /\ op' = [Idle EXCEPT !.kind = "undo", !.at = "checking", !.todo = todo]
      /\ UNCHANGED lineage
  BY <1>1 DEF saved
<1>4. op' \in OpRecord /\ op'.kind = "undo" /\ op'.at = "checking" /\ op'.todo = todo
  BY <1>2, <1>3, ConstantsTyped DEF OpRecord, UndoStages
<1>5. UndoOK'
  BY <1>1, <1>3, <1>4, SameRecord DEF UndoOK
<1>6. ~walks["commit"].on /\ touched' \subseteq Paths
  BY DEF IInv, OpOK, TypeOK
<1> QED
  BY <1>4, <1>5, <1>6, UndoStepInv DEF UndoStages

LEMMA CheckInv ==
  ASSUME IInv, NEW p \in Paths, Check(p)
  PROVE  IInv'
<1> USE DEF Check
<1>1. op \in OpRecord /\ op.at = "checking" /\ op.kind = "undo" /\ ~walks["commit"].on
  BY Typed DEF IInv, OpOK, UndoStages
<1>2. CASE files[p] # Head1[p]
  BY <1>1, <1>2, EndsInv DEF bounds, IInv, TypeOK
<1>3. CASE files[p] = Head1[p]
  <2>1. /\ op' = [op EXCEPT !.todo = @ \ {p}] /\ touched' = touched \ {p}
        /\ UNCHANGED <<walks, files, recent, objects, saved, cache, torn, bounds>>
    BY <1>3
  <2>2. op' \in OpRecord /\ op'.kind = "undo" /\ op'.at = "checking" /\ op'.todo = op.todo \ {p}
    BY <1>1, <2>1 DEF OpRecord
  <2>3. UndoOK'
    <3>1. UNCHANGED lineage /\ UNCHANGED files
      BY DEF saved
    <3>2. \A q \in Checked \ (op.todo \ {p}) : files[q] = Head1[q] \/ q \in touched \ {p}
      BY <1>1, <1>3 DEF IInv, OpOK, UndoOK, UndoStages
    <3>3. Len(lineage.chain) > 1
      BY <1>1 DEF IInv, OpOK, UndoOK, UndoStages
    <3> QED
      BY <2>1, <2>2, <3>1, <3>2, <3>3, SameRecord DEF UndoOK
  <2>4. touched' \subseteq Paths
    BY <2>1 DEF IInv, TypeOK
  <2> QED
    BY <1>1, <2>1, <2>2, <2>3, <2>4, UndoStepInv DEF UndoStages
<1> QED
  BY <1>2, <1>3

LEMMA AgreedInv ==
  ASSUME IInv, Agreed
  PROVE  IInv'
<1> USE DEF Agreed
<1>1. /\ op \in OpRecord /\ op.at = "checking" /\ op.kind = "undo" /\ op.todo = {}
      /\ ~walks["commit"].on
  BY Typed DEF IInv, OpOK, UndoStages
<1>2. PICK todo : todo = Delta
  OBVIOUS
<1>3. todo \subseteq Paths
  BY <1>2, DeltaTyped DEF IInv
<1>4. /\ op' = [op EXCEPT !.at = "restoring", !.todo = todo]
      /\ UNCHANGED lineage /\ UNCHANGED files /\ UNCHANGED touched
  BY <1>2 DEF saved
<1>5. op' \in OpRecord /\ op'.kind = "undo" /\ op'.at = "restoring" /\ op'.todo = todo
  BY <1>1, <1>3, <1>4 DEF OpRecord, UndoStages
<1>6. UndoOK'
  <2>1. Len(lineage.chain) > 1 /\ \A p \in Checked : files[p] = Head1[p] \/ p \in touched
    BY <1>1 DEF IInv, OpOK, UndoOK, UndoStages
  <2>2. \A p \in (lineage.tracked \cup Delta) \ Delta : p \in Checked /\ Head1[p] = Second[p]
    BY ChainTyped DEF IInv, Checked, Delta
  <2> QED
    BY <1>2, <1>4, <1>5, <2>1, <2>2, SameRecord DEF UndoOK
<1>7. touched' \subseteq Paths
  BY <1>4 DEF IInv, TypeOK
<1> QED
  BY <1>1, <1>5, <1>6, <1>7, UndoStepInv DEF UndoStages

\* A step of an undo that writes one file.
LEMMA UndoWriteInv ==
  ASSUME IInv, NEW p \in Paths, NEW c \in Content, Writes(p, c),
         UNCHANGED <<objects, saved, touched, torn, bounds>>,
         op' \in OpRecord, op.kind = "undo", op'.kind = "undo", op'.at \in UndoStages,
         UndoOK'
  PROVE  IInv'
<1>1. op.at # "copying" /\ ~walks["commit"].on
  BY DEF IInv, OpOK, UndoStages, CommitStages
<1>2. TypeOK' /\ CacheIsTrue'
  BY WritesKeepCache DEF IInv, TypeOK, saved, bounds, WalkRecord, OpRecord
<1>3. ChainIsFiled' /\ HonestObjects'
  BY <1>1, FiledKept, HonestKept DEF IInv, saved
<1>4. TracksHead'
  BY DEF IInv, TracksHead, Head1, Files, saved
<1>5. OpOK'
  <2>1. ~walks'["commit"].on
    BY <1>1, WritesKeepCache DEF IInv
  <2> QED
    BY <2>1 DEF OpOK, CommitOK, CommitStages, UndoStages
<1> QED
  BY <1>2, <1>3, <1>4, <1>5 DEF IInv

\* What UndoOK says while the undo restores.
LEMMA Restoring ==
  ASSUME IInv, op.at \in {"restoring", "writing"}
  PROVE  /\ op \in OpRecord /\ op.kind = "undo" /\ ~walks["commit"].on
         /\ Len(lineage.chain) > 1 /\ Second \in [Paths -> Content]
         /\ op.todo \subseteq Delta
         /\ \A p \in Checked \cap op.todo : files[p] = Head1[p] \/ p \in touched
         /\ \A p \in (lineage.tracked \cup Delta) \ op.todo :
               \/ files[p] = Second[p] \/ p \in touched \/ Second[p] \in torn
               \/ op.at = "writing" /\ p = op.now
         /\ op.at = "writing" => op.now \in Restores \ op.todo /\ objects[Second[op.now]] # Absent
<1>1. Len(lineage.chain) > 1
  BY DEF IInv, OpOK, UndoOK, UndoStages
<1>2. Second \in [Paths -> Content]
  BY <1>1, ChainTyped DEF IInv
<1> QED
  BY <1>1, <1>2, Typed DEF IInv, OpOK, UndoOK, UndoStages

LEMMA RestoreInv ==
  ASSUME IInv, NEW p \in Paths, Restore(p)
  PROVE  IInv'
<1> USE DEF Restore
<1>1. op.at = "restoring" /\ p \in op.todo /\ p \in Restores
  OBVIOUS
<1>2. CASE objects[Second[p]] = Absent
  BY <1>1, <1>2, EndsInv DEF bounds, IInv, TypeOK
<1>3. CASE objects[Second[p]] # Absent
  <2>1. /\ Writes(p, Part) /\ Part \in Content
        /\ op' = [op EXCEPT !.at = "writing", !.now = p, !.todo = @ \ {p}]
        /\ UNCHANGED <<objects, saved, touched, torn, bounds>>
    BY <1>3 DEF Content
  <2>2. /\ op' \in OpRecord /\ op'.kind = "undo" /\ op'.at = "writing" /\ op'.now = p
        /\ op'.todo = op.todo \ {p}
    BY <1>1, <2>1, Restoring DEF OpRecord, UndoStages
  <2>3. \A q \in Paths : q # p => files'[q] = files[q]
    BY <2>1, WritesKeepCache, Typed DEF IInv
  <2>4. UndoOK'
    <3>1. Delta \subseteq Paths /\ Checked \subseteq Paths /\ lineage.tracked \subseteq Paths
      BY DeltaTyped, ChainTyped DEF IInv
    <3> QED
      BY <1>1, <1>3, <2>1, <2>2, <2>3, <3>1, Restoring, SameRecord DEF UndoOK, saved
  <2> QED
    BY <1>1, <2>1, <2>2, <2>4, Restoring, UndoWriteInv DEF UndoStages
<1> QED
  BY <1>2, <1>3

\* The object that goes to the file is the restored row's, or a torn one.
LEMMA RestoredInv ==
  ASSUME IInv, Restored
  PROVE  IInv'
<1> USE DEF Restored
<1>1. /\ op.at = "writing" /\ op.now \in Restores \ op.todo /\ op.now \in Paths
      /\ objects[Second[op.now]] # Absent
  BY Restoring, DeltaTyped DEF IInv
<1>2. PICK c : c = objects[Second[op.now]]
  OBVIOUS
<1>3. c \in Content /\ (c = Second[op.now] \/ Second[op.now] \in torn)
  <2>1. Second[op.now] \in Contents
    BY <1>1, Restoring DEF Restores, Content
  <2>2. objects \in [Contents -> Content]
    BY Typed DEF IInv
  <2> QED
    BY <1>1, <1>2, <2>1, <2>2 DEF IInv, HonestObjects
<1>4. /\ Writes(op.now, c)
      /\ op' = [op EXCEPT !.at = "restoring", !.now = Absent]
      /\ UNCHANGED <<objects, saved, touched, torn, bounds>>
  BY <1>2
<1>5. /\ op' \in OpRecord /\ op'.kind = "undo" /\ op'.at = "restoring" /\ op'.todo = op.todo
  BY <1>1, <1>4, Restoring DEF OpRecord, UndoStages
<1>6. /\ files'[op.now] = c
      /\ \A q \in Paths : q # op.now => files'[q] = files[q]
  BY <1>1, <1>3, <1>4, WritesKeepCache, Typed DEF IInv
<1>7. UndoOK'
  <2>1. Delta \subseteq Paths /\ Checked \subseteq Paths /\ lineage.tracked \subseteq Paths
    BY DeltaTyped, ChainTyped DEF IInv
  <2> QED
    BY <1>1, <1>3, <1>4, <1>5, <1>6, <2>1, Restoring, SameRecord DEF UndoOK, saved
<1> QED
  BY <1>1, <1>3, <1>4, <1>5, <1>7, Restoring, UndoWriteInv DEF UndoStages

LEMMA RemoveInv ==
  ASSUME IInv, NEW p \in Paths, Remove(p)
  PROVE  IInv'
<1> USE DEF Remove
<1>1. op.at = "restoring" /\ p \in op.todo /\ p \in Delta /\ p \notin Restores
  BY Restoring
<1>2. Second[p] = Absent
  BY <1>1 DEF Restores
<1>3. /\ Writes(p, Absent) /\ Absent \in Content
      /\ op' = [op EXCEPT !.todo = @ \ {p}]
      /\ UNCHANGED <<objects, saved, touched, torn, bounds>>
  BY DEF Content
<1>4. /\ op' \in OpRecord /\ op'.kind = "undo" /\ op'.at = "restoring"
      /\ op'.todo = op.todo \ {p}
  BY <1>1, <1>3, Restoring DEF OpRecord, UndoStages
<1>5. files'[p] = Absent /\ \A q \in Paths : q # p => files'[q] = files[q]
  BY <1>3, WritesKeepCache, Typed DEF IInv
<1>6. UndoOK'
  <2>1. Delta \subseteq Paths /\ Checked \subseteq Paths /\ lineage.tracked \subseteq Paths
    BY DeltaTyped, ChainTyped DEF IInv
  <2> QED
    BY <1>1, <1>2, <1>3, <1>4, <1>5, <2>1, Restoring, SameRecord DEF UndoOK, saved
<1> QED
  BY <1>1, <1>3, <1>4, <1>6, Restoring, UndoWriteInv DEF UndoStages

LEMMA Tailed ==
  ASSUME NEW S, NEW s \in Seq(S), Len(s) > 1
  PROVE  /\ Tail(s) \in Seq(S) \ {<<>>} /\ Head(Tail(s)) = s[2]
         /\ \A i \in DOMAIN Tail(s) : \E j \in DOMAIN s : Tail(s)[i] = s[j]
<1> DEFINE t == Tail(s)
<1>1. /\ t \in Seq(S) /\ Len(t) = Len(s) - 1 /\ Len(s) \in Nat
      /\ DOMAIN t = 1..Len(t) /\ DOMAIN s = 1..Len(s)
  OBVIOUS
<1>2. \A i \in 1..Len(t) : t[i] = s[i + 1] /\ i + 1 \in 1..Len(s)
  BY <1>1
<1> HIDE DEF t
<1>3. t # <<>> /\ Head(t) = t[1] /\ t[1] = s[2]
  BY <1>1, <1>2
<1> QED
  BY <1>1, <1>2, <1>3 DEF t

LEMMA SaveUndoInv ==
  ASSUME IInv, SaveUndo
  PROVE  IInv'
<1> USE DEF SaveUndo
<1>1. op.at = "restoring" /\ lineage.chain \in Seq(Revision) /\ Len(lineage.chain) > 1
  BY Restoring, ChainTyped DEF IInv
<1>2. PICK chain : chain = Tail(lineage.chain)
  OBVIOUS
<1>3. /\ chain \in Seq(Revision) \ {<<>>} /\ Head(chain) = Second
      /\ \A i \in DOMAIN chain : \E j \in DOMAIN lineage.chain : chain[i] = lineage.chain[j]
  BY <1>1, <1>2, Tailed DEF Second
<1>4. PICK tracked : tracked = (lineage.tracked \ Delta) \cup Restores
  OBVIOUS
<1>5. /\ lineage' = [chain |-> chain, tracked |-> tracked]
      /\ tracked \subseteq Paths /\ \A p \in tracked : Second[p] # Absent
  <2>1. lineage.tracked \subseteq Paths /\ Restores \subseteq Delta /\ Delta \subseteq Paths
    BY ChainTyped, DeltaTyped DEF IInv
  <2>2. \A p \in lineage.tracked \ Delta : Second[p] # Absent
    BY <2>1 DEF IInv, TracksHead, Files, Delta
  <2>3. \A p \in Restores : Second[p] # Absent
    BY DEF Restores
  <2>4. lineage' = [chain |-> chain, tracked |-> tracked]
    BY <1>2, <1>4
  <2>5. tracked \subseteq Paths
    BY <1>4, <2>1
  <2>6. \A p \in tracked : Second[p] # Absent
    BY <1>4, <2>2, <2>3
  <2> QED
    BY <2>4, <2>5, <2>6
<1>6. TypeOK'
  <2> HIDE DEF SaveUndo
  <2>1. lineage' \in [chain : Seq(Revision) \ {<<>>}, tracked : SUBSET Paths]
    BY <1>3, <1>5
  <2> USE DEF SaveUndo
  <2> QED
    BY <2>1, EndsOK DEF IInv, TypeOK, WalkRecord, OpRecord, bounds
<1>7. ChainIsFiled'
  BY <1>3, <1>5 DEF IInv, ChainIsFiled, Files
<1>8. HonestObjects' /\ CacheIsTrue'
  BY <1>1 DEF IInv, HonestObjects, CacheIsTrue
<1>9. TracksHead'
  <2> HIDE DEF SaveUndo
  <2>1. lineage'.tracked = tracked /\ Head(lineage'.chain) = Second
    BY <1>3, <1>5
  <2> QED
    BY <1>5, <2>1 DEF TracksHead, Head1, Files
<1> QED
  BY <1>6, <1>7, <1>8, <1>9, EndsOK DEF IInv

-----------------------------------------------------------------------------
(* The invariant and the undo's promises *)

LEMMA StutterInv ==
  ASSUME IInv, UNCHANGED vars
  PROVE  IInv'
BY DEF vars, IInv, TypeOK, ChainIsFiled, HonestObjects, CacheIsTrue, TracksHead, OpOK,
       CommitOK, UndoOK, Files, Head1, Second, Delta, Restores, Checked, Rows, Keeps

LEMMA NextInv ==
  ASSUME IInv, Next
  PROVE  IInv'
<1>1. CASE \E p \in Paths, c \in Content \ {Part} : Edit(p, c)
  BY <1>1, EditInv
<1>2. CASE SecondPasses \/ Stop \/ StatusHashes \/ CommitHashes \/ Rehash
  BY <1>2, SecondPassesInv, StopInv, StatusHashesInv, CommitHashesInv, RehashInv
<1>3. CASE \E w \in DOMAIN walks, full \in BOOLEAN : Walk(w, full)
  BY <1>3, WalkInv
<1>4. CASE (\E p \in Paths : Copy(p)) \/ Copied \/ FileManifest \/ SaveCommit
  BY <1>4, CopyInv, CopiedInv, FileManifestInv, SaveCommitInv
<1>5. CASE Undo \/ Agreed \/ Restored \/ SaveUndo
  BY <1>5, UndoInv, AgreedInv, RestoredInv, SaveUndoInv
<1>6. CASE \E p \in Paths : Check(p) \/ Restore(p) \/ Remove(p) \/ UninstallPath(p)
  BY <1>6, CheckInv, RestoreInv, RemoveInv, UninstallPathInv
<1> QED
  BY <1>1, <1>2, <1>3, <1>4, <1>5, <1>6 DEF Next

\* The package's record, objects and stat cache stay true to each other and to the
\* folder, for any files, edits and stops.
THEOREM InductiveInvariant == Spec => []IInv
<1>1. Init => IInv
  BY InitInv
<1>2. IInv /\ [Next]_vars => IInv'
  BY NextInv, StutterInv
<1> QED
  BY <1>1, <1>2, PTL DEF Spec

\* A walk never takes a stamp's hash for a file that holds something else: the
\* cached status and the walk of a commit see every change.
THEOREM CacheVouchesForNoChange == Spec => []CacheIsTrue
<1>1. IInv => CacheIsTrue
  BY DEF IInv
<1> QED
  BY <1>1, InductiveInvariant, PTL

\* A revision the package can go back to has its manifest and its objects.
THEOREM EveryRevisionIsFiled == Spec => []ChainIsFiled
<1>1. IInv => ChainIsFiled
  BY DEF IInv
<1> QED
  BY <1>1, InductiveInvariant, PTL

LEMMA UndoSparesStep ==
  ASSUME IInv, Next, op.kind = "undo", edits' = edits,
         NEW p \in lineage.tracked \cup Restores, files'[p] # files[p]
  PROVE  files[p] = Head1[p] \/ p = op.now \/ p \in touched
<1>1. edits \in Nat /\ op.at \in UndoStages /\ op.at # "idle"
  BY DEF IInv, TypeOK, OpOK, UndoStages
<1>2. p \in Checked /\ files \in [Paths -> Content]
  BY Typed DEF IInv, Checked
<1>3. CASE \E q \in Paths, c \in Content \ {Part} : Edit(q, c)
  BY <1>1, <1>3 DEF Edit
<1>4. CASE \E q \in Paths : UninstallPath(q)
  BY <1>1, <1>4 DEF UninstallPath
<1>5. ASSUME NEW q \in Paths, Restore(q) \/ Remove(q)
      PROVE  files[p] = Head1[p] \/ p \in touched
  <2>1. op.at = "restoring" /\ q \in op.todo /\ files' # files
    BY <1>5 DEF Restore, Remove
  <2>2. \E c : files' = [files EXCEPT ![q] = c]
    BY <1>5, <2>1 DEF Restore, Remove, Writes
  <2>3. p = q
    BY <1>2, <2>2
  <2> QED
    BY <1>2, <2>1, <2>3, Restoring
<1>6. CASE Restored
  BY <1>2, <1>6 DEF Restored, Writes
<1>7. CASE UNCHANGED files
  BY <1>7
<1>8. ASSUME NEW q \in Paths, Check(q) \/ Copy(q)
      PROVE  UNCHANGED files
  BY <1>8 DEF Check, Copy
<1>9. ASSUME NEW w \in DOMAIN walks, NEW full \in BOOLEAN, Walk(w, full)
      PROVE  UNCHANGED files
  BY <1>9 DEF Walk
<1>10. ASSUME \/ SecondPasses \/ Stop \/ StatusHashes \/ CommitHashes \/ Rehash \/ Copied
              \/ FileManifest \/ SaveCommit \/ Undo \/ Agreed \/ SaveUndo
       PROVE  UNCHANGED files
  BY <1>10 DEF SecondPasses, Stop, StatusHashes, CommitHashes, Rehash, Copied, FileManifest,
     SaveCommit, Undo, Agreed, SaveUndo
<1> QED
  BY <1>3, <1>4, <1>5, <1>6, <1>7, <1>8, <1>9, <1>10 DEF Next

\* An undo writes over no edit of a file it asks about: what it replaces is what
\* the undone revision committed there, or was written after it asked.
THEOREM UndoSparesTheUser == Spec => UndoSparesEdits
<1> DEFINE Spares == op.kind = "undo" /\ edits' = edits =>
      \A p \in lineage.tracked \cup {q \in Delta : Second[q] # Absent} :
        files'[p] # files[p] => files[p] = Head1[p] \/ p = op.now \/ p \in touched
<1>1. IInv /\ [Next]_vars => [Spares]_vars
  BY UndoSparesStep DEF Restores
<1>2. [][Spares]_vars => UndoSparesEdits
  BY DEF UndoSparesEdits
<1> QED
  BY <1>1, <1>2, InductiveInvariant, PTL DEF Spec

LEMMA UndoRestoresStep ==
  ASSUME IInv, Next, op.kind = "undo", lineage' # lineage,
         NEW p \in lineage.tracked \cup Delta
  PROVE  files[p] = Second[p] \/ p \in touched \/ Second[p] \in torn
<1>1. op.at \in UndoStages /\ op.at # "idle" /\ op.at # "filed"
  BY DEF IInv, OpOK, UndoStages
<1>2. CASE SaveUndo
  <2>1. op.at = "restoring" /\ op.todo = {}
    BY <1>2 DEF SaveUndo
  <2> QED
    BY <2>1, Restoring
<1>3. CASE SaveCommit \/ \E q \in Paths : UninstallPath(q)
  BY <1>1, <1>3 DEF SaveCommit, UninstallPath
<1>4. CASE UNCHANGED lineage
  BY <1>4
<1>5. ASSUME NEW q \in Paths, Check(q) \/ Copy(q) \/ Restore(q) \/ Remove(q)
      PROVE  UNCHANGED lineage
  BY <1>5 DEF Check, Copy, Restore, Remove, saved
<1>6. ASSUME \/ \E q \in Paths, c \in Content \ {Part} : Edit(q, c)
             \/ \E w \in DOMAIN walks, full \in BOOLEAN : Walk(w, full)
      PROVE  UNCHANGED lineage
  BY <1>6 DEF Walk, Edit, saved
<1>7. ASSUME \/ SecondPasses \/ Stop \/ StatusHashes \/ CommitHashes \/ Rehash \/ Copied
             \/ FileManifest \/ Undo \/ Agreed \/ Restored
      PROVE  UNCHANGED lineage
  BY <1>7 DEF SecondPasses, Stop, StatusHashes, CommitHashes, Rehash, Copied, FileManifest,
     Undo, Agreed, Restored, saved
<1> QED
  BY <1>2, <1>3, <1>4, <1>5, <1>6, <1>7 DEF Next

\* An undo that is saved has brought the revision before back to the folder.
THEOREM UndoBringsBack == Spec => UndoRestores
<1> DEFINE Back == op.kind = "undo" /\ lineage' # lineage =>
      \A p \in lineage.tracked \cup Delta :
        files[p] = Second[p] \/ p \in touched \/ Second[p] \in torn
<1>1. IInv /\ [Next]_vars => [Back]_vars
  BY UndoRestoresStep
<1>2. [][Back]_vars => UndoRestores
  BY DEF UndoRestores
<1> QED
  BY <1>1, <1>2, InductiveInvariant, PTL DEF Spec

-----------------------------------------------------------------------------
(* The chain is PackageSync's *)

\* Only the two saves move the chain.
LEMMA ChainMoves ==
  ASSUME IInv, Next, lineage'.chain # lineage.chain
  PROVE  SaveCommit \/ SaveUndo
<1>1. lineage \in [chain : Seq(Revision) \ {<<>>}, tracked : SUBSET Paths]
  BY Typed DEF IInv
<1>2. ASSUME NEW p \in Paths, UninstallPath(p) PROVE FALSE
  BY <1>1, <1>2 DEF UninstallPath
<1> QED
  BY <1>2 DEF Next, Edit, SecondPasses, Stop, Walk, StatusHashes, CommitHashes, Rehash, Copy, Copied,
         FileManifest, Undo, Agreed, Check, Restore, Remove, Restored, saved

LEMMA SaveCommitIsCommit ==
  ASSUME IInv, SaveCommit
  PROVE  \E r \in Revision : Pk!Commit(Here, r)
<1>1. /\ op.at = "filed" /\ Rows # Head1 /\ Len(lineage.chain) < MaxChain
      /\ lineage'.chain = <<Rows>> \o lineage.chain
  BY DEF SaveCommit, IInv, OpOK, CommitOK
<1>2. Rows \in Revision /\ lineage.chain \in Seq(Revision) /\ lineage.chain # <<>>
  BY RowsTyped, Typed DEF IInv, Revision
<1>3. FourHashes \in Pk!Entry /\ FourHashes # NotInstalled
  BY <1>2, EntryMarked DEF FourHashes, Pk!Entry
<1>4. Pk!Ready(Here)
  BY <1>3 DEF Pk!Ready, Pk!Running, Pk!Installed
<1>5. Pk!CurrentHash(FourHashes) = Head1 /\ Pk!HasRoom(FourHashes)
  BY <1>1, <1>2 DEF Pk!CurrentHash, Pk!Pending, Pk!HasRoom, FourHashes, Head1
<1>6. FourHashes' = Pk!Committed(FourHashes, Rows)
  <2>1. FourHashes' = [remote |-> NoRemote, base |-> NoHash, latest |-> NoHash,
                       chain |-> lineage'.chain]
    BY DEF FourHashes
  <2>2. PICK chain : chain = lineage.chain
    OBVIOUS
  <2>3. PICK longer : longer = <<Rows>> \o chain
    OBVIOUS
  <2>4. FourHashes = [remote |-> NoRemote, base |-> NoHash, latest |-> NoHash, chain |-> chain]
    BY <2>2 DEF FourHashes
  <2>5. Pk!Committed(FourHashes, Rows) = [FourHashes EXCEPT !.chain = longer]
    BY <2>3, <2>4 DEF Pk!Committed
  <2> QED
    BY <1>1, <2>1, <2>2, <2>3, <2>4, <2>5
<1>7. Pk!Save(Here, Pk!Committed(FourHashes, Rows))
  BY <1>6 DEF Pk!Save
<1>8. Pk!Commit(Here, Rows)
  BY <1>1, <1>4, <1>5, <1>7 DEF Pk!Commit
<1> QED
  BY <1>2, <1>8

LEMMA SaveUndoIsUndo ==
  ASSUME IInv, SaveUndo
  PROVE  Pk!UndoCommit(Here)
<1>1. Len(lineage.chain) > 1 /\ lineage'.chain = Tail(lineage.chain)
  BY DEF SaveUndo, IInv, OpOK, UndoOK, UndoStages
<1>2. lineage.chain \in Seq(Revision)
  BY Typed DEF IInv
<1>3. FourHashes \in Pk!Entry /\ FourHashes # NotInstalled
  BY <1>2, EntryMarked DEF FourHashes, Pk!Entry
<1>4. Pk!Ready(Here)
  BY <1>3 DEF Pk!Ready, Pk!Running, Pk!Installed
<1>5. Pk!Save(Here, [FourHashes EXCEPT !.chain = Tail(@)])
  BY <1>1 DEF Pk!Save, FourHashes
<1> QED
  BY <1>1, <1>4, <1>5 DEF Pk!UndoCommit, FourHashes

\* File by file, and stopped anywhere, a commit and an undo are PackageSync's.
THEOREM CommitsAreAtomic == Spec => ImplementsEntry
<1>1. Init => \E r \in Revision : lineage.chain = <<r>>
  BY DEF Init, Revision
<1>2. IInv /\ [Next]_vars
        => [lineage'.chain # lineage.chain
              => Pk!UndoCommit(Here) \/ \E r \in Revision : Pk!Commit(Here, r)]_vars
  BY ChainMoves, SaveCommitIsCommit, SaveUndoIsUndo
<1> QED
  BY <1>1, <1>2, InductiveInvariant, PTL DEF Spec, ImplementsEntry

=============================================================================
