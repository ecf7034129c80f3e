--------------------------- MODULE Records_proofs ---------------------------
(* Proofs about the history of a process, for any entries, any number of    *)
(* copies of ProcessTerminated and any number of interruptions; and about   *)
(* the lists of user tasks, for any owners and users.                       *)
EXTENDS SharRecords, FiniteSetTheorems, TLAPS

\* The variables of the parts by their names.
scenario == v1
written == v2
store == v3
markers == v4
archive == v5
deleter == v6
reader == v7
ended == v8
active == v9
interrupts == v10
ownerID == v2
minted == v3
lists == v4
start == v5
job == v6
user == v7
msgs == v8
left == v9

USE DEF scenario, written, store, markers, archive, deleter, reader, ended, active,
        interrupts, ownerID, minted, lists, start, job, user, msgs, left

---------------------------------------------------------------------------
(* History.                                                                 *)

\* Records are updated field by field; this is what it takes to say of what.
Shapes ==
  /\ written \in Nat /\ interrupts \in Nat
  /\ DOMAIN deleter = 1 .. scenario.deletes
  /\ \A d \in DOMAIN deleter :
       deleter[d] = [pc |-> deleter[d].pc, todo |-> deleter[d].todo, key |-> deleter[d].key]
  /\ reader = [pc |-> reader.pc, keys |-> reader.keys, todo |-> reader.todo,
               result |-> reader.result, error |-> reader.error]

\* The key a handler is about to delete was recorded, and is in the archive.
Archived ==
  /\ markers \subseteq archive
  /\ \A d \in DOMAIN deleter : H!At(d, "delete") =>
       deleter[d].key \in archive /\ deleter[d].key \in H!Past(written)

\* ProcessTerminated came once, after the last entry, and nothing interrupted it.
Alone == interrupts = 0 /\ scenario.deletes = 1 /\ ~scenario.early

\* One handler that is not interrupted has what is left in the store on its list,
\* so that it never comes to a key that is not there.
Clearing ==
  /\ deleter[1].pc \in {"queued", "next", "delete", "acked"}
  /\ H!At(1, "queued") => markers = {}
  /\ ~H!At(1, "queued") => ~(written < Len(scenario.writes))
  /\ H!At(1, "next") => deleter[1].todo = store
  /\ H!At(1, "delete") => deleter[1].todo = store \ {deleter[1].key}
  /\ H!At(1, "acked") => store = {}

\* The reader decides by the keys of its search: by then the end of what had ended
\* was among them, with a value or a marker, and that of what is active is not.
Reading ==
  /\ reader.pc = "idle" => reader.result = {} /\ ended = {} /\ active = {}
  /\ reader.result \subseteq H!Past(written)
  /\ \A k \in ended : H!HasEnd(k, reader.keys)
  /\ \A k \in active : H!Execute(k) /\ ~H!HasEnd(k, reader.keys)
  /\ scenario.reads = "active" =>
       /\ \A k \in reader.result : ~H!HasEnd(k, reader.keys)
       /\ reader.pc = "next" => active \subseteq reader.result \cup reader.todo
       /\ reader.pc = "done" /\ ~reader.error => active \subseteq reader.result

\* What was recorded has a value or a delete marker.
Stored == store \cup markers = H!Past(written) /\ store \cap markers = {}

\* The inductive invariant.
HistoryInv == Shapes /\ Stored /\ Archived /\ (Alone => Clearing) /\ Reading

\* The next entry is the one the next write adds.
LEMMA PastGrows ==
  ASSUME NEW n \in Nat
  PROVE  H!Past(n + 1) = H!Past(n) \cup {scenario.writes[n + 1]}
  BY DEF H!Past

\* Nothing has been recorded at first.
LEMMA HistoryInit == H!Init => HistoryInv
  <1> SUFFICES ASSUME H!Init PROVE HistoryInv
    OBVIOUS
  <1>1. Shapes
    BY Zenon DEF H!Init, Shapes
  <1>2. H!Past(0) = {}
    BY DEF H!Past
  <1>3. Stored /\ Archived
    BY <1>2 DEF H!Init, Stored, Archived, H!At
  <1>4. Alone => Clearing
    BY DEF H!Init, Alone, Clearing, H!At
  <1>5. Reading
    BY DEF H!Init, Reading
  <1> QED
    BY <1>1, <1>3, <1>4, <1>5 DEF HistoryInv

\* An entry is recorded: it is in the store, without a marker.
LEMMA RecordKeeps == HistoryInv /\ H!RecordHistory => HistoryInv'
  <1> SUFFICES ASSUME HistoryInv, H!RecordHistory PROVE HistoryInv'
    OBVIOUS
  <1> DEFINE k == scenario.writes[written + 1]
  <1>1. /\ UNCHANGED <<scenario, archive, deleter, reader, ended, interrupts>>
        /\ written < Len(scenario.writes) /\ written' = written + 1
        /\ store' = store \cup {k} /\ markers' = markers \ {k} /\ active' \subseteq active
    BY DEF H!RecordHistory
  <1>2. written \in Nat /\ H!Past(written)' = H!Past(written) \cup {k}
    BY <1>1, PastGrows DEF HistoryInv, Shapes, H!Past
  <1>3. Shapes'
    <2>1. written' \in Nat /\ interrupts' \in Nat
      BY <1>1, <1>2 DEF HistoryInv, Shapes
    <2>2. UNCHANGED <<deleter, reader, scenario>>
      BY <1>1
    <2> QED
      BY <2>1, <2>2, Zenon DEF HistoryInv, Shapes
  <1>4. Stored'
    BY <1>1, <1>2 DEF HistoryInv, Stored
  <1>5. Archived'
    BY <1>1, <1>2 DEF HistoryInv, Archived, H!At
  <1>6. (Alone => Clearing)'
    BY <1>1 DEF HistoryInv, Alone, Clearing, H!At
  <1>7. Reading'
    BY <1>1, <1>2 DEF HistoryInv, Reading, H!HasEnd, H!EndsOf, H!Execute
  <1> QED
    BY <1>3, <1>4, <1>5, <1>6, <1>7 DEF HistoryInv

\* The reader changes nothing but its own state.
LEMMA ReaderKeeps == HistoryInv /\ (H!SearchToRead \/ H!Load \/ H!ReadDone) => HistoryInv'
  <1> SUFFICES ASSUME HistoryInv, H!SearchToRead \/ H!Load \/ H!ReadDone PROVE HistoryInv'
    OBVIOUS
  <1>1. UNCHANGED <<scenario, written, store, markers, archive, deleter, interrupts>>
    BY Zenon DEF H!SearchToRead, H!Load, H!ReadDone
  <1>2. Stored' /\ Archived' /\ (Alone => Clearing)'
    BY <1>1 DEF HistoryInv, Stored, Archived, Alone, Clearing, H!At, H!Past
  <1>3. CASE H!SearchToRead
    <2>1. reader' = [pc |-> "next", keys |-> H!KeyPrefixSearch, todo |-> H!KeyPrefixSearch,
                     result |-> {}, error |-> reader.error]
      BY <1>3, Zenon DEF H!SearchToRead, HistoryInv, Shapes, Reading
    <2>2. H!KeyPrefixSearch = H!Past(written)
      BY DEF HistoryInv, Stored, H!KeyPrefixSearch
    <2>3. Shapes'
      BY <1>1, <2>1, Zenon DEF HistoryInv, Shapes
    <2>4. /\ \A k \in ended' : H!HasEnd(k, H!Past(written))
          /\ \A k \in active' : H!Execute(k) /\ ~H!HasEnd(k, H!Past(written))
          /\ active' \subseteq H!KeyPrefixSearch
      BY <1>3 DEF H!SearchToRead, H!KeyPrefixSearch
    <2>5. Reading'
      BY <1>1, <2>1, <2>2, <2>4, ZenonT(30) DEF Reading, H!HasEnd, H!EndsOf, H!Execute
    <2> QED
      BY <1>2, <2>3, <2>5 DEF HistoryInv
  <1>4. CASE H!Load
    <2>1. UNCHANGED <<ended, active>> /\ reader.pc = "next"
      BY <1>4, Zenon DEF H!Load
    <2>2. PICK k \in reader.todo :
             IF H!Skipped(k) THEN reader' = [reader EXCEPT !.todo = @ \ {k}]
             ELSE IF k \in store
               THEN reader' = [reader EXCEPT !.todo = @ \ {k}, !.result = @ \cup {k}]
               ELSE reader' = [reader EXCEPT !.pc = "done", !.error = TRUE]
      BY <1>4, Zenon DEF H!Load
    <2>3. CASE H!Skipped(k)
      <3>1. reader' = [pc |-> reader.pc, keys |-> reader.keys, todo |-> reader.todo \ {k},
                       result |-> reader.result, error |-> reader.error]
        BY <2>2, <2>3 DEF HistoryInv, Shapes
      <3>2. Shapes'
        BY <1>1, <3>1, Zenon DEF HistoryInv, Shapes
      <3>3. k \notin active
        BY <2>3 DEF HistoryInv, Reading, H!Skipped
      <3>4. Reading'
        BY <1>1, <2>1, <3>1, <3>3 DEF HistoryInv, Reading, H!HasEnd, H!EndsOf, H!Execute, H!Past
      <3> QED
        BY <1>2, <3>2, <3>4 DEF HistoryInv
    <2>4. CASE ~H!Skipped(k) /\ k \in store
      <3>1. reader' = [pc |-> reader.pc, keys |-> reader.keys, todo |-> reader.todo \ {k},
                       result |-> reader.result \cup {k}, error |-> reader.error]
        BY <2>2, <2>4, Zenon DEF HistoryInv, Shapes
      <3>2. Shapes'
        BY <1>1, <3>1, Zenon DEF HistoryInv, Shapes
      <3>3. k \in H!Past(written) /\ (scenario.reads = "active" => ~H!HasEnd(k, reader.keys))
        BY <2>4 DEF HistoryInv, Stored, H!Skipped
      <3>4. Reading'
        BY <1>1, <2>1, <3>1, <3>3 DEF HistoryInv, Reading, H!HasEnd, H!EndsOf, H!Execute, H!Past
      <3> QED
        BY <1>2, <3>2, <3>4 DEF HistoryInv
    <2>5. CASE ~H!Skipped(k) /\ k \notin store
      <3>1. reader' = [pc |-> "done", keys |-> reader.keys, todo |-> reader.todo,
                       result |-> reader.result, error |-> TRUE]
        BY <2>2, <2>5, Zenon DEF HistoryInv, Shapes
      <3>2. Shapes'
        BY <1>1, <3>1, Zenon DEF HistoryInv, Shapes
      <3>3. Reading'
        BY <1>1, <2>1, <3>1 DEF HistoryInv, Reading, H!HasEnd, H!EndsOf, H!Execute, H!Past
      <3> QED
        BY <1>2, <3>2, <3>3 DEF HistoryInv
    <2> QED
      BY <2>3, <2>4, <2>5
  <1>5. CASE H!ReadDone
    <2>1. /\ UNCHANGED <<ended, active>> /\ reader.pc = "next" /\ reader.todo = {}
          /\ reader' = [pc |-> "done", keys |-> reader.keys, todo |-> reader.todo,
                        result |-> reader.result, error |-> reader.error]
      BY <1>5, Zenon DEF H!ReadDone, HistoryInv, Shapes
    <2>2. Shapes'
      BY <1>1, <2>1, Zenon DEF HistoryInv, Shapes
    <2>3. Reading'
      BY <1>1, <2>1 DEF HistoryInv, Reading, H!HasEnd, H!EndsOf, H!Execute, H!Past
    <2> QED
      BY <1>2, <2>2, <2>3 DEF HistoryInv
  <1> QED
    BY <1>3, <1>4, <1>5

\* The handlers of ProcessTerminated.
LEMMA DeleterKeeps ==
  ASSUME HistoryInv, NEW d \in DOMAIN deleter, H!DeleteStep(d) \/ H!Interrupt(d)
  PROVE  HistoryInv'
  <1>1. UNCHANGED <<scenario, written, reader, ended>> /\ H!Past(written)' = H!Past(written)
    BY DEF H!DeleteStep, H!SearchToDelete, H!Archive, H!Delete, H!Deleted, H!Interrupt, H!Past
  <1>2. scenario.deletes = 1 => d = 1
    BY DEF HistoryInv, Shapes
  <1>3. active' \subseteq active => Reading'
    BY <1>1 DEF HistoryInv, Reading, H!HasEnd, H!EndsOf, H!Execute
  <1>4. ASSUME NEW p, NEW t, NEW k,
               deleter' = [deleter EXCEPT ![d] = [pc |-> p, todo |-> t, key |-> k]],
               interrupts' \in Nat
        PROVE  /\ Shapes' /\ DOMAIN deleter' = DOMAIN deleter
               /\ deleter'[d] = [pc |-> p, todo |-> t, key |-> k]
               /\ \A e \in DOMAIN deleter \ {d} : deleter'[e] = deleter[e]
    <2>1. /\ DOMAIN deleter' = DOMAIN deleter
          /\ deleter'[d] = [pc |-> p, todo |-> t, key |-> k]
          /\ \A e \in DOMAIN deleter \ {d} : deleter'[e] = deleter[e]
      BY <1>4
    <2>2. \A e \in DOMAIN deleter' : deleter'[e] =
             [pc |-> deleter'[e].pc, todo |-> deleter'[e].todo, key |-> deleter'[e].key]
      BY <2>1 DEF HistoryInv, Shapes
    <2>3. Shapes'
      BY <1>1, <1>4, <2>1, <2>2 DEF HistoryInv, Shapes
    <2> QED
      BY <2>1, <2>3
  <1>4a. ASSUME NEW p
         PROVE  [deleter EXCEPT ![d].pc = p] =
                [deleter EXCEPT ![d] = [pc |-> p, todo |-> deleter[d].todo, key |-> deleter[d].key]]
    <2>1. deleter[d] = [pc |-> deleter[d].pc, todo |-> deleter[d].todo, key |-> deleter[d].key]
      BY DEF HistoryInv, Shapes
    <2>2. [deleter[d] EXCEPT !.pc = p] =
          [pc |-> p, todo |-> deleter[d].todo, key |-> deleter[d].key]
      BY <2>1
    <2> QED
      BY <2>2, Zenon
  <1>5. CASE H!SearchToDelete(d)
    <2>1. /\ deleter' = [deleter EXCEPT
                          ![d] = [pc |-> "next", todo |-> H!KeyPrefixSearch, key |-> <<>>]]
          /\ UNCHANGED <<store, markers, archive, active, interrupts>> /\ H!At(d, "queued")
          /\ scenario.early \/ written = Len(scenario.writes)
      BY <1>5 DEF H!SearchToDelete
    <2>2. interrupts' \in Nat
      BY <2>1 DEF HistoryInv, Shapes
    <2>3. /\ Shapes' /\ DOMAIN deleter' = DOMAIN deleter
          /\ deleter'[d] = [pc |-> "next", todo |-> H!KeyPrefixSearch, key |-> <<>>]
          /\ \A e \in DOMAIN deleter \ {d} : deleter'[e] = deleter[e]
      BY <1>4, <2>1, <2>2, Zenon
    <2>4. Stored' /\ Archived'
      BY <1>1, <2>1, <2>3 DEF HistoryInv, Stored, Archived, H!At
    <2>5. (Alone => Clearing)'
      <3>1. Alone' => Alone /\ d = 1 /\ ~(written < Len(scenario.writes))
        BY <1>1, <1>2, <2>1 DEF Alone, HistoryInv, Shapes
      <3> QED
        BY <1>1, <2>1, <2>3, <3>1 DEF HistoryInv, Clearing, H!At, H!KeyPrefixSearch
    <2> QED
      BY <1>3, <2>1, <2>3, <2>4, <2>5 DEF HistoryInv
  <1>6. CASE H!Archive(d)
    <2>1. UNCHANGED <<store, markers, active, interrupts>> /\ H!At(d, "next")
      BY <1>6 DEF H!Archive
    <2>2. interrupts' \in Nat /\ Stored'
      BY <1>1, <2>1 DEF HistoryInv, Shapes, Stored
    <2>3. Alone' => Alone /\ d = 1
      BY <1>1, <1>2, <2>1 DEF Alone
    <2>4. PICK k \in deleter[d].todo :
             IF k \in store
               THEN /\ archive' = archive \cup {k}
                    /\ deleter' = [deleter EXCEPT ![d] =
                                    [pc |-> "delete", todo |-> @.todo \ {k}, key |-> k]]
               ELSE deleter' = [deleter EXCEPT ![d].pc = "acked"] /\ UNCHANGED archive
      BY <1>6 DEF H!Archive
    <2>5. CASE k \in store
      <3>1. /\ Shapes' /\ DOMAIN deleter' = DOMAIN deleter /\ archive' = archive \cup {k}
            /\ deleter'[d] = [pc |-> "delete", todo |-> deleter[d].todo \ {k}, key |-> k]
            /\ \A e \in DOMAIN deleter \ {d} : deleter'[e] = deleter[e]
        BY <1>4, <2>2, <2>4, <2>5
      <3>2. Archived'
        BY <1>1, <2>1, <2>5, <3>1 DEF HistoryInv, Archived, Stored, H!At
      <3>3. (Alone => Clearing)'
        BY <1>1, <2>1, <2>3, <3>1 DEF HistoryInv, Clearing, H!At
      <3> QED
        BY <1>3, <2>1, <2>2, <3>1, <3>2, <3>3 DEF HistoryInv
    <2>6. CASE k \notin store
      <3>1. deleter' = [deleter EXCEPT ![d] =
                         [pc |-> "acked", todo |-> deleter[d].todo, key |-> deleter[d].key]]
        BY <1>4a, <2>4, <2>6, Zenon
      <3>2. /\ Shapes' /\ DOMAIN deleter' = DOMAIN deleter /\ archive' = archive
            /\ deleter'[d] = [pc |-> "acked", todo |-> deleter[d].todo, key |-> deleter[d].key]
            /\ \A e \in DOMAIN deleter \ {d} : deleter'[e] = deleter[e]
        BY <1>4, <2>2, <2>4, <2>6, <3>1, Zenon
      <3>3. Archived'
        BY <1>1, <2>1, <3>2 DEF HistoryInv, Archived, H!At
      <3>4. ~Alone'
        BY <2>1, <2>3, <2>4, <2>6 DEF HistoryInv, Clearing
      <3> QED
        BY <1>3, <2>1, <2>2, <3>2, <3>3, <3>4 DEF HistoryInv
    <2> QED
      BY <2>5, <2>6
  <1>7. CASE H!Delete(d)
    <2> DEFINE k == deleter[d].key
    <2>1. /\ UNCHANGED <<archive, interrupts>> /\ H!At(d, "delete")
          /\ store' = store \ {k} /\ markers' = markers \cup {k} /\ active' = active \ {k}
          /\ deleter' = [deleter EXCEPT ![d].pc = "next"]
      BY <1>7 DEF H!Delete
    <2>2. deleter' = [deleter EXCEPT ![d] = [pc |-> "next", todo |-> deleter[d].todo, key |-> k]]
      BY <1>4a, <2>1, Zenon
    <2>3. interrupts' \in Nat
      BY <2>1 DEF HistoryInv, Shapes
    <2>4. /\ Shapes' /\ DOMAIN deleter' = DOMAIN deleter
          /\ deleter'[d] = [pc |-> "next", todo |-> deleter[d].todo, key |-> k]
          /\ \A e \in DOMAIN deleter \ {d} : deleter'[e] = deleter[e]
      BY <1>4, <2>2, <2>3, Zenon
    <2>5. k \in archive /\ k \in H!Past(written)
      BY <2>1 DEF HistoryInv, Archived
    <2>6. Stored' /\ Archived'
      BY <1>1, <2>1, <2>4, <2>5 DEF HistoryInv, Stored, Archived, H!At
    <2>7. (Alone => Clearing)'
      <3>1. Alone' => Alone /\ d = 1
        BY <1>1, <1>2, <2>1 DEF Alone
      <3> QED
        BY <1>1, <2>1, <2>4, <3>1 DEF HistoryInv, Clearing, H!At
    <2> QED
      BY <1>3, <2>1, <2>4, <2>6, <2>7 DEF HistoryInv
  <1>8. CASE H!Deleted(d)
    <2>1. /\ UNCHANGED <<store, markers, archive, active, interrupts>>
          /\ H!At(d, "next") /\ deleter[d].todo = {}
          /\ deleter' = [deleter EXCEPT ![d].pc = "acked"]
      BY <1>8 DEF H!Deleted
    <2>2. deleter' = [deleter EXCEPT ![d] =
                       [pc |-> "acked", todo |-> deleter[d].todo, key |-> deleter[d].key]]
      BY <1>4a, <2>1, Zenon
    <2>3. interrupts' \in Nat
      BY <2>1 DEF HistoryInv, Shapes
    <2>4. /\ Shapes' /\ DOMAIN deleter' = DOMAIN deleter
          /\ deleter'[d] = [pc |-> "acked", todo |-> deleter[d].todo, key |-> deleter[d].key]
          /\ \A e \in DOMAIN deleter \ {d} : deleter'[e] = deleter[e]
      BY <1>4, <2>2, <2>3, Zenon
    <2>5. Stored' /\ Archived'
      BY <1>1, <2>1, <2>4 DEF HistoryInv, Stored, Archived, H!At
    <2>6. (Alone => Clearing)'
      <3>1. Alone' => Alone /\ d = 1
        BY <1>1, <1>2, <2>1 DEF Alone
      <3> QED
        BY <1>1, <2>1, <2>4, <3>1 DEF HistoryInv, Clearing, H!At
    <2> QED
      BY <1>3, <2>1, <2>4, <2>5, <2>6 DEF HistoryInv
  <1>9. CASE H!Interrupt(d)
    <2>1. /\ UNCHANGED <<store, markers, archive, active>> /\ interrupts' = interrupts + 1
          /\ deleter' = [deleter EXCEPT ![d].pc = "queued"]
      BY <1>9 DEF H!Interrupt
    <2>2. deleter' = [deleter EXCEPT ![d] =
                       [pc |-> "queued", todo |-> deleter[d].todo, key |-> deleter[d].key]]
      BY <1>4a, <2>1, Zenon
    <2>3. interrupts' \in Nat /\ ~Alone'
      BY <2>1 DEF HistoryInv, Shapes, Alone
    <2>4. /\ Shapes' /\ DOMAIN deleter' = DOMAIN deleter
          /\ deleter'[d] = [pc |-> "queued", todo |-> deleter[d].todo, key |-> deleter[d].key]
          /\ \A e \in DOMAIN deleter \ {d} : deleter'[e] = deleter[e]
      BY <1>4, <2>2, <2>3, Zenon
    <2>5. Stored' /\ Archived'
      BY <1>1, <2>1, <2>4 DEF HistoryInv, Stored, Archived, H!At
    <2> QED
      BY <1>3, <2>1, <2>3, <2>4, <2>5 DEF HistoryInv
  <1> QED
    BY <1>5, <1>6, <1>7, <1>8, <1>9 DEF H!DeleteStep

\* Every step keeps the invariant.
LEMMA HistoryStep == HistoryInv /\ [H!Next]_(H!vars) => HistoryInv'
  <1> SUFFICES ASSUME HistoryInv, [H!Next]_(H!vars) PROVE HistoryInv'
    OBVIOUS
  <1>1. CASE UNCHANGED H!vars
    <2>1. Shapes'
      BY <1>1, Zenon DEF H!vars, HistoryInv, Shapes
    <2>4. Stored' /\ Archived'
      BY <1>1 DEF H!vars, HistoryInv, Stored, Archived, H!At, H!Past
    <2>2. (Alone => Clearing)'
      BY <1>1 DEF H!vars, HistoryInv, Alone, Clearing, H!At
    <2>3. Reading'
      BY <1>1 DEF H!vars, HistoryInv, Reading, H!Past, H!HasEnd, H!EndsOf, H!Execute
    <2> QED
      BY <2>1, <2>2, <2>3, <2>4 DEF HistoryInv
  <1>2. CASE H!Terminating
    BY <1>1, <1>2 DEF H!Terminating
  <1> QED
    BY <1>1, <1>2, RecordKeeps, ReaderKeeps, DeleterKeeps DEF H!Next

\* The invariant holds throughout.
LEMMA HistoryAlways == H!Spec => []HistoryInv
  BY HistoryInit, HistoryStep, PTL DEF H!Spec

\* deleteProcessHistory publishes an entry to the archive before it deletes it, and
\* one handler that is not interrupted deletes them all.
THEOREM ClearedOnlyAfterArchive == H!Spec => []ClearedAfterArchive
  <1>1. HistoryInv => ClearedAfterArchive
    <2> SUFFICES ASSUME HistoryInv PROVE ClearedAfterArchive
      OBVIOUS
    <2>1. markers \subseteq archive
      BY DEF HistoryInv, Archived
    <2>2. scenario.deletes = 1 => 1 \in DOMAIN deleter
      BY DEF HistoryInv, Shapes
    <2>3. H!Acked /\ Alone => store = {}
      BY <2>2 DEF HistoryInv, Clearing, Alone, H!Acked, H!At
    <2> QED
      BY <2>1, <2>3 DEF ClearedAfterArchive, H!ClearedAfterArchive, Alone
  <1> QED
    BY <1>1, HistoryAlways, PTL

\* GetActiveEntries reports nothing that had ended, and all that stays active,
\* whoever records and deletes entries meanwhile.
THEOREM ReportsWhatIsActive == H!Spec => []ActiveExact
  <1>1. HistoryInv => ActiveExact
    BY DEF HistoryInv, Reading, ActiveExact, H!ActiveExact
  <1> QED
    BY <1>1, HistoryAlways, PTL

\* Every key recorded has a value or a delete marker, and never both.
THEOREM KeysAreNotForgotten == H!Spec => []H!TypeOK
  <1>1. HistoryInv => H!TypeOK
    BY DEF HistoryInv, Stored, Reading, H!TypeOK
  <1> QED
    BY <1>1, HistoryAlways, PTL

---------------------------------------------------------------------------
(* UserTasks.                                                               *)

\* What has been evaluated and opened, as far as startJob has come.
Evaluating ==
  /\ start \in [pc : {"get", "open", "done"}, ids : Seq(U!Ids), opened : Nat]
  /\ Len(start.ids) <= Len(scenario.owners)
  /\ \A k \in 1 .. Len(start.ids) : start.ids[k] = ownerID[scenario.owners[k]]
  /\ start.opened <= Len(start.ids)
  /\ start.pc = "get" => start.opened = 0
  /\ start.pc = "open" => start.opened < Len(start.ids)
  /\ start.pc # "get" => Len(start.ids) = Len(scenario.owners)
  /\ start.pc = "done" => start.opened = Len(start.ids)

UserShapes ==
  /\ DOMAIN user = scenario.users
  /\ \A u \in scenario.users :
       /\ user[u].pc # "put"
       /\ user[u] = [pc |-> user[u].pc, id |-> user[u].id, tries |-> user[u].tries,
                     todo |-> user[u].todo, ok |-> user[u].ok]

\* As long as no completion was published, nobody closes the task, and it is on the
\* lists on which it was put.
Listed ==
  msgs = 0 /\ left = 0 =>
    /\ \A u \in scenario.users : user[u].pc \notin {"close", "remove"}
    /\ \A k \in 1 .. start.opened : lists[start.ids[k]] > 0

\* The inductive invariant: names that are known keep their identifiers.
UserTasksInv ==
  /\ scenario \in UserTaskCases
  /\ scenario.known =>
       /\ ownerID \in [U!Names -> U!Ids \ {0}] /\ lists \in [U!Ids -> Nat]
       /\ msgs \in Nat /\ left \in Nat
       /\ Evaluating /\ UserShapes /\ Listed

\* The instance has the cardinality of FiniteSets under a name of its own.
LEMMA SameCardinality == U!Cardinality(U!Names) = Cardinality(U!Names)
  BY Zenon DEF U!Cardinality, Cardinality, U!IsFiniteSet, IsFiniteSet

\* Every name has an identifier of its own.
LEMMA NamesAreNumbered ==
  (CHOOSE f \in U!Injection(U!Names, 1 .. U!Cardinality(U!Names)) : TRUE)
    \in [U!Names -> U!Ids \ {0}]
  <1> DEFINE N == U!Names
             n == Cardinality(N)
  <1>1. IsFiniteSet(N)
    BY UserTasksAssumption
  <1>2. n \in Nat /\ ExistsBijection(1 .. n, N)
    BY <1>1, FS_CardinalityType
  <1>3. PICK b \in [1 .. n -> N] : \A x \in N : \E i \in 1 .. n : b[i] = x
    BY <1>2 DEF ExistsBijection, Bijection, Surjection
  <1> DEFINE f == [x \in N |-> CHOOSE i \in 1 .. n : b[i] = x]
  <1>4. \A x \in N : f[x] \in 1 .. n /\ b[f[x]] = x
    BY <1>3
  <1>5. f \in [N -> 1 .. n] /\ \A x, y \in N : f[x] = f[y] => x = y
    BY <1>4
  <1>6. f \in U!Injection(N, 1 .. n)
    BY <1>5 DEF U!Injection, U!IsInjective
  <1>7. (CHOOSE g \in U!Injection(N, 1 .. n) : TRUE) \in [N -> 1 .. n]
    BY <1>6 DEF U!Injection
  <1>8. 1 .. n \subseteq U!Ids \ {0}
    BY <1>2, SameCardinality DEF U!Ids
  <1> QED
    BY <1>7, <1>8, SameCardinality

\* Nothing is on a list at first.
LEMMA UserTasksInit == U!Init => UserTasksInv
  <1> SUFFICES ASSUME U!Init, scenario.known PROVE UserTasksInv
    BY DEF U!Init, UserTasksInv
  <1>1. ownerID \in [U!Names -> U!Ids \ {0}]
    BY NamesAreNumbered DEF U!Init
  <1>2. scenario.owners \in Seq(U!Names)
    BY UserTasksAssumption DEF U!Init
  <1>3. start = [pc |-> "get", ids |-> <<>>, opened |-> 0]
    BY DEF U!Init
  <1>4. Evaluating
    BY <1>2, <1>3 DEF Evaluating
  <1>5. user = [u \in scenario.users |->
                  [pc |-> "get", id |-> 0, tries |-> 0, todo |-> <<>>, ok |-> FALSE]]
    BY DEF U!Init
  <1>6. UserShapes
    BY <1>5, Zenon DEF UserShapes
  <1>7. Listed
    BY <1>3, <1>5 DEF Listed
  <1>8. lists \in [U!Ids -> Nat]
    BY DEF U!Init
  <1> QED
    BY <1>1, <1>4, <1>6, <1>7, <1>8 DEF U!Init, UserTasksInv

\* Users alone move, and leave the lists alone.
LEMMA UsersMove ==
  ASSUME UserTasksInv, scenario.known, UNCHANGED <<scenario, ownerID, lists, start, left>>,
         msgs' \in Nat, NEW u \in scenario.users, DOMAIN user' = DOMAIN user,
         \A w \in scenario.users \ {u} : user'[w] = user[w],
         user'[u] = [pc |-> user'[u].pc, id |-> user'[u].id, tries |-> user'[u].tries,
                     todo |-> user'[u].todo, ok |-> user'[u].ok],
         user'[u].pc # "put", msgs' = 0 => msgs = 0,
         user'[u].pc \in {"close", "remove"} => msgs' # 0 \/ user[u].pc \in {"close", "remove"}
  PROVE  UserTasksInv'
  <1>1. Evaluating'
    BY DEF UserTasksInv, Evaluating
  <1>2. UserShapes'
    BY DEF UserTasksInv, UserShapes
  <1>3. Listed'
    BY DEF UserTasksInv, Listed
  <1> QED
    BY <1>1, <1>2, <1>3 DEF UserTasksInv

\* A user looks for work and completes the task.
LEMMA UserKeeps ==
  ASSUME UserTasksInv, scenario.known, NEW u \in scenario.users, U!UserStep(u)
  PROVE  UserTasksInv'
  <1>1. /\ DOMAIN user = scenario.users /\ user[u].pc # "put" /\ msgs \in Nat /\ left \in Nat
        /\ user[u] = [pc |-> user[u].pc, id |-> user[u].id, tries |-> user[u].tries,
                      todo |-> user[u].todo, ok |-> user[u].ok]
    BY DEF UserTasksInv, UserShapes
  <1>2. ownerID[u] # 0
    <2>1. u \in U!Names
      BY DEF UserTasksInv, U!Names
    <2> QED
      BY <2>1 DEF UserTasksInv
  <1>3. CASE U!ListOwner(u)
    BY <1>1, <1>2, <1>3, UsersMove, Zenon DEF U!ListOwner, U!OwnerIDGet
  <1>4. CASE U!GetUserTaskIDs(u) \/ U!authFromJobID(u) \/ U!closeUserTask(u)
    <2>1. UNCHANGED <<scenario, ownerID, lists, start, msgs, left>>
      BY <1>4, Zenon DEF U!GetUserTaskIDs, U!authFromJobID, U!closeUserTask
    <2>2. CASE \E p \in {"auth", "get", "publish"} : user' = [user EXCEPT ![u].pc = p]
      BY <1>1, <2>1, <2>2, UsersMove
    <2>3. CASE \E ok \in BOOLEAN : user' = U!Return(u, ok)
      BY <1>1, <2>1, <2>3, UsersMove DEF U!Return
    <2>4. CASE user' = [user EXCEPT ![u].pc = "remove", ![u].todo = start.ids]
               /\ user[u].pc = "close"
      BY <1>1, <2>1, <2>4, UsersMove
    <2> QED
      BY <1>4, <2>2, <2>3, <2>4, Zenon DEF U!GetUserTaskIDs, U!authFromJobID, U!closeUserTask
  <1>5. CASE U!CompleteUserTask(u)
    BY <1>1, <1>5, UsersMove DEF U!CompleteUserTask
  <1>6. CASE U!RemoveFrom(u)
    <2>1. UNCHANGED <<scenario, ownerID, start, msgs, left>> /\ user[u].pc = "remove"
      BY <1>6 DEF U!RemoveFrom
    <2>2. ~(msgs = 0 /\ left = 0)
      BY <2>1 DEF UserTasksInv, Listed
    <2>3. lists' \in [U!Ids -> Nat]
      <3>1. CASE UNCHANGED lists
        BY <3>1 DEF UserTasksInv
      <3>2. ASSUME NEW i, lists' = [lists EXCEPT ![i] = IF @ > 0 THEN @ - 1 ELSE 0]
            PROVE  lists' \in [U!Ids -> Nat]
        <4>1. lists \in [U!Ids -> Nat]
          BY DEF UserTasksInv
        <4>2. \A j \in U!Ids : lists'[j] \in Nat
          BY <3>2, <4>1
        <4> QED
          BY <3>2, <4>1, <4>2, Zenon
      <3> QED
        BY <1>6, <3>1, <3>2, Zenon DEF U!RemoveFrom
    <2>4. UserShapes'
      <3>1. CASE user' = U!Return(u, TRUE)
        BY <1>1, <2>1, <3>1, Zenon DEF U!Return, UserTasksInv, UserShapes
      <3>2. CASE user' = [user EXCEPT ![u].todo = Tail(@)]
        BY <1>1, <2>1, <3>2, Zenon DEF UserTasksInv, UserShapes
      <3> QED
        BY <1>6, <3>1, <3>2, Zenon DEF U!RemoveFrom
    <2>5. Evaluating' /\ Listed'
      BY <2>1, <2>2 DEF UserTasksInv, Evaluating, Listed
    <2> QED
      BY <2>1, <2>3, <2>4, <2>5 DEF UserTasksInv
  <1>7. ~U!ListNewOwner(u)
    BY <1>1 DEF U!ListNewOwner
  <1> QED
    BY <1>3, <1>4, <1>5, <1>6, <1>7 DEF U!UserStep

\* startJob evaluates the owners, creates the job and opens it.
LEMMA StartKeeps ==
  ASSUME UserTasksInv, scenario.known, U!StartStep
  PROVE  UserTasksInv'
  <1>1. /\ start \in [pc : {"get", "open", "done"}, ids : Seq(U!Ids), opened : Nat]
        /\ scenario.owners \in Seq(U!Names) /\ ownerID \in [U!Names -> U!Ids \ {0}]
        /\ lists \in [U!Ids -> Nat]
    BY UserTasksAssumption DEF UserTasksInv, Evaluating
  <1>2. CASE U!evaluateOwnersGet
    <2> DEFINE n == Len(start.ids) + 1
               id == ownerID[scenario.owners[n]]
    <2>1. UNCHANGED <<scenario, ownerID, minted, lists, job, user, msgs, left>> /\ start.pc = "get"
      BY <1>2 DEF U!evaluateOwnersGet
    <2>2. n \in 1 .. Len(scenario.owners)
      BY <1>1, <1>2 DEF U!evaluateOwnersGet
    <2>3. id \in U!Ids \ {0}
      BY <1>1, <2>2
    <2>4. start' = [pc |-> "get", ids |-> Append(start.ids, id), opened |-> start.opened]
      BY <1>1, <1>2, <2>3, Zenon DEF U!evaluateOwnersGet, U!OwnerIDGet, U!Evaluated, U!NextOwner
    <2>5. /\ Append(start.ids, id) \in Seq(U!Ids) /\ Len(Append(start.ids, id)) = n
          /\ Append(start.ids, id)[n] = id
          /\ \A k \in 1 .. Len(start.ids) : Append(start.ids, id)[k] = start.ids[k]
      BY <1>1, <2>3
    <2>6. Evaluating'
      BY <1>1, <2>1, <2>2, <2>4, <2>5 DEF UserTasksInv, Evaluating
    <2>7. Listed'
      BY <2>1, <2>4 DEF UserTasksInv, Evaluating, Listed
    <2> QED
      BY <2>1, <2>6, <2>7 DEF UserTasksInv, UserShapes
  <1>3. CASE U!createJob
    <2>1. UNCHANGED <<scenario, ownerID, minted, lists, user, msgs, left>> /\ start.pc = "get"
          /\ Len(start.ids) = Len(scenario.owners)
      BY <1>3 DEF U!createJob
    <2>2. start' = [pc |-> IF start.ids = <<>> THEN "done" ELSE "open", ids |-> start.ids,
                    opened |-> start.opened]
      BY <1>1, <1>3 DEF U!createJob
    <2>3. start.ids = <<>> \/ 0 < Len(start.ids)
      BY <1>1
    <2>4. Evaluating'
      BY <1>1, <2>1, <2>2, <2>3 DEF UserTasksInv, Evaluating
    <2>5. Listed'
      BY <2>1, <2>2 DEF UserTasksInv, Listed
    <2> QED
      BY <2>1, <2>4, <2>5 DEF UserTasksInv, UserShapes
  <1>4. CASE U!openUserTask
    <2> DEFINE n == start.opened + 1
    <2>1. UNCHANGED <<scenario, ownerID, minted, job, user, msgs, left>> /\ start.pc = "open"
      BY <1>4 DEF U!openUserTask
    <2>2. n \in 1 .. Len(start.ids) /\ start.ids[n] \in U!Ids
      BY <1>1, <2>1 DEF UserTasksInv, Evaluating
    <2>3. start' = [pc |-> IF n = Len(start.ids) THEN "done" ELSE "open", ids |-> start.ids,
                    opened |-> n]
      BY <1>1, <1>4, <2>1, Zenon DEF U!openUserTask, U!OpenAt
    <2>4. lists' = [lists EXCEPT ![start.ids[n]] = @ + 1]
      BY <1>4 DEF U!openUserTask
    <2>5. lists' \in [U!Ids -> Nat] /\ \A i \in U!Ids : lists'[i] >= lists[i]
      BY <1>1, <2>2, <2>4
    <2>8. lists'[start.ids[n]] > 0
      BY <1>1, <2>2, <2>4
    <2>6. Evaluating'
      BY <1>1, <2>1, <2>2, <2>3 DEF UserTasksInv, Evaluating
    <2>7. Listed'
      <3> SUFFICES ASSUME msgs = 0, left = 0, NEW k \in 1 .. n PROVE lists'[start.ids[k]] > 0
        BY <2>1, <2>3 DEF UserTasksInv, Listed
      <3>1. CASE k = n
        BY <2>8, <3>1
      <3>2. CASE k \in 1 .. start.opened
        <4>1. lists[start.ids[k]] > 0 /\ start.ids[k] \in U!Ids
          BY <1>1, <2>2, <3>2 DEF UserTasksInv, Listed
        <4> QED
          BY <1>1, <2>5, <4>1
      <3> QED
        BY <1>1, <3>1, <3>2
    <2> QED
      BY <2>1, <2>5, <2>6, <2>7 DEF UserTasksInv, UserShapes
  <1>5. ~U!evaluateOwnersPut
    BY <1>1 DEF U!evaluateOwnersPut
  <1> QED
    BY <1>2, <1>3, <1>4, <1>5 DEF U!StartStep

\* Every step keeps the invariant.
LEMMA UserTasksStep == UserTasksInv /\ [U!Next]_(U!vars) => UserTasksInv'
  <1> SUFFICES ASSUME UserTasksInv, [U!Next]_(U!vars) PROVE UserTasksInv'
    OBVIOUS
  <1>1. UNCHANGED scenario
    BY Zenon DEF U!Next, U!Step, U!StartStep, U!evaluateOwnersGet, U!evaluateOwnersPut, U!createJob,
           U!openUserTask, U!completeJobProcessor, U!UserStep, U!ListOwner, U!ListNewOwner,
           U!GetUserTaskIDs, U!authFromJobID, U!CompleteUserTask, U!closeUserTask, U!RemoveFrom,
           U!Terminating, U!vars
  <1>2. CASE ~scenario.known
    BY <1>1, <1>2 DEF UserTasksInv
  <1>3. CASE scenario.known
    <2>1. CASE U!StartStep
      BY <1>3, <2>1, StartKeeps
    <2>2. ASSUME NEW u \in scenario.users, U!UserStep(u) PROVE UserTasksInv'
      BY <1>3, <2>2, UserKeeps
    <2>3. CASE U!completeJobProcessor
      <3>1. UNCHANGED <<scenario, ownerID, lists, start, user>> /\ msgs' = msgs - 1 /\ msgs > 0
            /\ left' = left + 1
        BY <2>3 DEF U!completeJobProcessor
      <3>2. msgs' \in Nat /\ left' \in Nat /\ left' # 0
        BY <1>3, <3>1 DEF UserTasksInv
      <3> QED
        BY <1>3, <3>1, <3>2 DEF UserTasksInv, Evaluating, UserShapes, Listed
    <2>4. CASE UNCHANGED U!vars
      BY <2>4 DEF UserTasksInv, Evaluating, UserShapes, Listed, U!vars
    <2> QED
      BY <2>1, <2>2, <2>3, <2>4 DEF U!Next, U!Step, U!Terminating
  <1> QED
    BY <1>2, <1>3

\* A task that is started is on the list of each of its owners until somebody
\* completes it, for any owners that are known and any users.
THEOREM OwnersFindTheirTasks == U!Spec => []OnOwnersLists
  <1>1. UserTasksInv => OnOwnersLists
    <2> SUFFICES ASSUME UserTasksInv, scenario.known, start.pc = "done", U!Untouched,
                        NEW i \in DOMAIN scenario.owners
                 PROVE  lists[ownerID[scenario.owners[i]]] > 0
      BY DEF OnOwnersLists, U!OnOwnersLists
    <2>1. i \in 1 .. Len(scenario.owners)
      BY UserTasksAssumption DEF UserTasksInv
    <2>2. i \in 1 .. start.opened /\ start.ids[i] = ownerID[scenario.owners[i]]
      BY <2>1 DEF UserTasksInv, Evaluating
    <2> QED
      BY <2>2 DEF UserTasksInv, Listed, U!Untouched
  <1> QED
    BY <1>1, UserTasksInit, UserTasksStep, PTL DEF U!Spec
=============================================================================
