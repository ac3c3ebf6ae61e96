---------------------------- MODULE FileEventLog ----------------------------
(***************************************************************************)
(* The write-ahead log of one world (sy_infra, store/wal.rs): the file of  *)
(* checksummed records, the operating system's page cache in front of it,  *)
(* and the BufWriter the process writes it through.                        *)
(*                                                                         *)
(* The file is a sequence of cells.  A cell is an event that a reader      *)
(* decodes, or Torn: bytes that stop being a record part-way.  A record    *)
(* holds one whole batch; its last event is the one with rem = 0.  Neither *)
(* the byte layout nor the CRC is modelled: they are what makes a partial  *)
(* record decode as nothing at all, which is how RecordEnds and Torn       *)
(* appear below.                                                           *)
(***************************************************************************)
EXTENDS Integers, Sequences

CONSTANT Torn

VARIABLES
  file,    \* what a read of the file returns now (the page cache included)
  synced,  \* how many leading cells of it a power cut cannot take away
  log,     \* FileEventLog's fields: next_event_id, total_events, writer open?
  buf      \* the BufWriter: whole records not written yet, and whether the
           \* first of them is the one the file's last cell is a part of

walVars == <<file, synced, log, buf>>

(***************************************************************************)
(* An event as the log sees it: its id, its tick, the command it belongs   *)
(* to, and how many events of the same batch follow it.                    *)
(***************************************************************************)
Event == [id : Nat, tick : Nat, cmd : Nat, rem : Nat]

ASSUME TornAssumption == Torn \notin Event

EmptyBuffer == [recs |-> << >>, begun |-> FALSE]

(***************************************************************************)
(* What a scan of the file from its start decodes: everything before the   *)
(* first invalid record.                                                   *)
(***************************************************************************)
ValidLen(f) ==
  IF \E i \in DOMAIN f : f[i] = Torn
    THEN (CHOOSE i \in DOMAIN f :
            f[i] = Torn /\ \A j \in 1..(i - 1) : f[j] # Torn) - 1
    ELSE Len(f)

Valid(f) == SubSeq(f, 1, ValidLen(f))

LastId(events) == IF events = << >> THEN 0 ELSE events[Len(events)].id

\* Mutant of RecordEnds: a record per event instead of one per batch.
EventEnds(cells) == 0..Len(cells)

(***************************************************************************)
(* The places where a sequence of cells may be cut: between records.       *)
(***************************************************************************)
RecordEnds(cells) ==
  {k \in 0..Len(cells) : k = 0 \/ cells[k] = Torn \/ cells[k].rem = 0}

-----------------------------------------------------------------------------
\* Mutant of OpenRepair: the invalid tail stays in the file.
OpenWithoutTruncating ==
  /\ log' = [next |-> LastId(Valid(file)) + 1, total |-> ValidLen(file), open |-> FALSE]
  /\ buf' = EmptyBuffer
  /\ UNCHANGED <<file, synced>>

(***************************************************************************)
(* Opening.  new (repair mode) scans the file, takes the counters from the *)
(* last record it decodes and cuts off whatever follows it.                *)
(***************************************************************************)
OpenRepair ==
  LET events == Valid(file)
  IN  /\ file' = events
      /\ synced' = IF synced > Len(events) THEN Len(events) ELSE synced
      /\ log' = [next |-> LastId(events) + 1, total |-> Len(events), open |-> FALSE]
      /\ buf' = EmptyBuffer

-----------------------------------------------------------------------------
(***************************************************************************)
(* Writing.  The bytes a failed flush leaves in the BufWriter stay there   *)
(* and go out before anything written later.  Stem is the file without the *)
(* piece that the buffered remainder would complete.                       *)
(***************************************************************************)
Stem == IF buf.begun THEN SubSeq(file, 1, Len(file) - 1) ELSE file

(***************************************************************************)
(* append_batch gives the events of a batch consecutive ids from           *)
(* next_event_id, which itself moves only once the record is synced.       *)
(***************************************************************************)
Numbered(batch) ==
  [i \in 1..Len(batch) |-> [batch[i] EXCEPT !.id = log.next + i - 1]]

\* Mutant of WriteAndFlush: the flush is missing.
WriteToBuffer(events) ==
  /\ buf' = [buf EXCEPT !.recs = @ \o events]
  /\ log' = [log EXCEPT !.open = TRUE]
  /\ UNCHANGED <<file, synced>>

(***************************************************************************)
(* write_all and flush both succeed: the record is in the page cache.      *)
(***************************************************************************)
WriteAndFlush(batch) ==
  /\ file' = Stem \o buf.recs \o batch
  /\ buf' = EmptyBuffer
  /\ log' = [log EXCEPT !.open = TRUE]
  /\ UNCHANGED synced

(***************************************************************************)
(* A flush of recs stops before their end: k whole cells went out, perhaps *)
(* a piece of the next record, and the rest stays in the buffer.  With k   *)
(* = 0 the piece already in the file may just have grown.                  *)
(***************************************************************************)
Resumed(k) == k = 0 /\ buf.begun

FlushedTo(recs, k, torn) ==
  IF Resumed(k)
    THEN file
    ELSE Stem \o SubSeq(recs, 1, k) \o (IF torn THEN <<Torn>> ELSE << >>)

FlushStops(recs) ==
  \E k \in RecordEnds(recs) \ {Len(recs)}, torn \in BOOLEAN :
    /\ file' = FlushedTo(recs, k, torn)
    /\ buf' = [recs |-> SubSeq(recs, k + 1, Len(recs)), begun |-> Resumed(k) \/ torn]

(***************************************************************************)
(* A record of BufWriter's capacity or more bypasses the buffer: what was  *)
(* buffered goes out, the record stops part-way and nothing is kept of it. *)
(***************************************************************************)
DirectWriteStops ==
  \E torn \in BOOLEAN :
    /\ file' = Stem \o buf.recs \o (IF torn THEN <<Torn>> ELSE << >>)
    /\ buf' = EmptyBuffer

(***************************************************************************)
(* write_records returns an error before its sync_all: the record could    *)
(* not be encoded or the file not opened, the flush stopped (with the      *)
(* batch in the buffer, or with older bytes still in its way), or the      *)
(* direct write stopped.                                                   *)
(***************************************************************************)
WriteFails(batch) ==
  /\ \/ UNCHANGED <<file, buf, log>>
     \/ /\ \/ FlushStops(buf.recs)
           \/ FlushStops(buf.recs \o batch)
           \/ DirectWriteStops
        /\ log' = [log EXCEPT !.open = TRUE]
  /\ UNCHANGED synced

\* Mutants of SyncAndNumber: one id per batch; no sync_all.
NumberByRecord(events) ==
  /\ synced' = Len(file)
  /\ log' = [log EXCEPT !.next = @ + 1, !.total = @ + Len(events)]
  /\ UNCHANGED <<file, buf>>

NumberUnsynced(events) ==
  /\ log' = [log EXCEPT !.next = @ + Len(events), !.total = @ + Len(events)]
  /\ UNCHANGED <<file, synced, buf>>

(***************************************************************************)
(* sync_all succeeded, so append_batch advances the counters.              *)
(***************************************************************************)
SyncAndNumber(batch) ==
  /\ synced' = Len(file)
  /\ log' = [log EXCEPT !.next = @ + Len(batch), !.total = @ + Len(batch)]
  /\ UNCHANGED <<file, buf>>

(***************************************************************************)
(* IEventLog::sync does nothing unless this process has opened the writer. *)
(***************************************************************************)
SyncLog ==
  IF log.open
    THEN /\ file' = Stem \o buf.recs
         /\ buf' = EmptyBuffer
         /\ synced' = Len(file')
         /\ UNCHANGED log
    ELSE UNCHANGED walVars

(***************************************************************************)
(* The flush of sync fails, or its sync_all does after the flush.          *)
(***************************************************************************)
SyncLogFails ==
  /\ log.open
  /\ \/ FlushStops(buf.recs)
     \/ file' = Stem \o buf.recs /\ buf' = EmptyBuffer
  /\ UNCHANGED <<synced, log>>

-----------------------------------------------------------------------------
(***************************************************************************)
(* The ways a process lets go of the file.  Dropping a BufWriter flushes   *)
(* it as far as that goes and ignores the result; a killed process loses   *)
(* the buffer; a power cut takes any unsynced records as well, and may     *)
(* leave a piece of one.                                                   *)
(***************************************************************************)
Closed ==
  /\ log' = [next |-> 1, total |-> 0, open |-> FALSE]
  /\ buf' = EmptyBuffer

DropLog ==
  /\ \/ file' = Stem \o buf.recs
     \/ \E k \in RecordEnds(buf.recs) \ {Len(buf.recs)}, torn \in BOOLEAN :
          file' = FlushedTo(buf.recs, k, torn)
  /\ Closed
  /\ UNCHANGED synced

KillLog == Closed /\ UNCHANGED <<file, synced>>

CutPower ==
  /\ \E k \in RecordEnds(file), torn \in BOOLEAN :
       /\ k >= synced
       /\ torn => k < Len(file)
       /\ file' = SubSeq(file, 1, k) \o (IF torn THEN <<Torn>> ELSE << >>)
  /\ synced' = Len(file')
  /\ Closed

=============================================================================
