-------------------------------- MODULE AccessLog --------------------------------
(* access_log.c: a header page and one page that holds all the records, used   *)
(* as a ring.  Writing a record erases the page the record is in.              *)
EXTENDS FlashPage, Sequences

CONSTANTS MaxRecords,     \* ACCESS_LOG_MAX_RECORDS
          Records,        \* what a record can say
          ErasedHalfword, \* an erased half word, read as a number
          ErasedWord,     \* an erased word, read as a number
          SeqModulus,     \* of the uint32_t sequence number
          Faults          \* which of "power" and "flash" may fail

Slots == 0 .. MaxRecords - 1

ASSUME LogSizeAssumption == MaxRecords \in Nat \ {0} /\ SeqModulus \in Nat
ASSUME LogErasedAssumption ==
  /\ ErasedHalfword \in Nat /\ ErasedHalfword > MaxRecords
  /\ ErasedWord \in 0 .. SeqModulus - 1
  /\ Erased \notin Nat \cup Records \cup (Slots \X Slots) \cup {"magic"}
ASSUME LogFaultAssumption == Faults \subseteq {"power", "flash"}

VARIABLES s_log_header,  \* the header in RAM
          s_initialized, \* the log accepts records
          flash,         \* the two pages
          job,           \* the operation in progress and the cell it is at
          accepted       \* what was recorded since an operation was last cut short
                         \* between the first cell it changed and the last

vars == <<s_log_header, s_initialized, flash, job, accepted>>

\* Cells of the header page, in the order of access_log_header_t.
Magic == 1
Total == 2
Indices == 3
Sequence == 4
HeaderCells == Magic .. Sequence

Cell(slot) == slot + 1
RecordCells == 1 .. MaxRecords

Header == [total : 0 .. MaxRecords \cup {ErasedHalfword},
           head : Slots \cup {ErasedHalfword}, tail : Slots \cup {ErasedHalfword},
           seq : 0 .. SeqModulus - 1]

EmptyHeader == [total |-> 0, head |-> 0, tail |-> 0, seq |-> 0]

HeaderPage(h) ==
  [c \in HeaderCells |-> CASE c = Magic -> "magic" [] c = Total -> h.total
                           [] c = Indices -> <<h.head, h.tail>> [] c = Sequence -> h.seq]

HeaderRead(page) ==
  LET Half(c) == IF c = Erased THEN ErasedHalfword ELSE c
      ix == IF page[Indices] = Erased THEN <<ErasedHalfword, ErasedHalfword>> ELSE page[Indices]
  IN [total |-> Half(page[Total]), head |-> ix[1], tail |-> ix[2],
      seq |-> IF page[Sequence] = Erased THEN ErasedWord ELSE page[Sequence]]

NoJob == [op |-> "none", page |-> "none", next |-> 0, record |-> Erased]
Off == [NoJob EXCEPT !.op = "off"]
Ready == s_initialized /\ job = NoJob
Writing(op, page, record) == [op |-> op, page |-> page, next |-> 0, record |-> record]

Init ==
  /\ s_log_header = EmptyHeader
  /\ s_initialized = FALSE
  /\ flash = [header |-> [c \in HeaderCells |-> Erased], records |-> [c \in RecordCells |-> Erased]]
  /\ job = Off
  /\ accepted = <<>>

\* access_log_init finds the magic number.
BootIntact ==
  /\ job = Off
  /\ flash.header[Magic] # Erased
  /\ s_log_header' = HeaderRead(flash.header)
  /\ s_initialized' = TRUE
  /\ job' = NoJob
  /\ UNCHANGED <<flash, accepted>>

\* It does not, or access_log_clear is called: the header is written first.
access_log_format ==
  /\ \/ job = Off /\ flash.header[Magic] = Erased
     \/ Ready
  /\ s_log_header' = EmptyHeader
  /\ job' = Writing("format", "header", Erased)
  /\ accepted' = <<>>
  /\ UNCHANGED <<s_initialized, flash>>

\* A header cut off before its indices has no slot to write to.
access_log_record(record) ==
  /\ Ready
  /\ s_log_header.head < MaxRecords
  /\ job' = Writing("record", "records", record)
  /\ UNCHANGED <<s_log_header, s_initialized, flash, accepted>>
--------------------------------------------------------------------------------
\* A header is programmed cell by cell; of the page of records only the cell of
\* the record is.
Width == IF job.page = "header" THEN Sequence ELSE 1
HasWrites == job.page = "header" \/ job.op = "record"

ErasePage ==
  /\ HasWrites /\ job.next = 0
  /\ flash' = [flash EXCEPT ![job.page] = ErasedPage(@)]
  /\ job' = [job EXCEPT !.next = 1]
  /\ UNCHANGED <<s_log_header, s_initialized, accepted>>

\* wrong variant: the record goes to the slot of the newest one
TargetSame == IF job.page = "header" THEN job.next
              ELSE Cell((s_log_header.head + MaxRecords - 1) % MaxRecords)

Target == IF job.page = "header" THEN job.next ELSE Cell(s_log_header.head)
Buffer == IF job.page = "header" THEN HeaderPage(s_log_header)
          ELSE [c \in RecordCells |-> job.record]

ProgramWord ==
  /\ HasWrites /\ job.next \in 1 .. Width
  /\ flash' = [flash EXCEPT ![job.page] = Programmed(@, Buffer, Target)]
  /\ job' = [job EXCEPT !.next = @ + 1]
  /\ UNCHANGED <<s_log_header, s_initialized, accepted>>

\* wrong variant: the oldest record is not given up
AdvancedKeepingTail(h) == [total |-> IF h.total < MaxRecords THEN h.total + 1 ELSE h.total,
                           head |-> (h.head + 1) % MaxRecords, tail |-> h.tail,
                           seq |-> (h.seq + 1) % SeqModulus]

\* wrong variant: the head does not turn round
AdvancedStraight(h) == [total |-> IF h.total < MaxRecords THEN h.total + 1 ELSE h.total,
                        head |-> h.head + 1,
                        tail |-> IF h.total < MaxRecords THEN h.tail ELSE (h.tail + 1) % MaxRecords,
                        seq |-> (h.seq + 1) % SeqModulus]

\* The header after a record: the ring turns once it is full.
Advanced(h) ==
  [total |-> IF h.total < MaxRecords THEN h.total + 1 ELSE h.total,
   head |-> (h.head + 1) % MaxRecords,
   tail |-> IF h.total < MaxRecords THEN h.tail ELSE (h.tail + 1) % MaxRecords,
   seq |-> (h.seq + 1) % SeqModulus]

RecordWritten ==
  /\ job.op = "record" /\ job.page = "records" /\ job.next = 2
  /\ s_log_header' = Advanced(s_log_header)
  /\ job' = Writing("record", "header", job.record)
  /\ UNCHANGED <<s_initialized, flash, accepted>>

\* The last MaxRecords of what was accepted.
Remembered(s) == IF Len(s) > MaxRecords THEN Tail(s) ELSE s

HeaderWritten ==
  /\ job.page = "header" /\ job.next = Sequence + 1
  /\ IF job.op = "format"
       THEN job' = Writing("format", "records", Erased) /\ UNCHANGED accepted
       ELSE job' = NoJob /\ accepted' = Remembered(Append(accepted, job.record))
  /\ UNCHANGED <<s_log_header, s_initialized, flash>>

\* access_log_format does not look at the status of this erase.
Wiped ==
  /\ job.op = "format" /\ job.page = "records"
  /\ \/ flash' = [flash EXCEPT !.records = ErasedPage(@)]
     \/ "flash" \in Faults /\ UNCHANGED flash
  /\ s_initialized' = TRUE
  /\ job' = NoJob
  /\ UNCHANGED <<s_log_header, accepted>>

\* The pages are as before the record, or as after it.
Unbegun == job.op = "record" /\ job.page = "records" /\ job.next = 0
Complete == job.op = "record" /\ job.page = "header" /\ job.next = Sequence + 1

\* write_record and write_header return at the first error.
FlashFails ==
  /\ "flash" \in Faults
  /\ HasWrites /\ job.next \in 0 .. Width
  /\ \/ job.next = 0 /\ UNCHANGED flash
     \/ /\ job.next # 0
        /\ \E page \in ProgramFailed(flash[job.page], Buffer, Target) :
             flash' = [flash EXCEPT ![job.page] = page]
  /\ job' = NoJob
  /\ accepted' = IF Unbegun THEN accepted ELSE <<>>
  /\ UNCHANGED <<s_log_header, s_initialized>>

\* RAM is lost; an operation in progress is cut short, unless it had not begun
\* or had only to return.
PowerLoss ==
  /\ "power" \in Faults
  /\ job # Off
  /\ s_log_header' = EmptyHeader
  /\ s_initialized' = FALSE
  /\ job' = Off
  /\ accepted' = CASE job = NoJob \/ Unbegun -> accepted
                   [] Complete -> Remembered(Append(accepted, job.record))
                   [] OTHER -> <<>>
  /\ UNCHANGED flash

Next == \/ BootIntact \/ access_log_format
        \/ \E record \in Records : access_log_record(record)
        \/ ErasePage \/ ProgramWord \/ RecordWritten \/ HeaderWritten \/ Wiped
        \/ FlashFails \/ PowerLoss

Spec == Init /\ [][Next]_vars
--------------------------------------------------------------------------------
\* Record number index, counted from the newest (access_log_get_record).
access_log_get_record(index) ==
  LET slot == s_log_header.head - 1 - index
  IN flash.records[Cell(IF slot < 0 THEN slot + MaxRecords ELSE slot)]

\* Every variable has its type: an index is a slot or what an erased page holds.
TypeOK ==
  /\ s_log_header \in Header
  /\ s_initialized \in BOOLEAN
  /\ DOMAIN flash.header = HeaderCells
  /\ flash.records \in [RecordCells -> Records \cup {Erased}]
  /\ job.op \in {"none", "off", "format", "record"}
  /\ job.page \in {"none", "header", "records"}
  /\ job.next \in 0 .. Sequence + 1
  /\ job.record \in Records \cup {Erased}
  /\ Len(accepted) <= MaxRecords

\* Head, tail and count describe one run of the ring, whatever fails, unless
\* the header was cut off before them (access_log_record, access_log_init).
IndicesAgree ==
  s_initialized /\ s_log_header.head # ErasedHalfword
    => s_log_header.head = (s_log_header.tail + s_log_header.total) % MaxRecords

\* The newest accepted record is the one that is read, also after restarts and
\* whatever failed before it, unless an operation has been cut short since
\* (access_log_get_latest); and such a log does not refuse the next
\* one, since its head is a slot (access_log_record).
LatestSurvives ==
  Ready /\ accepted # <<>> => /\ s_log_header.total > 0 /\ s_log_header.head < MaxRecords
                              /\ access_log_get_record(0) = accepted[Len(accepted)]

\* The last MaxRecords records can be read back (access_log_get_record).
KeepsRecords ==
  Ready => \A i \in 0 .. Len(accepted) - 1 :
             access_log_get_record(i) = accepted[Len(accepted) - i]
==================================================================================
