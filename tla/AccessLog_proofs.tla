---------------------------- MODULE AccessLog_proofs ----------------------------
(* Head, tail and count of the access log describe one run of the ring, for a  *)
(* log of any size and whatever fails in between.                              *)
EXTENDS AccessLog, SequenceTheorems, TLAPS

---------------------------------------------------------------------------------
\* A number below twice the size, taken round the ring.
LEMMA Round ==
  ASSUME NEW n \in 0 .. 2 * MaxRecords - 1
  PROVE  /\ n % MaxRecords \in Slots
         /\ n < MaxRecords => n % MaxRecords = n
         /\ n >= MaxRecords => n % MaxRecords = n - MaxRecords
BY LogSizeAssumption DEF Slots

LEMMA RoundStep ==
  ASSUME NEW n \in 0 .. 2 * MaxRecords - 1, n + 1 \in 0 .. 2 * MaxRecords - 1
  PROVE  ((n % MaxRecords) + 1) % MaxRecords = (n + 1) % MaxRecords
<1>1. n % MaxRecords \in Slots /\ (n % MaxRecords) + 1 \in 0 .. 2 * MaxRecords - 1
  BY Round, LogSizeAssumption DEF Slots
<1>2. CASE n < MaxRecords
  BY <1>2, Round
<1>3. CASE n >= MaxRecords
  <2>1. n % MaxRecords = n - MaxRecords /\ (n + 1) % MaxRecords = n + 1 - MaxRecords
    BY <1>3, Round, LogSizeAssumption
  <2>2. n - MaxRecords + 1 < MaxRecords
    BY LogSizeAssumption
  <2> QED BY <1>1, <2>1, <2>2, Round, LogSizeAssumption
<1> QED BY <1>2, <1>3, LogSizeAssumption

\* Three indices agree when they describe one run of the ring.
Agree(h) ==
  /\ h.total \in 0 .. MaxRecords /\ h.head \in Slots /\ h.tail \in Slots
  /\ h.head = (h.tail + h.total) % MaxRecords

\* The header after a record agrees if the header before it did.
LEMMA AdvancedAgrees ==
  ASSUME NEW h \in Header, Agree(h)
  PROVE  Advanced(h) \in Header /\ Agree(Advanced(h))
<1>1. h.total \in 0 .. MaxRecords /\ h.head \in Slots /\ h.tail \in Slots /\ h.seq \in 0 .. SeqModulus - 1
  BY DEF Agree, Header
<1>2. (h.head + 1) % MaxRecords \in Slots /\ (h.tail + 1) % MaxRecords \in Slots
  BY <1>1, Round, LogSizeAssumption DEF Slots
<1>3. (h.seq + 1) % SeqModulus \in 0 .. SeqModulus - 1
  BY <1>1, LogSizeAssumption
<1>4. CASE h.total < MaxRecords
  <2>1. Advanced(h) = [total |-> h.total + 1, head |-> (h.head + 1) % MaxRecords,
                       tail |-> h.tail, seq |-> (h.seq + 1) % SeqModulus]
    BY <1>4 DEF Advanced
  <2>2. h.total + 1 \in 0 .. MaxRecords
    BY <1>1, <1>4, LogSizeAssumption
  <2>3. (h.head + 1) % MaxRecords = (h.tail + (h.total + 1)) % MaxRecords
    <3>1. h.tail + h.total \in 0 .. 2 * MaxRecords - 1 /\ h.tail + h.total + 1 \in 0 .. 2 * MaxRecords - 1
      BY <1>1, <1>4, LogSizeAssumption DEF Slots
    <3>2. h.head + 1 \in 0 .. 2 * MaxRecords - 1
      BY <1>1, LogSizeAssumption DEF Slots
    <3>3. h.head = (h.tail + h.total) % MaxRecords
      BY DEF Agree
    <3>4. h.tail + (h.total + 1) = (h.tail + h.total) + 1
      BY <1>1 DEF Slots
    <3> QED BY <3>1, <3>3, <3>4, RoundStep
  <2> QED BY <1>1, <1>2, <1>3, <2>1, <2>2, <2>3 DEF Agree, Header
<1>5. CASE h.total = MaxRecords
  <2>1. Advanced(h) = [total |-> h.total, head |-> (h.head + 1) % MaxRecords,
                       tail |-> (h.tail + 1) % MaxRecords, seq |-> (h.seq + 1) % SeqModulus]
    BY <1>5, LogSizeAssumption DEF Advanced
  <2>2. h.head = h.tail
    BY <1>1, <1>5, Round, LogSizeAssumption DEF Agree, Slots
  <2>3. (h.head + 1) % MaxRecords = (((h.tail + 1) % MaxRecords) + h.total) % MaxRecords
    BY <1>1, <1>2, <1>5, <2>2, Round, LogSizeAssumption DEF Slots
  <2> QED BY <1>1, <1>2, <1>3, <2>1, <2>3 DEF Agree, Header
<1> QED BY <1>1, <1>4, <1>5, LogSizeAssumption
---------------------------------------------------------------------------------
\* What a cell of the header page can hold.
CellValue == Nat \cup (Slots \X Slots) \cup {"magic", Erased}

\* A header page: the indices are programmed after the count they go with.
PageOK(page) ==
  /\ page \in [HeaderCells -> CellValue]
  /\ page[Total] \in 0 .. MaxRecords \cup {Erased}
  /\ page[Indices] \in (Slots \X Slots) \cup {Erased}
  /\ page[Sequence] \in 0 .. SeqModulus - 1 \cup {Erased}
  /\ page[Indices] # Erased =>
       /\ page[Total] # Erased
       /\ page[Indices][1] = (page[Indices][2] + page[Total]) % MaxRecords

\* A header that is being written agrees; the page holds its cells up to the
\* one that is next and nothing from there on.
HeaderJobOK ==
  job.page = "header" =>
    /\ Agree(s_log_header)
    /\ job.next > 0 => \A c \in HeaderCells : c >= job.next => flash.header[c] = Erased
    /\ job.next > Total => flash.header[Total] = s_log_header.total

JobOK ==
  /\ job \in [op : {"none", "off", "format", "record"}, page : {"none", "header", "records"},
              next : 0 .. Sequence + 1, record : Records \cup {Erased}]
  /\ job.page = "header" => job.op \in {"format", "record"}
  /\ job.page = "records" /\ job.op = "record" => job.record \in Records /\ Agree(s_log_header)
  /\ job.page = "records" => job.op \in {"format", "record"}
  /\ job.op = "record" => job.record \in Records
  /\ job.page = "none" => job.op \in {"none", "off"}

FlashOK ==
  /\ flash \in [header : [HeaderCells -> CellValue], records : [RecordCells -> Records \cup {Erased}]]
  /\ PageOK(flash.header)

RamOK ==
  /\ s_log_header \in Header
  /\ s_log_header.head # ErasedHalfword => Agree(s_log_header)
  /\ s_initialized \in BOOLEAN
  /\ accepted \in Seq(Records) /\ Len(accepted) <= MaxRecords

IInv == RamOK /\ FlashOK /\ JobOK /\ HeaderJobOK

LEMMA IInvImplies == IInv => TypeOK /\ IndicesAgree
BY DEF IInv, RamOK, FlashOK, JobOK, TypeOK, IndicesAgree, Agree

---------------------------------------------------------------------------------
\* The empty header agrees, and so does what an erased or a whole page is read as.
LEMMA EmptyAgrees == EmptyHeader \in Header /\ Agree(EmptyHeader)
<1>1. 0 \in 0 .. MaxRecords /\ 0 \in Slots /\ 0 \in 0 .. SeqModulus - 1 /\ 0 = (0 + 0) % MaxRecords
  BY Round, LogSizeAssumption, LogErasedAssumption DEF Slots
<1> QED BY <1>1 DEF EmptyHeader, Header, Agree

LEMMA ReadAgrees ==
  ASSUME NEW page, PageOK(page)
  PROVE  /\ HeaderRead(page) \in Header
         /\ HeaderRead(page).head # ErasedHalfword => Agree(HeaderRead(page))
<1> DEFINE total == IF page[Total] = Erased THEN ErasedHalfword ELSE page[Total]
           ix == IF page[Indices] = Erased THEN <<ErasedHalfword, ErasedHalfword>> ELSE page[Indices]
           seq == IF page[Sequence] = Erased THEN ErasedWord ELSE page[Sequence]
<1>1. HeaderRead(page) = [total |-> total, head |-> ix[1], tail |-> ix[2], seq |-> seq]
  BY DEF HeaderRead
<1>2. total \in 0 .. MaxRecords \cup {ErasedHalfword} /\ seq \in 0 .. SeqModulus - 1
  BY LogErasedAssumption DEF PageOK
<1>3. ix[1] \in Slots \cup {ErasedHalfword} /\ ix[2] \in Slots \cup {ErasedHalfword}
  <2>1. CASE page[Indices] = Erased
    BY <2>1
  <2>2. CASE page[Indices] \in Slots \X Slots
    BY <2>2, LogErasedAssumption
  <2> QED BY <2>1, <2>2 DEF PageOK
<1>4. ASSUME ix[1] # ErasedHalfword
      PROVE  total \in 0 .. MaxRecords /\ ix[1] \in Slots /\ ix[2] \in Slots
             /\ ix[1] = (ix[2] + total) % MaxRecords
  <2>1. page[Indices] # Erased
    BY <1>4
  <2>2. ix = page[Indices] /\ page[Indices] \in Slots \X Slots /\ total = page[Total]
        /\ page[Total] \in 0 .. MaxRecords
    BY <2>1 DEF PageOK
  <2> QED BY <2>1, <2>2 DEF PageOK
<1> HIDE DEF total, ix, seq
<1> QED BY <1>1, <1>2, <1>3, <1>4 DEF Header, Agree

LEMMA ErasedPageOK ==
  ASSUME NEW page \in [HeaderCells -> CellValue]
  PROVE  PageOK(ErasedPage(page)) /\ \A c \in HeaderCells : ErasedPage(page)[c] = Erased
BY DEF ErasedPage, PageOK, CellValue, HeaderCells, Magic, Total, Indices, Sequence

LEMMA HeaderPageType ==
  ASSUME NEW h \in Header, Agree(h)
  PROVE  /\ HeaderPage(h) \in [HeaderCells -> CellValue]
         /\ HeaderPage(h)[Total] = h.total
         /\ HeaderPage(h)[Indices] = <<h.head, h.tail>>
         /\ HeaderPage(h)[Sequence] = h.seq
         /\ h.seq \in 0 .. SeqModulus - 1
<1>1. "magic" \in CellValue /\ h.total \in CellValue /\ <<h.head, h.tail>> \in CellValue /\ h.seq \in CellValue
  BY LogSizeAssumption DEF CellValue, Agree, Header
<1> QED BY <1>1 DEF HeaderPage, HeaderCells, Magic, Total, Indices, Sequence, Header

LEMMA ProgrammedOK ==
  ASSUME NEW page, PageOK(page), NEW h \in Header, Agree(h), NEW next \in HeaderCells,
         \A c \in HeaderCells : c >= next => page[c] = Erased,
         next > Total => page[Total] = h.total
  PROVE  LET new == Programmed(page, HeaderPage(h), next)
         IN  /\ PageOK(new)
             /\ \A c \in HeaderCells : c >= next + 1 => new[c] = Erased
             /\ next + 1 > Total => new[Total] = h.total
<1> DEFINE new == Programmed(page, HeaderPage(h), next)
<1>1. page \in [HeaderCells -> CellValue]
  BY DEF PageOK
<1>2. new \in [HeaderCells -> CellValue]
  BY <1>1, HeaderPageType DEF Programmed
<1>3. \A c \in HeaderCells : new[c] = IF c = next THEN HeaderPage(h)[c] ELSE page[c]
  BY <1>1 DEF Programmed
<1> HIDE DEF new
<1>4. new[Total] \in 0 .. MaxRecords \cup {Erased}
  BY <1>3, HeaderPageType DEF PageOK, Agree, HeaderCells, Magic, Total, Sequence
<1>5. new[Sequence] \in 0 .. SeqModulus - 1 \cup {Erased}
  BY <1>3, HeaderPageType DEF PageOK, HeaderCells, Magic, Sequence
<1>6. /\ new[Indices] \in (Slots \X Slots) \cup {Erased}
      /\ new[Indices] # Erased =>
           /\ new[Total] # Erased
           /\ new[Indices][1] = (new[Indices][2] + new[Total]) % MaxRecords
  <2>1. CASE next = Indices
    <3>1. new[Indices] = <<h.head, h.tail>> /\ new[Total] = h.total
      BY <1>3, <2>1, HeaderPageType DEF HeaderCells, Magic, Total, Indices, Sequence
    <3>2. h.total # Erased
      BY LogErasedAssumption DEF Agree
    <3> QED BY <3>1, <3>2 DEF Agree
  <2>2. CASE next # Indices /\ next < Indices
    <3>1. new[Indices] = Erased
      BY <1>3, <2>2 DEF HeaderCells, Magic, Indices, Sequence
    <3> QED BY <3>1
  <2>3. CASE next > Indices
    <3>1. new[Indices] = page[Indices] /\ new[Total] = page[Total]
      BY <1>3, <2>3 DEF HeaderCells, Magic, Total, Indices, Sequence
    <3> QED BY <3>1 DEF PageOK
  <2> QED BY <2>1, <2>2, <2>3 DEF HeaderCells, Magic, Indices, Sequence
<1>7. \A c \in HeaderCells : c >= next + 1 => new[c] = Erased
  BY <1>3 DEF HeaderCells, Magic, Sequence
<1>8. next + 1 > Total => new[Total] = h.total
  BY <1>3, HeaderPageType DEF HeaderCells, Magic, Total, Sequence
<1>9. PageOK(new)
  BY <1>2, <1>4, <1>5, <1>6 DEF PageOK
<1> QED BY <1>7, <1>8, <1>9 DEF new

---------------------------------------------------------------------------------
LEMMA InitIInv == Init => IInv
<1> SUFFICES ASSUME Init PROVE IInv
  OBVIOUS
<1>1. [c \in HeaderCells |-> Erased] \in [HeaderCells -> CellValue] /\ PageOK([c \in HeaderCells |-> Erased])
  BY DEF PageOK, CellValue, HeaderCells, Magic, Total, Indices, Sequence
<1>2. FlashOK
  BY <1>1 DEF Init, FlashOK
<1>3. RamOK
  <2>1. accepted \in Seq(Records) /\ Len(accepted) <= MaxRecords
    BY LogSizeAssumption DEF Init
  <2> QED BY <2>1, EmptyAgrees DEF Init, RamOK
<1>4. JobOK /\ HeaderJobOK
  BY DEF Init, JobOK, HeaderJobOK, Off, NoJob, Sequence
<1> QED BY <1>2, <1>3, <1>4 DEF IInv

\* Steps that leave the pages alone.
\* What is remembered is not more than the ring holds.
LEMMA RememberedType ==
  ASSUME IInv, job.op = "record"
  PROVE  LET s == Remembered(Append(accepted, job.record))
         IN s \in Seq(Records) /\ Len(s) <= MaxRecords
<1> DEFINE more == Append(accepted, job.record)
<1>1. more \in Seq(Records) /\ Len(more) = Len(accepted) + 1
  BY DEF IInv, RamOK, JobOK
<1>2. Len(accepted) <= MaxRecords /\ Len(accepted) \in Nat
  BY DEF IInv, RamOK
<1> HIDE DEF more
<1>3. more # <<>>
  BY <1>1, <1>2
<1>4. Tail(more) \in Seq(Records) /\ Len(Tail(more)) = Len(accepted)
  BY <1>1, <1>2, <1>3
<1>5. Remembered(more) \in Seq(Records) /\ Len(Remembered(more)) <= MaxRecords
  BY <1>1, <1>2, <1>4, LogSizeAssumption DEF Remembered
<1> QED BY <1>5 DEF more

LEMMA QuietIInv ==
  IInv /\ (BootIntact \/ access_log_format \/ (\E record \in Records : access_log_record(record))
           \/ RecordWritten \/ PowerLoss) => IInv'
<1> USE DEF IInv
<1>1. ASSUME IInv, BootIntact PROVE IInv'
  <2>1. RamOK'
    BY <1>1, ReadAgrees DEF BootIntact, RamOK, FlashOK
  <2>2. FlashOK'
    BY <1>1 DEF BootIntact, FlashOK
  <2>3. JobOK' /\ HeaderJobOK'
    BY <1>1 DEF BootIntact, JobOK, HeaderJobOK, NoJob, Sequence
  <2> QED BY <2>1, <2>2, <2>3
<1>2. ASSUME IInv, access_log_format PROVE IInv'
  <2>1. RamOK'
    BY <1>2, EmptyAgrees, LogSizeAssumption DEF access_log_format, RamOK
  <2>2. FlashOK'
    BY <1>2 DEF access_log_format, FlashOK
  <2>3. JobOK' /\ HeaderJobOK'
    BY <1>2, EmptyAgrees DEF access_log_format, JobOK, HeaderJobOK, Writing, Sequence, Total
  <2> QED BY <2>1, <2>2, <2>3
<1>3. ASSUME IInv, NEW record \in Records, access_log_record(record) PROVE IInv'
  <2>1. RamOK' /\ FlashOK'
    BY <1>3 DEF access_log_record, RamOK, FlashOK, Agree
  <2>2. Agree(s_log_header')
    <3>1. s_log_header.head # ErasedHalfword
      BY <1>3, LogSizeAssumption, LogErasedAssumption DEF access_log_record
    <3>2. s_log_header' = s_log_header
      BY <1>3 DEF access_log_record
    <3> QED BY <1>3, <3>1, <3>2 DEF RamOK
  <2>3. JobOK' /\ HeaderJobOK'
    BY <1>3, <2>2 DEF access_log_record, JobOK, HeaderJobOK, Writing, Sequence
  <2> QED BY <2>1, <2>3
<1>4. ASSUME IInv, RecordWritten PROVE IInv'
  <2>1. Agree(s_log_header) /\ s_log_header \in Header
    BY <1>4 DEF RecordWritten, JobOK, RamOK
  <2>2. Agree(s_log_header') /\ s_log_header' \in Header
    BY <1>4, <2>1, AdvancedAgrees DEF RecordWritten
  <2>3. RamOK' /\ FlashOK'
    BY <1>4, <2>2 DEF RecordWritten, RamOK, FlashOK
  <2>4. JobOK' /\ HeaderJobOK'
    BY <1>4, <2>2 DEF RecordWritten, JobOK, HeaderJobOK, Writing, Sequence, Total
  <2> QED BY <2>3, <2>4
<1>5. ASSUME IInv, PowerLoss PROVE IInv'
  <2>1. accepted' \in Seq(Records) /\ Len(accepted') <= MaxRecords
    BY <1>5, LogSizeAssumption, RememberedType DEF PowerLoss, IInv, RamOK, Complete
  <2>2. RamOK' /\ FlashOK'
    BY <1>5, <2>1, EmptyAgrees DEF PowerLoss, RamOK, FlashOK
  <2>3. JobOK' /\ HeaderJobOK'
    BY <1>5 DEF PowerLoss, JobOK, HeaderJobOK, Off, NoJob, Sequence
  <2> QED BY <2>2, <2>3
<1> QED BY <1>1, <1>2, <1>3, <1>4, <1>5

\* What is kept while a page is written: the header in RAM and what is recorded.
LEMMA RamAlone ==
  ASSUME IInv, UNCHANGED <<s_log_header, s_initialized>>,
         accepted' = accepted \/ accepted' = <<>>
  PROVE  RamOK'
<1>1. accepted' \in Seq(Records) /\ Len(accepted') <= MaxRecords
  <2>1. CASE accepted' = accepted
    BY <2>1 DEF IInv, RamOK
  <2>2. CASE accepted' = <<>>
    BY <2>2, LogSizeAssumption
  <2> QED BY <2>1, <2>2
<1> QED BY <1>1 DEF IInv, RamOK, Agree

\* A write to the page of records.
LEMMA RecordsWrite ==
  ASSUME IInv, NEW page \in [RecordCells -> Records \cup {Erased}],
         flash' = [flash EXCEPT !["records"] = page]
  PROVE  FlashOK' /\ flash'.header = flash.header
BY DEF IInv, FlashOK

\* A write to the header page.
LEMMA HeaderWrite ==
  ASSUME IInv, NEW page, PageOK(page), flash' = [flash EXCEPT !["header"] = page]
  PROVE  FlashOK' /\ flash'.header = page
BY DEF IInv, FlashOK, PageOK

LEMMA ErasePageIInv == IInv /\ ErasePage => IInv'
<1> SUFFICES ASSUME IInv, ErasePage PROVE IInv'
  OBVIOUS
<1>1. RamOK' /\ s_log_header' = s_log_header
  BY RamAlone DEF ErasePage
<1>2. job' = [job EXCEPT !.next = 1] /\ JobOK'
  BY <1>1 DEF ErasePage, IInv, JobOK, Sequence, Agree
<1>3. CASE job.page = "header"
  <2>1. flash' = [flash EXCEPT !["header"] = ErasedPage(flash.header)]
    BY <1>3 DEF ErasePage
  <2>2. /\ PageOK(ErasedPage(flash.header))
        /\ \A c \in HeaderCells : ErasedPage(flash.header)[c] = Erased
    BY ErasedPageOK DEF IInv, FlashOK
  <2>3. FlashOK' /\ flash'.header = ErasedPage(flash.header)
    BY <2>1, <2>2, HeaderWrite
  <2>4. HeaderJobOK'
    BY <1>1, <1>2, <1>3, <2>2, <2>3 DEF HeaderJobOK, IInv, JobOK, Agree, Total
  <2> QED BY <1>1, <1>2, <2>3, <2>4 DEF IInv
<1>4. CASE job.page = "records"
  <2>1. flash' = [flash EXCEPT !["records"] = ErasedPage(flash.records)]
    BY <1>4 DEF ErasePage
  <2>2. ErasedPage(flash.records) \in [RecordCells -> Records \cup {Erased}]
    BY DEF IInv, FlashOK, ErasedPage
  <2>3. FlashOK'
    BY <2>1, <2>2, RecordsWrite
  <2>4. HeaderJobOK'
    BY <1>2, <1>4 DEF HeaderJobOK, IInv, JobOK
  <2> QED BY <1>1, <1>2, <2>3, <2>4 DEF IInv
<1> QED BY <1>3, <1>4 DEF ErasePage, HasWrites, IInv, JobOK

\* Programming a cell, whether or not it reports an error.
LEMMA ProgramFlash ==
  ASSUME IInv, HasWrites, job.next \in 1 .. Width,
         flash' = [flash EXCEPT ![job.page] = Programmed(@, Buffer, Target)]
  PROVE  /\ FlashOK'
         /\ job.page = "header" =>
              /\ \A c \in HeaderCells : c >= job.next + 1 => flash'.header[c] = Erased
              /\ job.next + 1 > Total => flash'.header[Total] = s_log_header.total
<1>1. CASE job.page = "header"
  <2> DEFINE page == Programmed(flash.header, HeaderPage(s_log_header), job.next)
  <2>1. flash' = [flash EXCEPT !["header"] = page]
    BY <1>1 DEF Buffer, Target
  <2>2. /\ PageOK(flash.header) /\ s_log_header \in Header /\ Agree(s_log_header)
        /\ job.next \in HeaderCells
        /\ \A c \in HeaderCells : c >= job.next => flash.header[c] = Erased
        /\ job.next > Total => flash.header[Total] = s_log_header.total
    BY <1>1 DEF IInv, FlashOK, RamOK, HeaderJobOK, Width, HeaderCells, Magic, Sequence, Total
  <2>3. /\ PageOK(page)
        /\ \A c \in HeaderCells : c >= job.next + 1 => page[c] = Erased
        /\ job.next + 1 > Total => page[Total] = s_log_header.total
    BY <2>2, ProgrammedOK
  <2> HIDE DEF page
  <2>4. FlashOK' /\ flash'.header = page
    BY <2>1, <2>3, HeaderWrite
  <2> QED BY <2>3, <2>4
<1>2. CASE job.page = "records"
  <2> DEFINE page == Programmed(flash.records, [c \in RecordCells |-> job.record], Cell(s_log_header.head))
  <2>1. flash' = [flash EXCEPT !["records"] = page]
    BY <1>2 DEF Buffer, Target
  <2>2. job.record \in Records /\ Agree(s_log_header)
    BY <1>2 DEF IInv, JobOK, HasWrites
  <2>3. Cell(s_log_header.head) \in RecordCells
    BY <2>2, LogSizeAssumption DEF Agree, Slots, Cell, RecordCells
  <2>4. page \in [RecordCells -> Records \cup {Erased}]
    BY <2>2, <2>3 DEF IInv, FlashOK, Programmed
  <2> HIDE DEF page
  <2> QED BY <1>2, <2>1, <2>4, RecordsWrite
<1> QED BY <1>1, <1>2 DEF HasWrites, IInv, JobOK

LEMMA ProgramWordIInv == IInv /\ ProgramWord => IInv'
<1> SUFFICES ASSUME IInv, ProgramWord PROVE IInv'
  OBVIOUS
<1>1. RamOK' /\ s_log_header' = s_log_header
  BY RamAlone DEF ProgramWord
<1>2. /\ FlashOK'
      /\ job.page = "header" =>
           /\ \A c \in HeaderCells : c >= job.next + 1 => flash'.header[c] = Erased
           /\ job.next + 1 > Total => flash'.header[Total] = s_log_header.total
  BY ProgramFlash DEF ProgramWord
<1>3. job.next + 1 \in 0 .. Sequence + 1 /\ job' = [job EXCEPT !.next = job.next + 1]
  BY DEF ProgramWord, Width, Sequence
<1>4. JobOK'
  BY <1>1, <1>3 DEF IInv, JobOK, Agree
<1>5. HeaderJobOK'
  BY <1>1, <1>2, <1>3 DEF IInv, JobOK, HeaderJobOK, Agree
<1> QED BY <1>1, <1>2, <1>4, <1>5 DEF IInv

LEMMA FlashFailsIInv == IInv /\ FlashFails => IInv'
<1> SUFFICES ASSUME IInv, FlashFails PROVE IInv'
  OBVIOUS
<1>1. RamOK'
  BY RamAlone DEF FlashFails
<1>2. JobOK' /\ HeaderJobOK'
  BY DEF FlashFails, JobOK, HeaderJobOK, NoJob, Sequence
<1>3. FlashOK'
  <2>1. CASE UNCHANGED flash
    BY <2>1 DEF IInv, FlashOK
  <2>2. CASE flash' = [flash EXCEPT ![job.page] = flash[job.page]]
    <3>1. flash' = flash
      BY <2>2 DEF IInv, FlashOK
    <3> QED BY <3>1 DEF IInv, FlashOK
  <2>3. CASE /\ job.next # 0
             /\ flash' = [flash EXCEPT ![job.page] = Programmed(flash[job.page], Buffer, Target)]
    <3>1. job.next \in 1 .. Width /\ HasWrites
      BY <2>3 DEF FlashFails, Width, Sequence
    <3> QED BY <2>3, <3>1, ProgramFlash
  <2> QED BY <2>1, <2>2, <2>3 DEF FlashFails, ProgramFailed
<1> QED BY <1>1, <1>2, <1>3 DEF IInv

LEMMA HeaderWrittenIInv == IInv /\ HeaderWritten => IInv'
<1> SUFFICES ASSUME IInv, HeaderWritten PROVE IInv'
  OBVIOUS
<1>1. FlashOK'
  BY DEF HeaderWritten, IInv, FlashOK
<1>2. JobOK' /\ HeaderJobOK'
  BY DEF HeaderWritten, IInv, JobOK, HeaderJobOK, NoJob, Writing, Sequence
<1>3. accepted' \in Seq(Records) /\ Len(accepted') <= MaxRecords
  BY RememberedType DEF HeaderWritten, IInv, RamOK, JobOK
<1>4. RamOK'
  BY <1>3 DEF HeaderWritten, IInv, RamOK, Agree
<1> QED BY <1>1, <1>2, <1>4 DEF IInv

LEMMA WipedIInv == IInv /\ Wiped => IInv'
<1> SUFFICES ASSUME IInv, Wiped PROVE IInv'
  OBVIOUS
<1>1. FlashOK'
  <2>1. CASE UNCHANGED flash
    BY <2>1 DEF IInv, FlashOK
  <2>2. CASE flash' = [flash EXCEPT !.records = ErasedPage(@)]
    <3>1. ErasedPage(flash.records) \in [RecordCells -> Records \cup {Erased}]
      BY DEF IInv, FlashOK, ErasedPage
    <3> QED BY <2>2, <3>1, RecordsWrite
  <2> QED BY <2>1, <2>2 DEF Wiped
<1>2. JobOK' /\ HeaderJobOK'
  BY DEF Wiped, IInv, JobOK, HeaderJobOK, NoJob, Sequence
<1>3. RamOK'
  BY DEF Wiped, IInv, RamOK, Agree
<1> QED BY <1>1, <1>2, <1>3 DEF IInv

LEMMA NextIInv == IInv /\ [Next]_vars => IInv'
<1> SUFFICES ASSUME IInv, [Next]_vars PROVE IInv'
  OBVIOUS
<1>1. CASE Next
  BY <1>1, QuietIInv, ErasePageIInv, ProgramWordIInv, FlashFailsIInv, HeaderWrittenIInv, WipedIInv
  DEF Next
<1>2. CASE UNCHANGED vars
  BY <1>2 DEF vars, IInv, RamOK, FlashOK, JobOK, HeaderJobOK, Agree
<1> QED BY <1>1, <1>2

LEMMA IInvInvariant == Spec => []IInv
BY InitIInv, NextIInv, PTL DEF Spec

\* Every variable keeps its type, whatever of a header a restart finds.
THEOREM TypeCorrect == Spec => []TypeOK
BY IInvInvariant, IInvImplies, PTL

\* Whatever fails and whenever, head, tail and count describe one run of the
\* ring, or the header was cut off before them (access_log_record).
THEOREM IndicesCorrect == Spec => []IndicesAgree
BY IInvInvariant, IInvImplies, PTL
---------------------------------------------------------------------------------
(* The newest record. *)

Newest(h) == flash.records[Cell(IF h.head - 1 < 0 THEN h.head - 1 + MaxRecords ELSE h.head - 1)]
Kept(h) == /\ h.total > 0 /\ h.head < MaxRecords
           /\ Newest(h) = accepted[Len(accepted)]

\* The cells of the header page before next hold header h.
Written(h, next) == \A c \in HeaderCells : c < next => flash.header[c] = HeaderPage(h)[c]

\* A record is in its slot before the header that counts it is written; once
\* idle, the header in RAM and the one in the flash are the same.
LInv ==
  /\ job.op = "record" => s_initialized = TRUE
  /\ job.op = "format" => accepted = <<>>
  /\ job = NoJob /\ s_initialized = FALSE => accepted = <<>>
  /\ job = NoJob /\ accepted # <<>> =>
       Kept(s_log_header) /\ HeaderRead(flash.header) = s_log_header
  /\ job = Off \/ Unbegun =>
       accepted = <<>> \/ Kept(HeaderRead(flash.header))
  /\ Unbegun /\ accepted # <<>> => HeaderRead(flash.header) = s_log_header
  /\ job.op = "record" /\ job.page = "records" /\ job.next = 2 =>
       flash.records[Cell(s_log_header.head)] = job.record
  /\ job.op = "record" /\ job.page = "header" =>
       /\ s_log_header.total > 0 /\ s_log_header.head < MaxRecords
       /\ Newest(s_log_header) = job.record
  /\ job.page = "header" /\ job.next > 0 => Written(s_log_header, job.next)

LEMMA LInvImplies == IInv /\ LInv => LatestSurvives
<1> SUFFICES ASSUME IInv, LInv, Ready, accepted # <<>>
             PROVE  /\ s_log_header.total > 0 /\ s_log_header.head < MaxRecords
                    /\ access_log_get_record(0) = accepted[Len(accepted)]
  BY DEF LatestSurvives
<1>1. Kept(s_log_header)
  BY DEF Ready, LInv
<1>2. s_log_header.head \in Nat
  BY LogErasedAssumption DEF IInv, RamOK, Header, Slots
<1>3. s_log_header.head - 1 - 0 = s_log_header.head - 1
  BY <1>2
<1>4. access_log_get_record(0) = Newest(s_log_header)
  BY <1>3 DEF access_log_get_record, Newest
<1> QED BY <1>1, <1>4 DEF Kept

\* A header page that holds a header is read as that header.
LEMMA WrittenIsRead ==
  ASSUME IInv, Agree(s_log_header), Written(s_log_header, Sequence + 1)
  PROVE  HeaderRead(flash.header) = s_log_header
<1> DEFINE h == s_log_header
           page == flash.header
<1>1. h \in Header /\ Agree(h)
  BY DEF IInv, RamOK
<1>2. page[Total] = h.total /\ page[Indices] = <<h.head, h.tail>> /\ page[Sequence] = h.seq
  <2>1. \A c \in HeaderCells : page[c] = HeaderPage(h)[c]
    BY DEF Written, HeaderCells, Magic, Sequence
  <2>2. HeaderPage(h)[Total] = h.total /\ HeaderPage(h)[Indices] = <<h.head, h.tail>>
        /\ HeaderPage(h)[Sequence] = h.seq
    BY <1>1, HeaderPageType
  <2> QED BY <2>1, <2>2 DEF HeaderCells, Magic, Total, Indices, Sequence
<1>3. h.total # Erased /\ <<h.head, h.tail>> # Erased /\ h.seq # Erased
  <2>1. h.total \in Nat /\ h.seq \in Nat /\ <<h.head, h.tail>> \in Slots \X Slots
    BY <1>1 DEF Agree, Header
  <2> QED BY <2>1, LogErasedAssumption
<1>4. h = [total |-> h.total, head |-> h.head, tail |-> h.tail, seq |-> h.seq]
  BY <1>1 DEF Header
<1> HIDE DEF h, page
<1>5. HeaderRead(page) = [total |-> h.total, head |-> h.head, tail |-> h.tail, seq |-> h.seq]
  BY <1>2, <1>3 DEF HeaderRead
<1> QED BY <1>4, <1>5 DEF h, page

\* The slot before the new head is the old head.
LEMMA AdvancedNewest ==
  ASSUME NEW h \in Header, Agree(h)
  PROVE  /\ Advanced(h).total > 0 /\ Advanced(h).head < MaxRecords
         /\ Newest(Advanced(h)) = flash.records[Cell(h.head)]
<1>1. h.total \in 0 .. MaxRecords /\ h.head \in Slots
  BY DEF Agree
<1>2. Advanced(h).total = (IF h.total < MaxRecords THEN h.total + 1 ELSE h.total)
      /\ Advanced(h).head = (h.head + 1) % MaxRecords
  BY DEF Advanced
<1>3. Advanced(h).total > 0
  BY <1>1, <1>2, LogSizeAssumption
<1>6. Advanced(h).head < MaxRecords
  BY <1>1, <1>2, LogSizeAssumption DEF Slots
<1> DEFINE n == Advanced(h).head
<1>4. (IF n - 1 < 0 THEN n - 1 + MaxRecords ELSE n - 1) = h.head
  <2>1. h.head + 1 \in 0 .. 2 * MaxRecords - 1
    BY <1>1, LogSizeAssumption DEF Slots
  <2>2. CASE h.head + 1 < MaxRecords
    <3>1. n = h.head + 1
      BY <1>2, <2>1, <2>2, Round
    <3> QED BY <1>1, <3>1 DEF Slots
  <2>3. CASE h.head + 1 >= MaxRecords
    <3>1. h.head + 1 = MaxRecords
      BY <1>1, <2>3, LogSizeAssumption DEF Slots
    <3>2. n = 0
      BY <1>2, <3>1, LogSizeAssumption
    <3> QED BY <3>1, <3>2, <1>1, LogSizeAssumption DEF Slots
  <2> QED BY <1>1, <2>2, <2>3, LogSizeAssumption DEF Slots
<1> HIDE DEF n
<1>5. Newest(Advanced(h)) = flash.records[Cell(h.head)]
  BY <1>4 DEF Newest, n
<1> QED BY <1>3, <1>5, <1>6

\* The last of what is remembered is what was recorded last.
LEMMA RememberedLast ==
  ASSUME NEW s \in Seq(Records), NEW r \in Records
  PROVE  LET n == Remembered(Append(s, r)) IN n[Len(n)] = r
<1> DEFINE t == Append(s, r)
<1>1. t \in Seq(Records) /\ Len(t) = Len(s) + 1 /\ t[Len(t)] = r /\ Len(s) \in Nat
  OBVIOUS
<1> HIDE DEF t
<1>2. t # <<>>
  BY <1>1
<1>3. CASE Len(t) > MaxRecords
  <2>1. Tail(t) \in Seq(Records) /\ Len(Tail(t)) = Len(s)
        /\ \A i \in 1 .. Len(Tail(t)) : Tail(t)[i] = t[i + 1]
    BY <1>1, <1>2, HeadTailProperties
  <2>2. Len(s) \in 1 .. Len(Tail(t))
    BY <1>1, <1>3, <2>1, LogSizeAssumption
  <2>3. Tail(t)[Len(Tail(t))] = t[Len(t)]
    BY <1>1, <2>1, <2>2
  <2> QED BY <1>1, <1>3, <2>3 DEF Remembered, t
<1>4. CASE ~(Len(t) > MaxRecords)
  BY <1>1, <1>4 DEF Remembered, t
<1> QED BY <1>3, <1>4

\* A header written to its end is the one in RAM.
LEMMA CompleteRead ==
  ASSUME IInv, LInv, Complete
  PROVE  HeaderRead(flash.header) = s_log_header
<1>1. job.page = "header" /\ job.next = Sequence + 1 /\ job.next > 0
  BY DEF Complete, Sequence
<1>2. Written(s_log_header, Sequence + 1)
  BY <1>1 DEF LInv
<1> QED BY <1>1, <1>2, WrittenIsRead DEF IInv, HeaderJobOK

LEMMA InitLInv == Init => LInv
BY DEF Init, LInv, Off, NoJob, Unbegun

LEMMA QuietLInv ==
  ASSUME IInv, LInv,
         BootIntact \/ access_log_format \/ (\E record \in Records : access_log_record(record))
         \/ RecordWritten \/ PowerLoss
  PROVE  LInv'
<1>1. CASE BootIntact
  <2>1. /\ job = Off /\ s_log_header' = HeaderRead(flash.header) /\ s_initialized' = TRUE
        /\ job' = NoJob /\ flash' = flash /\ accepted' = accepted
    BY <1>1 DEF BootIntact
  <2>2. accepted' # <<>> => Kept(s_log_header)' /\ HeaderRead(flash.header)' = s_log_header'
    BY <2>1 DEF LInv, Kept, Newest
  <2>3. job'.op = "none" /\ job'.page = "none" /\ job' # Off /\ ~ Unbegun'
    BY <2>1 DEF NoJob, Off, Unbegun
  <2> QED BY <2>1, <2>2, <2>3 DEF LInv
<1>2. CASE access_log_format
  BY <1>2 DEF access_log_format, LInv, Writing, NoJob, Off, Unbegun
<1>3. ASSUME NEW record \in Records, access_log_record(record) PROVE LInv'
  <2>1. /\ Ready /\ UNCHANGED <<s_log_header, s_initialized, flash, accepted>>
        /\ job' = [op |-> "record", page |-> "records", next |-> 0, record |-> record]
    BY <1>3 DEF access_log_record, Writing
  <2>2. accepted' # <<>> => Kept(HeaderRead(flash.header))' /\ HeaderRead(flash.header)' = s_log_header'
    BY <2>1 DEF Ready, LInv, Kept, Newest
  <2> QED BY <2>1, <2>2 DEF Ready, LInv, NoJob, Off
<1>4. CASE RecordWritten
  <2>1. /\ job.op = "record" /\ job.page = "records" /\ job.next = 2
        /\ s_log_header' = Advanced(s_log_header)
        /\ job' = [op |-> "record", page |-> "header", next |-> 0, record |-> job.record]
        /\ UNCHANGED <<s_initialized, flash, accepted>>
    BY <1>4 DEF RecordWritten, Writing
  <2>2. s_log_header \in Header /\ Agree(s_log_header)
    BY <2>1 DEF IInv, JobOK, RamOK
  <2>3. /\ Advanced(s_log_header).total > 0 /\ Advanced(s_log_header).head < MaxRecords
        /\ Newest(Advanced(s_log_header)) = flash.records[Cell(s_log_header.head)]
    BY <2>2, AdvancedNewest
  <2>4. flash.records[Cell(s_log_header.head)] = job.record /\ s_initialized = TRUE
    BY <2>1 DEF LInv
  <2>5. s_log_header'.total > 0 /\ s_log_header'.head < MaxRecords /\ Newest(s_log_header)' = job'.record
    BY <2>1, <2>3, <2>4 DEF Newest
  <2> QED BY <2>1, <2>4, <2>5 DEF LInv, NoJob, Off, Unbegun
<1>5. CASE PowerLoss
  <2>1. /\ job' = Off /\ flash' = flash /\ s_initialized' = FALSE
        /\ job # Off
    BY <1>5 DEF PowerLoss
  <2>2. job'.op = "off" /\ job'.page = "none" /\ job' # NoJob
    BY <2>1 DEF NoJob, Off
  <2>3. accepted' # <<>> => Kept(HeaderRead(flash.header))'
    <3>1. CASE (job = NoJob \/ Unbegun) /\ accepted' = accepted
      BY <2>1, <3>1 DEF LInv, Kept, Newest
    <3>2. CASE Complete /\ accepted' = Remembered(Append(accepted, job.record))
      <4>1. HeaderRead(flash.header) = s_log_header
        BY <3>2, CompleteRead
      <4>2. accepted'[Len(accepted')] = job.record
        BY <3>2, RememberedLast DEF Complete, IInv, RamOK, JobOK
      <4>3. s_log_header.total > 0 /\ s_log_header.head < MaxRecords /\ Newest(s_log_header) = job.record
        BY <3>2 DEF Complete, LInv
      <4> QED BY <2>1, <4>1, <4>2, <4>3 DEF Kept, Newest
    <3> QED BY <1>5, <3>1, <3>2 DEF PowerLoss
  <2>4. ~ Unbegun'
    BY <2>1 DEF NoJob, Off, Unbegun
  <2> QED BY <2>1, <2>2, <2>3, <2>4 DEF LInv
<1> QED BY <1>1, <1>2, <1>3, <1>4, <1>5

\* Steps that write a page: the cell that is programmed is in its place.
LEMMA ErasePageLInv ==
  ASSUME IInv, LInv, ErasePage
  PROVE  LInv'
<1>1. /\ job.next = 0 /\ job' = [job EXCEPT !.next = 1]
      /\ UNCHANGED <<s_log_header, s_initialized, accepted>>
      /\ flash' = [flash EXCEPT ![job.page] = ErasedPage(flash[job.page])]
  BY DEF ErasePage
<1>2. /\ job'.op = job.op /\ job'.page = job.page /\ job'.next = 1 /\ job'.record = job.record
      /\ job.op \in {"record", "format"} /\ job.page \in {"header", "records"}
  BY <1>1 DEF ErasePage, HasWrites, IInv, JobOK
<1>3. job' # NoJob /\ job' # Off /\ ~ Unbegun'
  BY <1>2 DEF NoJob, Off, Unbegun
<1>4. job.page = "header" => Newest(s_log_header)' = Newest(s_log_header)
  <2>1. job.page = "header" => flash'.records = flash.records
    BY <1>1 DEF IInv, FlashOK
  <2> QED BY <1>1, <2>1 DEF Newest
<1>5. Written(s_log_header, 1)'
  BY DEF Written, HeaderCells, Magic, Sequence
<1> QED BY <1>1, <1>2, <1>3, <1>4, <1>5 DEF LInv

LEMMA ProgramWordLInv ==
  ASSUME IInv, LInv, ProgramWord
  PROVE  LInv'
<1>1. /\ job.next \in 1 .. Width /\ job' = [job EXCEPT !.next = job.next + 1]
      /\ UNCHANGED <<s_log_header, s_initialized, accepted>>
      /\ flash' = [flash EXCEPT ![job.page] = Programmed(flash[job.page], Buffer, Target)]
  BY DEF ProgramWord
<1>2. /\ job'.op = job.op /\ job'.page = job.page /\ job'.next = job.next + 1 /\ job'.record = job.record
      /\ job.op \in {"record", "format"} /\ job.page \in {"header", "records"}
  BY <1>1 DEF ProgramWord, HasWrites, IInv, JobOK
<1>3. job' # NoJob /\ job' # Off /\ ~ Unbegun'
  BY <1>1, <1>2 DEF NoJob, Off, Unbegun, Width, Sequence
<1>4. CASE job.page = "header"
  <2>1. flash' = [flash EXCEPT !["header"] = Programmed(flash.header, HeaderPage(s_log_header), job.next)]
    BY <1>1, <1>4 DEF Buffer, Target
  <2>2. flash'.records = flash.records
        /\ flash'.header = Programmed(flash.header, HeaderPage(s_log_header), job.next)
    BY <2>1 DEF IInv, FlashOK
  <2>3. job.next \in HeaderCells /\ job.next > 0
    BY <1>1, <1>4 DEF Width, HeaderCells, Magic, Sequence
  <2>4. Written(s_log_header, job.next)
    BY <1>4, <2>3 DEF LInv
  <2>5. Written(s_log_header, job.next)'
    <3>1. \A c \in HeaderCells : flash'.header[c] = IF c = job.next THEN HeaderPage(s_log_header)[c]
                                                    ELSE flash.header[c]
      BY <2>2 DEF Programmed, IInv, FlashOK
    <3>2. \A c \in HeaderCells : c < job.next + 1 => flash'.header[c] = HeaderPage(s_log_header)[c]
      BY <2>3, <2>4, <3>1 DEF Written, HeaderCells, Magic, Sequence
    <3>3. s_log_header' = s_log_header /\ job'.next = job.next + 1
      BY <1>1, <1>2
    <3>4. \A c \in HeaderCells : c < job'.next => flash'.header[c] = HeaderPage(s_log_header')[c]
      BY <3>2, <3>3
    <3> QED BY <3>4 DEF Written
  <2>6. Newest(s_log_header)' = Newest(s_log_header)
    BY <1>1, <2>2 DEF Newest
  <2> QED BY <1>1, <1>2, <1>3, <1>4, <2>5, <2>6 DEF LInv
<1>5. CASE job.page = "records"
  <2>1. job.op = "record" /\ job.next = 1 /\ Agree(s_log_header) /\ job.record \in Records
    BY <1>1, <1>5 DEF ProgramWord, HasWrites, Width, IInv, JobOK
  <2>2. flash' = [flash EXCEPT !["records"] =
                    Programmed(flash.records, [c \in RecordCells |-> job.record], Cell(s_log_header.head))]
    BY <1>1, <1>5 DEF Buffer, Target
  <2>3. Cell(s_log_header.head) \in RecordCells
    BY <2>1, LogSizeAssumption DEF Agree, Slots, Cell, RecordCells
  <2>4. flash'.records[Cell(s_log_header.head)] = job.record
    BY <2>2, <2>3 DEF Programmed, IInv, FlashOK
  <2> QED BY <1>1, <1>2, <1>3, <1>5, <2>4 DEF LInv
<1> QED BY <1>2, <1>4, <1>5

LEMMA FlashFailsLInv ==
  ASSUME IInv, LInv, FlashFails
  PROVE  LInv'
<1>1. /\ job' = NoJob /\ UNCHANGED <<s_log_header, s_initialized>>
      /\ accepted' = IF Unbegun THEN accepted ELSE <<>>
      /\ Unbegun => UNCHANGED flash
  BY DEF FlashFails, Unbegun
<1>2. Unbegun /\ accepted # <<>> => Kept(s_log_header) /\ HeaderRead(flash.header) = s_log_header
  BY DEF LInv
<1>3. Unbegun => s_initialized = TRUE
  BY DEF LInv, Unbegun
<1>4. accepted' # <<>> => Kept(s_log_header)' /\ HeaderRead(flash.header)' = s_log_header'
  BY <1>1, <1>2 DEF Kept, Newest
<1> QED BY <1>1, <1>3, <1>4 DEF LInv, NoJob, Off, Unbegun

LEMMA HeaderWrittenLInv ==
  ASSUME IInv, LInv, HeaderWritten
  PROVE  LInv'
<1>1. job.page = "header" /\ job.next = Sequence + 1 /\ UNCHANGED <<s_log_header, s_initialized, flash>>
  BY DEF HeaderWritten
<1>2. CASE job.op = "format"
  <2>1. job' = Writing("format", "records", Erased) /\ accepted' = accepted
    BY <1>2 DEF HeaderWritten
  <2> QED BY <1>1, <1>2, <2>1 DEF LInv, Writing, NoJob, Off, Unbegun
<1>3. CASE job.op = "record"
  <2>1. job' = NoJob /\ accepted' = Remembered(Append(accepted, job.record))
    BY <1>3 DEF HeaderWritten
  <2>2. s_initialized = TRUE /\ s_log_header.total > 0 /\ s_log_header.head < MaxRecords /\ Newest(s_log_header) = job.record
        /\ Written(s_log_header, Sequence + 1)
    BY <1>1, <1>3 DEF LInv, Sequence
  <2>3. accepted'[Len(accepted')] = job.record
    BY <1>3, <2>1, RememberedLast DEF IInv, RamOK, JobOK
  <2>4. Kept(s_log_header)'
    BY <1>1, <2>2, <2>3 DEF Kept, Newest
  <2>5. HeaderRead(flash.header)' = s_log_header'
    <3>1. HeaderRead(flash.header) = s_log_header
      BY <1>1, <2>2, WrittenIsRead DEF IInv, HeaderJobOK
    <3> QED BY <1>1, <3>1
  <2>6. job'.op = "none" /\ job'.page = "none" /\ job' # Off /\ ~ Unbegun'
    BY <2>1 DEF NoJob, Off, Unbegun
  <2> QED BY <1>1, <2>2, <2>4, <2>5, <2>6 DEF LInv
<1> QED BY <1>1, <1>2, <1>3 DEF IInv, JobOK

LEMMA WipedLInv ==
  ASSUME IInv, LInv, Wiped
  PROVE  LInv'
BY DEF Wiped, LInv, NoJob, Off, Unbegun

LEMMA NextLInv == IInv /\ LInv /\ [Next]_vars => LInv'
<1> SUFFICES ASSUME IInv, LInv, [Next]_vars PROVE LInv'
  OBVIOUS
<1>1. CASE Next
  BY <1>1, QuietLInv, ErasePageLInv, ProgramWordLInv, FlashFailsLInv, HeaderWrittenLInv, WipedLInv
  DEF Next
<1>2. CASE UNCHANGED vars
  BY <1>2 DEF vars, LInv, Kept, Newest, Written, Unbegun
<1> QED BY <1>1, <1>2

\* The newest record accepted since an operation was last cut short is the one
\* that is read, after any restart that cut none, and the log does not refuse
\* the next (access_log_get_latest, access_log_record).
THEOREM LatestCorrect == Spec => []LatestSurvives
BY InitLInv, NextLInv, IInvInvariant, LInvImplies, PTL DEF Spec

=================================================================================
