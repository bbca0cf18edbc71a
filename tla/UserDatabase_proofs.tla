-------------------------- MODULE UserDatabase_proofs --------------------------
(* The user database implements the store it promises, for any number of       *)
(* users, cards and passwords and whatever fails.  First the operators, then   *)
(* the inductive invariant (what the pages, the buffer and the operation in    *)
(* progress have to do with one another), then the refinement step by step.    *)
EXTENDS UserDatabase, FiniteSetTheorems, WellFoundedInduction, NaturalsInduction, TLAPS

--------------------------------------------------------------------------------
\* The first of a set of slots is one of them.
LEMMA FirstIn ==
  ASSUME NEW S \in SUBSET Slots, S # {}
  PROVE  First(S) \in S
<1>1. S \in SUBSET Nat
  BY DEF Slots
<1>2. IsWellFoundedOn(OpToRel(<, Nat), Nat)
  BY NatLessThanWellFounded
<1>3. PICK x \in S : \A y \in S : ~ (<<y, x>> \in OpToRel(<, Nat))
  BY <1>1, <1>2, WFMin
<1>4. \A y \in S : x <= y
  <2>1. ASSUME NEW y \in S, y < x PROVE FALSE
    <3>1. <<y, x>> \in OpToRel(<, Nat)
      BY <1>1, <2>1, Zenon DEF OpToRel
    <3> QED BY <1>3, <3>1
  <2> QED BY <1>1, <2>1
<1> QED BY <1>4 DEF First

\* Entries of the user page: each cell has its kind, and a valid one is whole.
UsersOK(page) ==
  /\ page \in UserPage
  /\ \A s \in Slots : page[PersonOf(s)] \in Persons \cup {Erased}
  /\ \A s \in Slots : page[FlagsOf(s)] \in (SUBSET Flags) \cup {Erased}
  /\ \A s \in Slots : is_slot_valid(page, s) => page[PersonOf(s)] # Erased

\* The cells of a slot are cells of the page and belong to no other slot.
LEMMA Cells ==
  ASSUME NEW s \in Slots
  PROVE  /\ PersonOf(s) \in UserCells /\ FlagsOf(s) \in UserCells
         /\ PersonOf(s) < FlagsOf(s)
         /\ \A t \in Slots : /\ PersonOf(s) # FlagsOf(t)
                             /\ s # t => PersonOf(s) # PersonOf(t) /\ FlagsOf(s) # FlagsOf(t)
BY SizeAssumption DEF Slots, PersonOf, FlagsOf, UserCells

LEMMA ErasedUsersOK ==
  ASSUME NEW page \in UserPage
  PROVE  UsersOK(ErasedPage(page)) /\ \A c \in UserCells : ErasedPage(page)[c] = Erased
<1>1. \A c \in UserCells : ErasedPage(page)[c] = Erased
  BY DEF ErasedPage, UserPage
<1>2. ErasedPage(page) \in UserPage
  <2>1. DOMAIN page = UserCells
    BY DEF UserPage
  <2> QED BY <2>1 DEF ErasedPage, UserPage
<1>3. \A s \in Slots : /\ ErasedPage(page)[PersonOf(s)] = Erased /\ ErasedPage(page)[FlagsOf(s)] = Erased
                        /\ ~ is_slot_valid(ErasedPage(page), s)
  BY <1>1, Cells DEF is_slot_valid
<1> QED BY <1>1, <1>2, <1>3 DEF UsersOK

\* What an operation makes of the page: one slot changes, and keeps its id.
OneChange(page, new) ==
  \E s \in Slots :
    /\ \A t \in Slots \ {s} : Entry(new, t) = Entry(page, t)
    /\ is_slot_valid(page, s) /\ is_slot_valid(new, s) =>
         new[PersonOf(s)].id = page[PersonOf(s)].id

LEMMA ModifiedOK ==
  ASSUME NEW page, UsersOK(page), NEW s \in Slots,
         NEW person \in Persons, NEW flags \in SUBSET Flags,
         is_slot_valid(page, s) /\ "VALID" \in flags => person.id = page[PersonOf(s)].id
  PROVE  /\ UsersOK(Modified(page, s, person, flags))
         /\ OneChange(page, Modified(page, s, person, flags))
<1> DEFINE new == Modified(page, s, person, flags)
<1>1. person # Erased /\ flags # Erased
  BY DataAssumption
<1>2. new \in UserPage
  BY DEF Modified, UsersOK, UserPage
<1>3. new[PersonOf(s)] = person /\ new[FlagsOf(s)] = flags
  BY Cells DEF Modified
<1>4. \A t \in Slots \ {s} : new[PersonOf(t)] = page[PersonOf(t)] /\ new[FlagsOf(t)] = page[FlagsOf(t)]
  BY Cells DEF Modified
<1> HIDE DEF new
<1>5. \A t \in Slots \ {s} : (is_slot_valid(new, t) <=> is_slot_valid(page, t)) /\ Entry(new, t) = Entry(page, t)
  BY <1>4 DEF is_slot_valid, Entry
<1>6. is_slot_valid(new, s) => "VALID" \in flags
  BY <1>3 DEF is_slot_valid
<1>7. \A t \in Slots : new[PersonOf(t)] \in Persons \cup {Erased}
  BY <1>3, <1>4 DEF UsersOK
<1>8. \A t \in Slots : new[FlagsOf(t)] \in (SUBSET Flags) \cup {Erased}
  BY <1>3, <1>4 DEF UsersOK
<1>9. \A t \in Slots : is_slot_valid(new, t) => new[PersonOf(t)] # Erased
  BY <1>1, <1>3, <1>4, <1>5 DEF UsersOK
<1>10. UsersOK(new)
  BY <1>2, <1>7, <1>8, <1>9 DEF UsersOK
<1>11. OneChange(page, new)
  BY <1>3, <1>5, <1>6 DEF OneChange
<1> QED BY <1>10, <1>11 DEF new

\* A page written from its buffer up to a cell: what is valid there is as in
\* the buffer, what is not is gone.
WrittenUpTo(page, buf, next) ==
  \A c \in DOMAIN page : page[c] = IF c < next THEN buf[c] ELSE Erased

LEMMA PartWritten ==
  ASSUME NEW page \in UserPage, NEW buf, UsersOK(buf), NEW next \in Nat,
         WrittenUpTo(page, buf, next)
  PROVE  /\ UsersOK(page)
         /\ \A s \in Slots : Entry(page, s) \in {Entry(buf, s), Erased}
         /\ next > 2 * MaxUsers => \A s \in Slots : Entry(page, s) = Entry(buf, s)
<1>1. \A c \in UserCells : page[c] = IF c < next THEN buf[c] ELSE Erased
  BY DEF WrittenUpTo, UserPage
<1>2. ASSUME NEW s \in Slots
      PROVE  /\ page[PersonOf(s)] \in {buf[PersonOf(s)], Erased}
             /\ page[FlagsOf(s)] \in {buf[FlagsOf(s)], Erased}
             /\ page[FlagsOf(s)] # Erased =>
                  page[FlagsOf(s)] = buf[FlagsOf(s)] /\ page[PersonOf(s)] = buf[PersonOf(s)]
             /\ next > 2 * MaxUsers =>
                  page[FlagsOf(s)] = buf[FlagsOf(s)] /\ page[PersonOf(s)] = buf[PersonOf(s)]
  BY <1>1, Cells, SizeAssumption DEF UserCells, PersonOf, FlagsOf, Slots
<1>3. ASSUME NEW s \in Slots
      PROVE  is_slot_valid(page, s) =>
               is_slot_valid(buf, s) /\ page[PersonOf(s)] = buf[PersonOf(s)] /\ Entry(page, s) = Entry(buf, s)
  BY <1>2 DEF is_slot_valid, Entry
<1>4. UsersOK(page)
  <2>1. \A s \in Slots : page[PersonOf(s)] \in Persons \cup {Erased}
    BY <1>2 DEF UsersOK
  <2>2. \A s \in Slots : page[FlagsOf(s)] \in (SUBSET Flags) \cup {Erased}
    BY <1>2 DEF UsersOK
  <2>3. \A s \in Slots : is_slot_valid(page, s) => page[PersonOf(s)] # Erased
    BY <1>3 DEF UsersOK
  <2> QED BY <2>1, <2>2, <2>3 DEF UsersOK
<1>5. \A s \in Slots : Entry(page, s) \in {Entry(buf, s), Erased}
  BY <1>3 DEF Entry
<1>6. next > 2 * MaxUsers => \A s \in Slots : Entry(page, s) = Entry(buf, s)
  BY <1>2 DEF is_slot_valid, Entry
<1> QED BY <1>4, <1>5, <1>6
--------------------------------------------------------------------------------
\* The header page, cell by cell.
HeaderCell == Halfwords \cup Passwords \cup {"magic", Erased}

HeaderOK(page) ==
  /\ page \in [HeaderCells -> HeaderCell]
  /\ page[Magic] \in {"magic", Erased}
  /\ page[Count] \in Halfwords \cup {Erased} /\ page[NextId] \in Halfwords \cup {Erased}
  /\ page[Master] \in Passwords \cup {Erased}

LEMMA HeaderNumbers ==
  /\ Magic \in HeaderCells /\ Count \in HeaderCells /\ NextId \in HeaderCells /\ Master \in HeaderCells
  /\ HeaderCells = 1 .. 4 /\ Magic = 1 /\ Count = 2 /\ NextId = 3 /\ Master = 4
BY DEF HeaderCells, Magic, Count, NextId, Master

LEMMA HeaderPageOK ==
  ASSUME NEW h \in Header
  PROVE  /\ HeaderOK(HeaderPage(h)) /\ DOMAIN HeaderPage(h) = HeaderCells
         /\ HeaderPage(h)[Magic] = "magic" /\ HeaderPage(h)[Count] = h.count
         /\ HeaderPage(h)[NextId] = h.next_id /\ HeaderPage(h)[Master] = h.master
<1>1. h.count \in Halfwords /\ h.next_id \in Halfwords /\ h.master \in Passwords \cup {Erased}
  BY DEF Header
<1>2. /\ HeaderPage(h)[Magic] = "magic" /\ HeaderPage(h)[Count] = h.count
      /\ HeaderPage(h)[NextId] = h.next_id /\ HeaderPage(h)[Master] = h.master
      /\ DOMAIN HeaderPage(h) = HeaderCells
  BY HeaderNumbers DEF HeaderPage
<1>3. HeaderPage(h) \in [HeaderCells -> HeaderCell]
  BY <1>1, HeaderNumbers DEF HeaderPage, HeaderCell
<1> QED BY <1>1, <1>2, <1>3 DEF HeaderOK

LEMMA HeaderPartOK ==
  ASSUME NEW page \in [HeaderCells -> HeaderCell], NEW buf, HeaderOK(buf), NEW next \in Nat,
         WrittenUpTo(page, buf, next)
  PROVE  HeaderOK(page)
<1>1. \A c \in HeaderCells : page[c] \in {buf[c], Erased}
  BY DEF WrittenUpTo
<1> QED BY <1>1, HeaderNumbers DEF HeaderOK

LEMMA HeaderReadOK ==
  ASSUME NEW page, HeaderOK(page)
  PROVE  HeaderRead(page) \in Header /\ HeaderRead(page).master = page[Master]
<1>1. Valued(page[Count]) \in Halfwords /\ Valued(page[NextId]) \in Halfwords
  BY ErasedAssumption, SizeAssumption DEF HeaderOK, Valued, Halfwords
<1> QED BY <1>1 DEF HeaderRead, Header, HeaderOK

LEMMA SomeHeaders ==
  /\ DefaultHeader \in Header /\ DefaultHeader.master = DefaultPassword
  /\ ZeroHeader \in Header
<1>1. 0 \in Halfwords /\ 1 \in Halfwords
  BY SizeAssumption, ErasedAssumption DEF Halfwords
<1> QED BY <1>1, DataAssumption DEF DefaultHeader, ZeroHeader, Header

\* Writing a cell of a page goes on where the page ends.
LEMMA ProgrammedUpTo ==
  ASSUME NEW page, NEW buf, NEW next \in DOMAIN page, DOMAIN page \subseteq Nat,
         page = [c \in DOMAIN page |-> page[c]], WrittenUpTo(page, buf, next)
  PROVE  WrittenUpTo(Programmed(page, buf, next), buf, next + 1)
<1>1. \A c \in DOMAIN page : Programmed(page, buf, next)[c] = IF c = next THEN buf[c] ELSE page[c]
  BY DEF Programmed
<1>2. DOMAIN Programmed(page, buf, next) = DOMAIN page
  BY DEF Programmed
<1>3. ASSUME NEW c \in DOMAIN page
      PROVE  Programmed(page, buf, next)[c] = IF c < next + 1 THEN buf[c] ELSE Erased
  <2>1. c \in Nat /\ next \in Nat
    OBVIOUS
  <2>2. CASE c = next
    BY <1>1, <2>1, <2>2
  <2>3. CASE c # next
    <3>1. c < next + 1 <=> c < next
      BY <2>1, <2>3
    <3> QED BY <1>1, <2>3, <3>1 DEF WrittenUpTo
  <2> QED BY <2>2, <2>3
<1> QED BY <1>2, <1>3 DEF WrittenUpTo

--------------------------------------------------------------------------------
FlashOK ==
  /\ flash \in [header : [HeaderCells -> HeaderCell], users : UserPage]
  /\ HeaderOK(flash.header) /\ UsersOK(flash.users)

RamOK ==
  /\ s_db_header \in Header
  /\ s_initialized \in BOOLEAN /\ whole \in BOOLEAN
  /\ job \in [op : Ops, page : {"none", "header", "users"}, next : Nat]

\* No page is being written: the database is off, or waits.
NoneOK == job.page = "none" => job.op \in {"none", "reset"} /\ job.next = 0

\* The header page is on its way from RAM.
HeaderJobOK ==
  job.page = "header" =>
    /\ job.op \in {"format", "add", "delete", "master"} /\ job.next \in 0 .. 5
    /\ s_page_buf = HeaderPage(s_db_header)
    /\ job.next > 0 => WrittenUpTo(flash.header, s_page_buf, job.next)

\* The user page is on its way from the buffer; before its erase the buffer
\* differs from it by one slot.
UserJobOK ==
  job.page = "users" /\ job.op # "format" =>
    /\ job.op \in {"add", "delete", "set"} /\ job.next \in 0 .. 2 * MaxUsers + 1
    /\ UsersOK(s_page_buf)
    /\ job.next = 0 => OneChange(flash.users, s_page_buf)
    /\ job.next > 0 => WrittenUpTo(flash.users, s_page_buf, job.next)
    /\ job.op = "add" => s_db_header.count < MaxUsers

\* A format starts without a header, and has written the default one when it
\* comes to the user page.
FormatOK ==
  job.op = "format" =>
    /\ ~ s_initialized /\ s_db_header = DefaultHeader
    /\ job.page \in {"header", "users"}
    /\ job.page = "header" /\ job.next = 0 => flash.header[Magic] = Erased
    /\ job.page = "users" => /\ job.next = 0
                             /\ flash.header[Magic] = "magic"
                             /\ flash.header[Master] = DefaultPassword

\* The other operations run only while the database is on.
OnOK == /\ job.op \in {"add", "delete", "set", "master"} => s_initialized
        /\ job.op = "reset" => ~ s_initialized

JobOK == NoneOK /\ HeaderJobOK /\ UserJobOK /\ FormatOK /\ OnOK

IInv == FlashOK /\ RamOK /\ JobOK

LEMMA IInvImplies == IInv => TypeOK /\ NoTornUser
<1> SUFFICES ASSUME IInv PROVE TypeOK /\ NoTornUser
  OBVIOUS
<1>1. NoTornUser
  BY DEF IInv, FlashOK, UsersOK, NoTornUser, ValidSlots
<1>2. job.next \in 0 .. 2 * MaxUsers + 4
  BY SizeAssumption DEF IInv, RamOK, JobOK, NoneOK, HeaderJobOK, UserJobOK, FormatOK
<1>3. DOMAIN flash = {"header", "users"}
  BY DEF IInv, FlashOK
<1>4. DOMAIN flash.header = HeaderCells /\ DOMAIN flash.users = UserCells
  BY DEF IInv, FlashOK, HeaderOK, UsersOK, UserPage
<1> QED BY <1>1, <1>2, <1>3, <1>4 DEF IInv, FlashOK, RamOK, TypeOK, HeaderOK, UsersOK

LEMMA InitIInv == Init => IInv
<1> SUFFICES ASSUME Init PROVE IInv
  OBVIOUS
<1>1. [c \in HeaderCells |-> Erased] \in [HeaderCells -> HeaderCell] /\ HeaderOK([c \in HeaderCells |-> Erased])
  BY HeaderNumbers DEF HeaderOK, HeaderCell
<1>2. [c \in UserCells |-> Erased] \in UserPage /\ UsersOK([c \in UserCells |-> Erased])
  <2>1. \A s \in Slots : [c \in UserCells |-> Erased][PersonOf(s)] = Erased
                         /\ [c \in UserCells |-> Erased][FlagsOf(s)] = Erased
    BY Cells
  <2> QED BY <2>1 DEF UsersOK, UserPage, is_slot_valid
<1>3. FlashOK
  BY <1>1, <1>2 DEF Init, FlashOK
<1>4. RamOK
  BY SomeHeaders DEF Init, RamOK, Off, Ops
<1>5. JobOK
  BY DEF Init, JobOK, NoneOK, HeaderJobOK, UserJobOK, FormatOK, OnOK, Off
<1> QED BY <1>3, <1>4, <1>5 DEF IInv
--------------------------------------------------------------------------------
\* An operation on a user begins.
LEMMA UserJobBegins ==
  ASSUME IInv, NEW op \in {"add", "delete", "set"}, NEW s \in Slots,
         NEW person \in Persons, NEW flags \in SUBSET Flags, WriteUser(op, s, person, flags),
         is_slot_valid(flash.users, s) /\ "VALID" \in flags => person.id = flash.users[PersonOf(s)].id,
         s_initialized, UNCHANGED <<flash, s_initialized>>,
         s_db_header' \in Header, op = "add" => s_db_header'.count < MaxUsers, whole' \in BOOLEAN
  PROVE  IInv'
<1>1. UsersOK(s_page_buf') /\ OneChange(flash.users, s_page_buf')
  BY ModifiedOK DEF WriteUser, IInv, FlashOK
<1>2. job' = [op |-> op, page |-> "users", next |-> 0]
  BY DEF WriteUser
<1>3. FlashOK'
  BY DEF IInv, FlashOK
<1>4. RamOK'
  BY <1>2 DEF IInv, RamOK, Ops
<1>5. flash' = flash
  OBVIOUS
<1>6. UserJobOK'
  BY <1>1, <1>2, <1>5, SizeAssumption DEF UserJobOK
<1>7. NoneOK' /\ HeaderJobOK' /\ FormatOK' /\ OnOK'
  BY <1>2 DEF NoneOK, HeaderJobOK, FormatOK, OnOK, IInv, RamOK
<1> QED BY <1>3, <1>4, <1>6, <1>7 DEF IInv, JobOK

\* The slot that is found for an id is a valid one.
LEMMA SlotFound ==
  ASSUME IInv, NEW id, SlotsOf(id) # {}
  PROVE  LET s == First(SlotsOf(id))
         IN  /\ s \in Slots /\ is_slot_valid(flash.users, s)
             /\ flash.users[PersonOf(s)] \in Persons
             /\ flash.users[FlagsOf(s)] \in SUBSET Flags
<1> DEFINE s == First(SlotsOf(id))
<1>1. SlotsOf(id) \in SUBSET Slots
  BY DEF SlotsOf, ValidSlots
<1>2. s \in SlotsOf(id)
  BY <1>1, FirstIn
<1>3. s \in Slots /\ is_slot_valid(flash.users, s)
  BY <1>2 DEF SlotsOf, ValidSlots
<1> HIDE DEF s
<1>4. flash.users[PersonOf(s)] \in Persons
  BY <1>3 DEF IInv, FlashOK, UsersOK
<1>5. flash.users[FlagsOf(s)] \in SUBSET Flags
  BY <1>3 DEF IInv, FlashOK, UsersOK, is_slot_valid
<1> QED BY <1>3, <1>4, <1>5 DEF s

LEMMA AddIInv ==
  ASSUME IInv, NEW card \in Cards \cup {NoCard}, user_db_add_user(card)
  PROVE  IInv'
<1> DEFINE s == First(find_empty_slot)
           person == [id |-> s_db_header.next_id, card |-> card]
           flags == {"VALID"} \cup (IF card = NoCard THEN {} ELSE {"RFID_EN"})
<1>1. s \in Slots /\ s \notin ValidSlots(flash.users)
  BY FirstIn DEF user_db_add_user, find_empty_slot
<1>2. ~ is_slot_valid(flash.users, s)
  BY <1>1 DEF ValidSlots
<1>3. /\ s_db_header.count \in Halfwords /\ s_db_header.next_id \in Halfwords
      /\ s_db_header.master \in Passwords \cup {Erased}
  BY DEF IInv, RamOK, Header
<1>4. s_db_header.next_id + 1 \in Halfwords
  BY <1>3, SizeAssumption DEF user_db_add_user, Halfwords
<1>5. s_db_header' \in Header /\ s_db_header'.count < MaxUsers
  BY <1>3, <1>4 DEF user_db_add_user, IInv, RamOK, Header
<1>6. person \in Persons
  BY <1>3 DEF Persons
<1>7. flags \in SUBSET Flags
  BY DEF Flags
<1>8. WriteUser("add", s, person, flags) /\ s_initialized /\ UNCHANGED <<flash, s_initialized, whole>>
  BY DEF user_db_add_user, Ready
<1>9. whole' \in BOOLEAN
  BY <1>8 DEF IInv, RamOK
<1> HIDE DEF s, person, flags
<1> QED BY <1>1, <1>2, <1>5, <1>6, <1>7, <1>8, <1>9, UserJobBegins

\* Operations on a user that is there.
LEMMA ChangeIInv ==
  ASSUME IInv, NEW id,
         \/ user_db_delete_user(id)
         \/ \E card \in Cards : user_db_set_rfid(id, card)
         \/ user_db_set_password(id)
         \/ \E flag \in Updates : user_db_update_user(id, flag)
  PROVE  IInv'
<1> DEFINE s == First(SlotsOf(id))
           person == flash.users[PersonOf(s)]
           flags == flash.users[FlagsOf(s)]
<1>1. SlotsOf(id) # {} /\ s_initialized
  BY DEF user_db_delete_user, user_db_set_rfid, user_db_set_password, user_db_update_user, Ready
<1>2. s \in Slots /\ is_slot_valid(flash.users, s) /\ person \in Persons /\ flags \in SUBSET Flags
  BY <1>1, SlotFound
<1>3. UNCHANGED <<flash, s_initialized, s_db_header>> /\ whole' \in BOOLEAN
  BY DEF user_db_delete_user, user_db_set_rfid, user_db_set_password, user_db_update_user, IInv, RamOK
<1>4. s_db_header' \in Header
  BY <1>3 DEF IInv, RamOK
<1>5. CASE user_db_delete_user(id)
  <2>1. WriteUser("delete", s, person, flags \ {"VALID"})
    BY <1>5 DEF user_db_delete_user
  <2>2. flags \ {"VALID"} \in SUBSET Flags
    BY <1>2
  <2> HIDE DEF s, person, flags
  <2> QED BY <1>1, <1>2, <1>3, <1>4, <2>1, <2>2, UserJobBegins
<1>6. ASSUME NEW card \in Cards, user_db_set_rfid(id, card) PROVE IInv'
  <2>1. WriteUser("set", s, [person EXCEPT !.card = card], flags \cup {"RFID_EN"})
    BY <1>6 DEF user_db_set_rfid
  <2>2. [person EXCEPT !.card = card] \in Persons /\ [person EXCEPT !.card = card].id = person.id
    BY <1>2, <1>6 DEF Persons
  <2>3. flags \cup {"RFID_EN"} \in SUBSET Flags
    BY <1>2 DEF Flags
  <2>4. person.id = flash.users[PersonOf(s)].id
    OBVIOUS
  <2> HIDE DEF s, person, flags
  <2> QED BY <1>1, <1>2, <1>3, <1>4, <2>1, <2>2, <2>3, <2>4, UserJobBegins
<1>7. CASE user_db_set_password(id)
  <2>1. WriteUser("set", s, person, flags) /\ person.id = flash.users[PersonOf(s)].id
    BY <1>7 DEF user_db_set_password
  <2> HIDE DEF s, person, flags
  <2> QED BY <1>1, <1>2, <1>3, <1>4, <2>1, UserJobBegins
<1>8. ASSUME NEW flag \in Updates, user_db_update_user(id, flag) PROVE IInv'
  <2> DEFINE new == IF flag \in flags THEN flags \ {flag} ELSE flags \cup {flag}
  <2>1. WriteUser("set", s, person, new) /\ person.id = flash.users[PersonOf(s)].id
    BY <1>8 DEF user_db_update_user
  <2>2. new \in SUBSET Flags
    BY <1>2, <1>8, FlagAssumption DEF Flags
  <2> HIDE DEF s, person, flags, new
  <2> QED BY <1>1, <1>2, <1>3, <1>4, <2>1, <2>2, UserJobBegins
<1> QED BY <1>5, <1>6, <1>7, <1>8

\* The writing of a header begins.
LEMMA HeaderJobBegins ==
  ASSUME NEW op \in {"format", "add", "delete", "master"}, s_db_header' \in Header,
         WriteHeader(op, s_db_header'), FlashOK', s_initialized' \in BOOLEAN, whole' \in BOOLEAN,
         op = "format" => /\ ~ s_initialized' /\ s_db_header' = DefaultHeader
                          /\ flash'.header[Magic] = Erased,
         op # "format" => s_initialized'
  PROVE  IInv'
<1>1. job' = [op |-> op, page |-> "header", next |-> 0] /\ s_page_buf' = HeaderPage(s_db_header')
  BY DEF WriteHeader
<1>2. RamOK'
  BY <1>1 DEF RamOK, Ops
<1>3. JobOK'
  BY <1>1 DEF JobOK, NoneOK, HeaderJobOK, UserJobOK, FormatOK, OnOK
<1> QED BY <1>2, <1>3 DEF IInv

LEMMA MasterIInv ==
  ASSUME IInv, NEW new \in Passwords, user_db_change_master_password(new)
  PROVE  IInv'
<1>1. s_db_header' = [s_db_header EXCEPT !.master = new] /\ s_db_header' \in Header
  BY DEF user_db_change_master_password, IInv, RamOK, Header
<1>2. WriteHeader("master", s_db_header') /\ UNCHANGED <<flash, s_initialized, whole>> /\ s_initialized
  BY <1>1 DEF user_db_change_master_password, Ready
<1>3. FlashOK' /\ whole' \in BOOLEAN
  BY <1>2 DEF IInv, FlashOK, RamOK
<1> QED BY <1>1, <1>2, <1>3, HeaderJobBegins

LEMMA OperationIInv == IInv /\ Operation => IInv'
BY AddIInv, ChangeIInv, MasterIInv DEF Operation, AddUser

\* The start, and the end of power.
LEMMA Waits ==
  ASSUME FlashOK', s_db_header' \in Header, s_initialized' \in BOOLEAN, whole' \in BOOLEAN,
         job' = NoJob \/ (job' = Off /\ ~ s_initialized')
  PROVE  IInv'
<1>1. RamOK' /\ JobOK'
  BY DEF RamOK, JobOK, NoneOK, HeaderJobOK, UserJobOK, FormatOK, OnOK, NoJob, Off, Ops
<1> QED BY <1>1 DEF IInv

LEMMA BootIInv == IInv /\ (BootIntact \/ BootFormat \/ PowerLoss) => IInv'
<1> SUFFICES ASSUME IInv, BootIntact \/ BootFormat \/ PowerLoss PROVE IInv'
  OBVIOUS
<1>1. flash' = flash /\ FlashOK'
  BY DEF BootIntact, BootFormat, PowerLoss, IInv, FlashOK
<1>2. whole' \in BOOLEAN
  BY DEF BootIntact, BootFormat, PowerLoss, IInv, RamOK
<1>3. CASE BootIntact
  BY <1>1, <1>2, <1>3, HeaderReadOK, Waits DEF BootIntact, IInv, FlashOK
<1>4. CASE BootFormat
  BY <1>1, <1>2, <1>4, SomeHeaders, HeaderJobBegins
  DEF BootFormat, IInv, JobOK, OnOK, RamOK
<1>5. CASE PowerLoss
  BY <1>1, <1>2, <1>5, SomeHeaders, Waits DEF PowerLoss
<1> QED BY <1>3, <1>4, <1>5
--------------------------------------------------------------------------------
\* Writes to one page.
LEMMA HeaderWrite ==
  ASSUME IInv, NEW page, HeaderOK(page), flash' = [flash EXCEPT !["header"] = page]
  PROVE  FlashOK' /\ flash'.header = page /\ flash'.users = flash.users
BY DEF IInv, FlashOK, HeaderOK

LEMMA UsersWrite ==
  ASSUME IInv, NEW page, UsersOK(page), flash' = [flash EXCEPT !["users"] = page]
  PROVE  FlashOK' /\ flash'.users = page /\ flash'.header = flash.header
BY DEF IInv, FlashOK, UsersOK

\* A page is written while the operation has one, of which the length is known.
LEMMA WritingJob ==
  ASSUME IInv, Writing
  PROVE  \/ /\ job.page = "header"
            /\ job.op \in {"format", "add", "delete", "master"} /\ job.next \in 0 .. 5
            /\ s_page_buf = HeaderPage(s_db_header) /\ HeaderOK(s_page_buf)
            /\ DOMAIN s_page_buf = HeaderCells /\ HeaderCells = 1 .. 4
         \/ /\ job.page = "users" /\ job.op # "format"
            /\ job.op \in {"add", "delete", "set"} /\ job.next \in 0 .. 2 * MaxUsers + 1
            /\ UsersOK(s_page_buf)
            /\ DOMAIN s_page_buf = UserCells /\ UserCells = 1 .. 2 * MaxUsers
<1>1. CASE job.page = "header"
  <2>1. HeaderJobOK /\ s_db_header \in Header
    BY DEF IInv, JobOK, RamOK
  <2>2. s_page_buf = HeaderPage(s_db_header)
    BY <1>1, <2>1 DEF HeaderJobOK
  <2>3. HeaderOK(s_page_buf) /\ DOMAIN s_page_buf = HeaderCells
    BY <2>1, <2>2, HeaderPageOK
  <2> QED BY <1>1, <2>1, <2>2, <2>3, HeaderNumbers DEF HeaderJobOK
<1>2. CASE job.page = "users"
  <2>1. UserJobOK
    BY DEF IInv, JobOK
  <2>2. job.op # "format"
    BY <1>2 DEF Writing, Wiping
  <2>3. UsersOK(s_page_buf)
    BY <1>2, <2>1, <2>2 DEF UserJobOK
  <2>4. DOMAIN s_page_buf = UserCells
    BY <2>3 DEF UsersOK, UserPage
  <2> QED BY <1>2, <2>1, <2>2, <2>3, <2>4 DEF UserJobOK, UserCells
<1> QED BY <1>1, <1>2 DEF Writing

\* What a step of a write leaves: the RAM and the buffer.
LEMMA StepOfWrite ==
  ASSUME IInv, Writing, UNCHANGED <<s_db_header, s_initialized, s_page_buf, whole>>,
         job.next + 1 \in 1 .. (IF job.page = "header" THEN 5 ELSE 2 * MaxUsers + 1),
         job' = [job EXCEPT !.next = job.next + 1],
         FlashOK',
         job.page = "header" => WrittenUpTo(flash'.header, s_page_buf, job.next + 1),
         job.page = "users" => WrittenUpTo(flash'.users, s_page_buf, job.next + 1)
  PROVE  IInv'
<1>1. job'.op = job.op /\ job'.page = job.page /\ job'.next = job.next + 1 /\ job.next \in Nat
  BY DEF IInv, RamOK
<1>2. RamOK'
  BY <1>1 DEF IInv, RamOK
<1>3. job.page \in {"header", "users"} /\ (job.page = "users" => job.op # "format")
  BY DEF Writing, Wiping
<1>4. NoneOK' /\ OnOK'
  BY <1>1, <1>3 DEF NoneOK, OnOK, IInv, JobOK
<1>5. HeaderJobOK'
  BY <1>1, <1>3 DEF HeaderJobOK, IInv, JobOK
<1>6. UserJobOK'
  BY <1>1, <1>3 DEF UserJobOK, IInv, JobOK
<1>7. FormatOK'
  BY <1>1, <1>3 DEF FormatOK, IInv, JobOK
<1> QED BY <1>2, <1>4, <1>5, <1>6, <1>7 DEF IInv, JobOK

LEMMA ErasePageIInv == IInv /\ ErasePage => IInv'
<1> SUFFICES ASSUME IInv, ErasePage PROVE IInv'
  OBVIOUS
<1>1. Writing /\ job.next = 0 /\ job' = [job EXCEPT !.next = job.next + 1]
  BY DEF ErasePage
<1>2. UNCHANGED <<s_db_header, s_initialized, s_page_buf, whole>>
  BY DEF ErasePage
<1>3. CASE job.page = "header"
  <2> DEFINE page == ErasedPage(flash.header)
  <2>1. flash' = [flash EXCEPT !["header"] = page]
    BY <1>3 DEF ErasePage
  <2>2. DOMAIN flash.header = HeaderCells
    BY DEF IInv, FlashOK, HeaderOK
  <2>3. DOMAIN page = HeaderCells /\ \A c \in HeaderCells : page[c] = Erased
    BY <2>2 DEF ErasedPage
  <2>4. page \in [HeaderCells -> HeaderCell]
    BY <2>2 DEF ErasedPage, HeaderCell
  <2>5. HeaderOK(page)
    BY <2>3, <2>4, HeaderNumbers DEF HeaderOK
  <2>6. WrittenUpTo(page, s_page_buf, 1)
    BY <2>3, HeaderNumbers DEF WrittenUpTo
  <2> HIDE DEF page
  <2>7. FlashOK' /\ flash'.header = page
    BY <2>1, <2>5, HeaderWrite
  <2> QED BY <1>1, <1>2, <1>3, <2>6, <2>7, StepOfWrite
<1>4. CASE job.page = "users"
  <2> DEFINE page == ErasedPage(flash.users)
  <2>1. flash' = [flash EXCEPT !["users"] = page]
    BY <1>4 DEF ErasePage
  <2>2. UsersOK(page) /\ \A c \in UserCells : page[c] = Erased
    BY ErasedUsersOK DEF IInv, FlashOK
  <2>3. WrittenUpTo(page, s_page_buf, 1)
    <3>1. DOMAIN page = UserCells
      BY <2>2 DEF UsersOK, UserPage
    <3> HIDE DEF page
    <3> QED BY <2>2, <3>1 DEF WrittenUpTo, UserCells
  <2> HIDE DEF page
  <2>4. FlashOK' /\ flash'.users = page
    BY <2>1, <2>2, UsersWrite
  <2> QED BY <1>1, <1>2, <1>4, <2>3, <2>4, StepOfWrite, SizeAssumption
<1> QED BY <1>1, <1>3, <1>4 DEF Writing

\* Programming a cell, whether or not it reports an error.
LEMMA ProgramFlash ==
  ASSUME IInv, Writing, job.next \in DOMAIN s_page_buf,
         flash' = [flash EXCEPT ![job.page] = Programmed(flash[job.page], s_page_buf, job.next)]
  PROVE  /\ FlashOK'
         /\ job.page = "header" => /\ WrittenUpTo(flash'.header, s_page_buf, job.next + 1)
                                   /\ flash'.users = flash.users
         /\ job.page = "users" => /\ WrittenUpTo(flash'.users, s_page_buf, job.next + 1)
                                  /\ flash'.header = flash.header
<1>1. CASE job.page = "header"
  <2> DEFINE page == Programmed(flash.header, s_page_buf, job.next)
  <2>1. flash' = [flash EXCEPT !["header"] = page]
    BY <1>1
  <2>2. HeaderOK(s_page_buf) /\ job.next \in HeaderCells /\ job.next > 0
        /\ HeaderCells \subseteq Nat /\ job.next + 1 \in Nat
    BY <1>1, WritingJob
  <2>3. flash.header \in [HeaderCells -> HeaderCell]
    BY DEF IInv, FlashOK
  <2>4. WrittenUpTo(flash.header, s_page_buf, job.next)
    BY <1>1, <2>2 DEF IInv, JobOK, HeaderJobOK
  <2>5. WrittenUpTo(page, s_page_buf, job.next + 1)
    BY <2>2, <2>3, <2>4, ProgrammedUpTo
  <2>6. page \in [HeaderCells -> HeaderCell]
    BY <2>2, <2>3 DEF Programmed, HeaderOK
  <2>7. HeaderOK(page)
    BY <2>2, <2>5, <2>6, HeaderPartOK
  <2> HIDE DEF page
  <2> QED BY <1>1, <2>1, <2>5, <2>7, HeaderWrite
<1>2. CASE job.page = "users"
  <2> DEFINE page == Programmed(flash.users, s_page_buf, job.next)
  <2>1. flash' = [flash EXCEPT !["users"] = page]
    BY <1>2
  <2>2. UsersOK(s_page_buf) /\ job.next \in UserCells /\ job.next > 0
        /\ UserCells \subseteq Nat /\ job.next + 1 \in Nat
    BY <1>2, WritingJob
  <2>3. flash.users \in UserPage /\ job.op # "format"
    BY <1>2, WritingJob DEF IInv, FlashOK
  <2>4. WrittenUpTo(flash.users, s_page_buf, job.next)
    BY <1>2, <2>2, <2>3 DEF IInv, JobOK, UserJobOK
  <2>5. WrittenUpTo(page, s_page_buf, job.next + 1)
    BY <2>2, <2>3, <2>4, ProgrammedUpTo DEF UserPage
  <2>6. page \in UserPage
    BY <2>2, <2>3 DEF Programmed, UsersOK, UserPage
  <2>7. UsersOK(page)
    BY <2>2, <2>5, <2>6, PartWritten
  <2> HIDE DEF page
  <2> QED BY <1>2, <2>1, <2>5, <2>7, UsersWrite
<1> QED BY <1>1, <1>2 DEF Writing

LEMMA ProgramWordIInv == IInv /\ ProgramWord => IInv'
<1> SUFFICES ASSUME IInv, ProgramWord PROVE IInv'
  OBVIOUS
<1>1. Writing /\ job.next \in DOMAIN s_page_buf /\ job' = [job EXCEPT !.next = job.next + 1]
  BY DEF ProgramWord
<1>2. /\ UNCHANGED <<s_db_header, s_initialized, s_page_buf, whole>>
      /\ flash' = [flash EXCEPT ![job.page] = Programmed(flash[job.page], s_page_buf, job.next)]
  BY DEF ProgramWord
<1>3. job.next + 1 \in 1 .. (IF job.page = "header" THEN 5 ELSE 2 * MaxUsers + 1)
  BY <1>1, WritingJob, SizeAssumption
<1> QED BY <1>1, <1>2, <1>3, ProgramFlash, StepOfWrite

LEMMA FlashFailsIInv == IInv /\ FlashFails => IInv'
<1> SUFFICES ASSUME IInv, FlashFails PROVE IInv'
  OBVIOUS
<1>1. FlashOK'
  <2>1. CASE UNCHANGED flash
    BY <2>1 DEF IInv, FlashOK
  <2>2. CASE flash' = [flash EXCEPT ![job.page] = flash[job.page]]
    <3>1. flash' = flash
      BY <2>2 DEF IInv, FlashOK
    <3> QED BY <3>1 DEF IInv, FlashOK
  <2>3. CASE /\ job.next \in DOMAIN s_page_buf
             /\ flash' = [flash EXCEPT ![job.page] = Programmed(flash[job.page], s_page_buf, job.next)]
    BY <2>3, ProgramFlash DEF FlashFails
  <2> QED BY <2>1, <2>2, <2>3 DEF FlashFails, ProgramFailed
<1>2. s_db_header' \in Header /\ s_initialized' \in BOOLEAN /\ whole' \in BOOLEAN /\ job' = NoJob
  BY DEF FlashFails, IInv, RamOK
<1> QED BY <1>1, <1>2, Waits

\* Counting keeps the width of the counter.
LEMMA CountedType ==
  ASSUME IInv, job.page = "users", job.op \in {"add", "delete", "set"}
  PROVE  Counted(job.op, s_db_header.count) \in Halfwords
<1>1. s_db_header.count \in Halfwords
  BY DEF IInv, RamOK, Header
<1>2. job.op = "add" => s_db_header.count < MaxUsers
  BY DEF IInv, JobOK, UserJobOK
<1>3. (s_db_header.count + Modulus - 1) % Modulus \in Halfwords
  BY <1>1, SizeAssumption, ErasedAssumption DEF Halfwords
<1>4. job.op = "add" => s_db_header.count + 1 \in Halfwords
  BY <1>1, <1>2, SizeAssumption, ErasedAssumption DEF Halfwords
<1> QED BY <1>1, <1>3, <1>4 DEF Counted

LEMMA UserWrittenIInv == IInv /\ UserWritten => IInv'
<1> SUFFICES ASSUME IInv, UserWritten PROVE IInv'
  OBVIOUS
<1>1. job.op \in {"add", "delete", "set"} /\ job.page = "users"
  BY WritingJob DEF UserWritten
<1>2. s_db_header' = [s_db_header EXCEPT !.count = Counted(job.op, s_db_header.count)]
  BY DEF UserWritten
<1>3. s_db_header' \in Header
  BY <1>1, <1>2, CountedType DEF IInv, RamOK, Header
<1>4. FlashOK' /\ s_initialized' = s_initialized /\ s_initialized' \in BOOLEAN /\ whole' \in BOOLEAN
  BY DEF UserWritten, IInv, FlashOK, RamOK
<1>5. CASE job.op \in {"add", "delete"}
  <2>1. WriteHeader(job.op, s_db_header')
    BY <1>2, <1>5 DEF UserWritten
  <2>2. s_initialized'
    BY <1>4, <1>5 DEF IInv, JobOK, OnOK
  <2> QED BY <1>3, <1>4, <1>5, <2>1, <2>2, HeaderJobBegins
<1>6. CASE job.op \notin {"add", "delete"}
  BY <1>3, <1>4, <1>6, Waits DEF UserWritten
<1> QED BY <1>5, <1>6

\* A page that has been written to its end is its buffer.
AtEnd(page) == Writing /\ job.page = page /\ job.next \notin DOMAIN s_page_buf \cup {0}

LEMMA HeaderWhole ==
  ASSUME IInv, AtEnd("header")
  PROVE  /\ flash.header[Magic] = "magic" /\ flash.header[Master] = s_db_header.master
         /\ flash.header[Count] = s_db_header.count /\ flash.header[NextId] = s_db_header.next_id
<1>1. Writing /\ job.page = "header" /\ job.next \notin DOMAIN s_page_buf \cup {0}
  BY DEF AtEnd
<1>2. job.next = 5 /\ s_page_buf = HeaderPage(s_db_header)
  BY <1>1, WritingJob
<1>3. WrittenUpTo(flash.header, s_page_buf, 5)
  BY <1>1, <1>2 DEF IInv, JobOK, HeaderJobOK
<1>4. DOMAIN flash.header = HeaderCells
  BY DEF IInv, FlashOK, HeaderOK
<1>5. \A c \in HeaderCells : flash.header[c] = HeaderPage(s_db_header)[c]
  BY <1>2, <1>3, <1>4, HeaderNumbers DEF WrittenUpTo
<1> QED BY <1>5, HeaderPageOK, HeaderNumbers DEF IInv, RamOK

LEMMA HeaderWrittenIInv == IInv /\ HeaderWritten => IInv'
<1> SUFFICES ASSUME IInv, HeaderWritten PROVE IInv'
  OBVIOUS
<1>1. /\ UNCHANGED <<s_db_header, s_initialized, flash, whole>>
      /\ job' = IF job.op = "format" THEN [op |-> "format", page |-> "users", next |-> 0] ELSE NoJob
  BY DEF HeaderWritten
<1>2. FlashOK' /\ s_db_header' \in Header /\ s_initialized' \in BOOLEAN /\ whole' \in BOOLEAN
  BY <1>1 DEF IInv, FlashOK, RamOK
<1>3. CASE job.op # "format"
  BY <1>1, <1>2, <1>3, Waits
<1>4. CASE job.op = "format"
  <2>1. job' = [op |-> "format", page |-> "users", next |-> 0]
    BY <1>1, <1>4
  <2>2. RamOK'
    BY <1>2, <2>1 DEF RamOK, Ops
  <2>3. s_db_header = DefaultHeader /\ ~ s_initialized
    BY <1>4 DEF IInv, JobOK, FormatOK
  <2>4. flash.header[Magic] = "magic" /\ flash.header[Master] = DefaultPassword
    BY <2>3, HeaderWhole, SomeHeaders DEF HeaderWritten, AtEnd
  <2>5. FormatOK'
    BY <1>1, <2>1, <2>3, <2>4 DEF FormatOK
  <2>6. NoneOK' /\ HeaderJobOK' /\ UserJobOK' /\ OnOK'
    BY <2>1 DEF NoneOK, HeaderJobOK, UserJobOK, OnOK
  <2> QED BY <1>2, <2>2, <2>5, <2>6 DEF IInv, JobOK
<1> QED BY <1>3, <1>4

LEMMA WipedIInv == IInv /\ Wiped => IInv'
<1> SUFFICES ASSUME IInv, Wiped PROVE IInv'
  OBVIOUS
<1>1. FlashOK'
  <2>1. CASE UNCHANGED flash
    BY <2>1 DEF IInv, FlashOK
  <2>2. CASE flash' = [flash EXCEPT !.users = ErasedPage(@)]
    <3>1. UsersOK(ErasedPage(flash.users))
      BY ErasedUsersOK DEF IInv, FlashOK
    <3> QED BY <2>2, <3>1, UsersWrite
  <2> QED BY <2>1, <2>2 DEF Wiped
<1>2. s_db_header' \in Header /\ s_initialized' \in BOOLEAN /\ job' = NoJob
  BY DEF Wiped, IInv, RamOK
<1>3. whole' \in BOOLEAN
  BY DEF Wiped
<1> QED BY <1>1, <1>2, <1>3, Waits

LEMMA NextIInv == IInv /\ [Next]_vars => IInv'
<1> SUFFICES ASSUME IInv, [Next]_vars PROVE IInv'
  OBVIOUS
<1>1. CASE Next
  BY <1>1, BootIInv, OperationIInv, ErasePageIInv, ProgramWordIInv, UserWrittenIInv,
     HeaderWrittenIInv, WipedIInv, FlashFailsIInv DEF Next, Work
<1>2. CASE UNCHANGED vars
  BY <1>2 DEF vars, IInv, FlashOK, RamOK, JobOK, NoneOK, HeaderJobOK, UserJobOK, FormatOK, OnOK
<1> QED BY <1>1, <1>2

LEMMA IInvInvariant == Spec => []IInv
BY InitIInv, NextIInv, PTL DEF Spec

\* Every variable keeps its type: the counters their width, each cell its kind.
THEOREM TypeCorrect == Spec => []TypeOK
BY IInvInvariant, IInvImplies, PTL

\* No interruption leaves half an entry that counts as a user (flash_write_safe).
THEOREM NoTornUserCorrect == Spec => []NoTornUser
BY IInvInvariant, IInvImplies, PTL
--------------------------------------------------------------------------------
\* The refinement.  What the store shows depends on the page that is seen, the
\* header in RAM and in flash, and on whether a page is being rewritten.
StoreStep == [Store!Next]_(Store!vars)

LEMMA SameStore ==
  ASSUME \A s \in Slots : Entry(Seen, s)' = Entry(Seen, s)
  PROVE  Stored' = Stored
BY DEF Stored

LEMMA EntryType ==
  ASSUME NEW page, UsersOK(page), NEW s \in Slots
  PROVE  /\ Entry(page, s) \in [id : Halfwords, card : Cards \cup {NoCard}, flags : SUBSET Flags] \cup {Erased}
         /\ ~ is_slot_valid(page, s) => Entry(page, s) = Erased
         /\ is_slot_valid(page, s) => Entry(page, s).id = page[PersonOf(s)].id
<1>1. CASE is_slot_valid(page, s)
  <2>1. page[PersonOf(s)] \in Persons /\ page[FlagsOf(s)] \in SUBSET Flags
    BY <1>1 DEF UsersOK, is_slot_valid
  <2> QED BY <1>1, <2>1 DEF Entry, Persons
<1>2. CASE ~ is_slot_valid(page, s)
  BY <1>2 DEF Entry
<1> QED BY <1>1, <1>2

LEMMA SeenOK == IInv => UsersOK(Seen)
<1> SUFFICES ASSUME IInv PROVE UsersOK(Seen)
  OBVIOUS
<1>1. CASE Exposed /\ job.page = "users"
  BY <1>1, WritingJob DEF Seen, Exposed
<1>2. CASE ~ (Exposed /\ job.page = "users")
  BY <1>2 DEF Seen, IInv, FlashOK
<1> QED BY <1>1, <1>2

LEMMA InEffectOn ==
  ASSUME IInv
  PROVE  /\ s_initialized => InEffect = s_db_header.master /\ InEffect # "off"
         /\ ~ s_initialized => InEffect = "off"
         /\ Saved = "gone" <=> flash.header[Magic] = Erased
         /\ flash.header[Magic] # Erased => Saved = flash.header[Master]
BY DataAssumption DEF InEffect, Saved, IInv, RamOK, FlashOK, HeaderOK, Header

LEMMA InitRefines == Init => Store!Init
<1> SUFFICES ASSUME Init PROVE Store!Init
  OBVIOUS
<1>1. ~ Exposed /\ ~ Rewriting
  BY DEF Init, Exposed, Rewriting, Writing, Off
<1>2. \A s \in Slots : Entry(Seen, s) = Erased
  BY <1>1, Cells DEF Init, Seen, Entry, is_slot_valid
<1>3. Stored = [s \in Slots |-> Erased]
  BY <1>2 DEF Stored
<1>4. InEffect = "off" /\ Saved = "gone"
  BY HeaderNumbers DEF Init, InEffect, Saved
<1> QED BY <1>1, <1>3, <1>4 DEF Store!Init

\* An operation begins: nothing is exposed before or after, and only a change of
\* the master password is in effect at once.
LEMMA BeginsHidden ==
  ASSUME IInv, Idle, UNCHANGED flash, job'.next = 0, job'.op # "format"
  PROVE  /\ ~ Rewriting /\ ~ Rewriting' /\ Stored' = Stored /\ Saved' = Saved
         /\ Rewriting' = Rewriting
<1>1. ~ Exposed /\ ~ Exposed' /\ ~ Rewriting /\ ~ Rewriting'
  BY DEF Idle, NoJob, Exposed, Rewriting
<1>2. Seen' = Seen
  BY <1>1 DEF Seen
<1>3. Rewriting' = Rewriting
  BY <1>1 DEF Rewriting
<1> QED BY <1>1, <1>2, <1>3 DEF Stored, Saved

LEMMA OperationRefines == IInv /\ IInv' /\ Operation => StoreStep
<1> SUFFICES ASSUME IInv, IInv', Operation PROVE StoreStep
  OBVIOUS
<1> DEFINE Begun == /\ Idle /\ UNCHANGED flash /\ job'.next = 0 /\ job'.op # "format"
                    /\ s_initialized /\ s_initialized'
<1>1. Begun
  <2>1. ASSUME NEW card, user_db_add_user(card) PROVE Begun
    BY <2>1 DEF user_db_add_user, WriteUser, Ready
  <2>2. ASSUME NEW id, user_db_delete_user(id) PROVE Begun
    BY <2>2 DEF user_db_delete_user, WriteUser, Ready
  <2>3. ASSUME NEW id, NEW card, user_db_set_rfid(id, card) PROVE Begun
    BY <2>3 DEF user_db_set_rfid, WriteUser, Ready
  <2>4. ASSUME NEW id, user_db_set_password(id) PROVE Begun
    BY <2>4 DEF user_db_set_password, WriteUser, Ready
  <2>5. ASSUME NEW id, NEW flag, user_db_update_user(id, flag) PROVE Begun
    BY <2>5 DEF user_db_update_user, WriteUser, Ready
  <2>6. ASSUME NEW new, user_db_change_master_password(new) PROVE Begun
    BY <2>6 DEF user_db_change_master_password, WriteHeader, Ready
  <2> HIDE DEF Begun
  <2> QED BY <2>1, <2>2, <2>3, <2>4, <2>5, <2>6 DEF Operation, AddUser
<1>2. ~ Rewriting /\ ~ Rewriting' /\ Stored' = Stored /\ Saved' = Saved /\ Rewriting' = Rewriting
  BY <1>1, BeginsHidden
<1>3. InEffect = s_db_header.master /\ InEffect # "off" /\ InEffect' = s_db_header'.master
  BY <1>1, InEffectOn DEF InEffect
<1>4. CASE \E new \in Passwords : user_db_change_master_password(new)
  <2>1. InEffect' \in Passwords
    BY <1>3, <1>4 DEF user_db_change_master_password, IInv, RamOK, Header
  <2> QED BY <1>2, <1>3, <2>1 DEF StoreStep, Store!Next, Store!ChangeMaster
<1>5. CASE s_db_header'.master = s_db_header.master
  BY <1>2, <1>3, <1>5 DEF StoreStep, Store!vars
<1>6. \/ \E new \in Passwords : user_db_change_master_password(new)
      \/ s_db_header'.master = s_db_header.master
  BY DEF Operation, AddUser, user_db_add_user, user_db_delete_user, user_db_set_rfid,
         user_db_set_password, user_db_update_user, IInv, RamOK, Header
<1> QED BY <1>4, <1>5, <1>6

LEMMA BootRefines == IInv /\ IInv' /\ (BootIntact \/ BootFormat) => StoreStep
<1> SUFFICES ASSUME IInv, IInv', BootIntact \/ BootFormat PROVE StoreStep
  OBVIOUS
<1>1. job.op = "reset" /\ ~ s_initialized /\ flash' = flash /\ job'.next = 0
  BY DEF BootIntact, BootFormat, IInv, JobOK, OnOK, WriteHeader, NoJob
<1>2. ~ Exposed /\ ~ Exposed' /\ ~ Rewriting
  <2>1. job.page \notin {"header", "users"}
    BY <1>1 DEF IInv, JobOK, HeaderJobOK, UserJobOK
  <2> QED BY <1>1, <2>1 DEF Exposed, Rewriting, Writing
<1>3. Stored' = Stored /\ Saved' = Saved
  BY <1>1, <1>2 DEF Stored, Seen, Saved
<1>4. InEffect = "off"
  BY <1>1 DEF InEffect
<1>5. CASE BootIntact
  <2>1. s_initialized' /\ s_db_header'.master = flash.header[Master] /\ job'.op # "format"
    BY <1>5, HeaderReadOK DEF BootIntact, NoJob, IInv, FlashOK
  <2>2. InEffect' = Saved /\ Saved # "gone"
    BY <1>5, <2>1, InEffectOn DEF InEffect, BootIntact
  <2>3. Rewriting' = Rewriting
    BY <1>2, <2>1 DEF Rewriting
  <2> QED BY <1>2, <1>3, <1>4, <2>2, <2>3 DEF StoreStep, Store!Next, Store!Start
<1>6. CASE BootFormat
  <2>1. ~ s_initialized' /\ flash.header[Magic] = Erased /\ job'.op = "format"
    BY <1>1, <1>6 DEF BootFormat, WriteHeader
  <2>2. InEffect' = InEffect /\ Saved = "gone" /\ Rewriting'
    BY <1>4, <2>1 DEF InEffect, Saved, Rewriting
  <2>3. Rewriting' = TRUE
    BY <2>1 DEF Rewriting
  <2> QED BY <1>2, <1>3, <1>4, <2>2, <2>3 DEF StoreStep, Store!Next, Store!Format
<1> QED BY <1>5, <1>6

\* The steps of a write.
LEMMA ErasePageRefines == IInv /\ IInv' /\ ErasePage => StoreStep
<1> SUFFICES ASSUME IInv, IInv', ErasePage PROVE StoreStep
  OBVIOUS
<1>1. /\ Writing /\ job.next = 0 /\ job'.op = job.op /\ job'.page = job.page /\ job'.next = 1
      /\ UNCHANGED <<s_db_header, s_initialized, s_page_buf>>
  BY DEF ErasePage, IInv, RamOK
<1>2. ~ Exposed /\ Exposed' /\ Rewriting' = TRUE /\ InEffect' = InEffect
  BY <1>1 DEF Exposed, Writing, Wiping, Rewriting, InEffect
<1>3. CASE job.page = "users"
  <2>1. job.op # "format" /\ job.op \in {"add", "delete", "set"} /\ s_initialized
    BY <1>1, <1>3, WritingJob DEF Writing, Wiping, IInv, JobOK, OnOK
  <2>2. ~ Rewriting /\ Rewriting = FALSE
    BY <1>2, <2>1 DEF Rewriting
  <2>3. Seen = flash.users /\ Seen' = s_page_buf
    BY <1>1, <1>2, <1>3 DEF Seen
  <2>4. flash'.header = flash.header /\ Saved' = Saved
    BY <1>3 DEF ErasePage, IInv, FlashOK, Saved
  <2>5. UsersOK(flash.users) /\ UsersOK(s_page_buf) /\ OneChange(flash.users, s_page_buf)
    BY <1>1, <1>3, <2>1 DEF IInv, FlashOK, JobOK, UserJobOK
  <2>6. PICK s \in Slots :
          /\ \A t \in Slots \ {s} : Entry(s_page_buf, t) = Entry(flash.users, t)
          /\ is_slot_valid(flash.users, s) /\ is_slot_valid(s_page_buf, s) =>
               s_page_buf[PersonOf(s)].id = flash.users[PersonOf(s)].id
    BY <2>5 DEF OneChange
  <2>7. \A t \in Slots : Stored[t] = Entry(flash.users, t) /\ Stored'[t] = Entry(s_page_buf, t)
    BY <2>3 DEF Stored, Entry, is_slot_valid
  <2>8. \A t \in Slots \ {s} : Stored'[t] = Stored[t]
    BY <2>6, <2>7
  <2>9. Stored'[s] \in [id : Halfwords, card : Cards \cup {NoCard}, flags : SUBSET Flags] \cup {Erased}
    BY <2>5, <2>7, EntryType
  <2>10. Stored[s] # Erased /\ Stored'[s] # Erased => Stored'[s].id = Stored[s].id
    BY <2>5, <2>6, <2>7, EntryType
  <2>11. InEffect # "off"
    BY <2>1, InEffectOn
  <2> QED BY <1>2, <2>2, <2>4, <2>8, <2>9, <2>10, <2>11 DEF StoreStep, Store!Next, Store!Change
<1>4. CASE job.page = "header"
  <2>1. flash'.users = flash.users /\ flash'.header = ErasedPage(flash.header)
    BY <1>4 DEF ErasePage, IInv, FlashOK
  <2>2. Seen' = Seen /\ Stored' = Stored
    BY <1>1, <1>4, <2>1 DEF Seen, Stored
  <2>3. flash'.header[Magic] = Erased /\ Saved' = "gone"
    BY <2>1, HeaderNumbers DEF ErasedPage, Saved, IInv, FlashOK, HeaderOK
  <2>4. CASE job.op = "format"
    <3>1. flash.header[Magic] = Erased /\ Rewriting = TRUE
      BY <1>1, <1>4, <2>4 DEF IInv, JobOK, FormatOK, Rewriting
    <3>2. Saved = "gone"
      BY <3>1 DEF Saved
    <3> QED BY <1>2, <2>2, <2>3, <3>1, <3>2 DEF StoreStep, Store!vars
  <2>5. CASE job.op # "format"
    <3>1. Rewriting = FALSE
      BY <1>2, <2>5 DEF Rewriting
    <3>2. s_initialized
      BY <1>4, <2>5 DEF IInv, JobOK, HeaderJobOK, OnOK
    <3>3. InEffect # "off"
      BY <3>2, InEffectOn
    <3> QED BY <1>2, <2>2, <2>3, <3>1, <3>3 DEF StoreStep, Store!Next, Store!Rewrite
  <2> QED BY <2>4, <2>5
<1> QED BY <1>1, <1>3, <1>4 DEF Writing

\* What programming a cell does to what is saved: nothing, or the magic number
\* appears before the password, or the password appears.
LEMMA SavedGoesOn ==
  ASSUME IInv, Writing, job.next \in DOMAIN s_page_buf, job.page = "header",
         flash' = [flash EXCEPT ![job.page] = Programmed(flash[job.page], s_page_buf, job.next)],
         UNCHANGED <<s_db_header, s_initialized>>
  PROVE  Saved' \in {Saved, Erased, IF InEffect = "off" THEN DefaultPassword ELSE InEffect}
<1>1. /\ HeaderOK(s_page_buf) /\ s_page_buf = HeaderPage(s_db_header) /\ job.next \in 1 .. 4
      /\ job.op \in {"format", "add", "delete", "master"}
  BY WritingJob
<1>2. s_page_buf[Magic] = "magic" /\ s_page_buf[Master] = s_db_header.master
  BY <1>1, HeaderPageOK DEF IInv, RamOK
<1>3. WrittenUpTo(flash.header, s_page_buf, job.next) /\ flash.header \in [HeaderCells -> HeaderCell]
  BY <1>1 DEF IInv, JobOK, HeaderJobOK, FlashOK
<1>4. flash'.header = Programmed(flash.header, s_page_buf, job.next)
  BY DEF IInv, FlashOK
<1>5. \A c \in HeaderCells : flash'.header[c] = IF c = job.next THEN s_page_buf[c] ELSE flash.header[c]
  BY <1>3, <1>4 DEF Programmed
<1>6. s_db_header.master = IF InEffect = "off" THEN DefaultPassword ELSE InEffect
  <2>1. CASE s_initialized
    BY <2>1, InEffectOn
  <2>2. CASE ~ s_initialized
    <3>1. job.op = "format"
      BY <1>1, <2>2 DEF IInv, JobOK, OnOK
    <3> QED BY <2>2, <3>1, InEffectOn, SomeHeaders DEF IInv, JobOK, FormatOK
  <2> QED BY <2>1, <2>2
<1>7. \A c \in HeaderCells : flash.header[c] = IF c < job.next THEN s_page_buf[c] ELSE Erased
  BY <1>3 DEF WrittenUpTo
<1>8. CASE job.next = Magic
  <2>1. flash'.header[Master] = Erased /\ flash'.header[Magic] = "magic"
    BY <1>2, <1>5, <1>7, <1>8, HeaderNumbers
  <2> QED BY <2>1, DataAssumption DEF Saved
<1>9. CASE job.next = Master
  <2>1. flash'.header[Magic] # Erased /\ flash'.header[Master] = s_db_header.master
    BY <1>2, <1>5, <1>7, <1>9, HeaderNumbers, DataAssumption
  <2> QED BY <1>6, <2>1 DEF Saved
<1>10. CASE job.next \notin {Magic, Master}
  <2>1. flash'.header[Magic] = flash.header[Magic] /\ flash'.header[Master] = flash.header[Master]
    BY <1>5, <1>10, HeaderNumbers
  <2> QED BY <2>1 DEF Saved
<1> QED BY <1>8, <1>9, <1>10

LEMMA ProgramWordRefines == IInv /\ IInv' /\ ProgramWord => StoreStep
<1> SUFFICES ASSUME IInv, IInv', ProgramWord PROVE StoreStep
  OBVIOUS
<1>1. /\ Writing /\ job.next \in DOMAIN s_page_buf /\ job' = [job EXCEPT !.next = job.next + 1]
      /\ UNCHANGED <<s_db_header, s_initialized, s_page_buf>>
      /\ flash' = [flash EXCEPT ![job.page] = Programmed(flash[job.page], s_page_buf, job.next)]
  BY DEF ProgramWord
<1>2. job'.op = job.op /\ job'.page = job.page /\ job'.next = job.next + 1 /\ job.next \in Nat /\ job.next > 0
  <2>1. job.next \in HeaderCells \/ job.next \in UserCells
    BY <1>1, WritingJob
  <2>2. job.next > 0
    BY <2>1, HeaderNumbers, SizeAssumption DEF UserCells
  <2> QED BY <1>1, <2>2 DEF IInv, RamOK
<1>3. Exposed /\ Exposed' /\ Rewriting = TRUE /\ Rewriting' = TRUE /\ InEffect' = InEffect
  BY <1>1, <1>2 DEF Exposed, Writing, Wiping, Rewriting, InEffect
<1>4. CASE job.page = "users"
  <2>1. Seen' = Seen
    BY <1>1, <1>2, <1>3, <1>4 DEF Seen
  <2>2. flash'.header = flash.header
    BY <1>1, <1>4 DEF IInv, FlashOK
  <2> QED BY <1>3, <2>1, <2>2 DEF StoreStep, Store!vars, Stored, Saved
<1>5. CASE job.page = "header"
  <2>1. flash'.users = flash.users
    BY <1>1, <1>5 DEF IInv, FlashOK
  <2>2. Stored' = Stored
    BY <1>2, <1>5, <2>1 DEF Seen, Stored
  <2>3. Saved' \in {Saved, Erased, IF InEffect = "off" THEN DefaultPassword ELSE InEffect}
    BY <1>1, <1>5, SavedGoesOn
  <2> QED BY <1>3, <2>2, <2>3 DEF StoreStep, Store!Next, Store!Save, Store!vars
<1> QED BY <1>1, <1>4, <1>5 DEF Writing

LEMMA UserWrittenRefines == IInv /\ IInv' /\ UserWritten => StoreStep
<1> SUFFICES ASSUME IInv, IInv', UserWritten PROVE StoreStep
  OBVIOUS
<1>1. /\ Writing /\ job.page = "users" /\ job.next \notin DOMAIN s_page_buf \cup {0}
      /\ UNCHANGED <<s_initialized, flash>>
      /\ s_db_header' = [s_db_header EXCEPT !.count = Counted(job.op, s_db_header.count)]
  BY DEF UserWritten
<1>2. /\ job.op # "format" /\ job.op \in {"add", "delete", "set"} /\ job.next = 2 * MaxUsers + 1
      /\ UsersOK(s_page_buf)
  BY <1>1, WritingJob, SizeAssumption
<1>3. job'.op # "format" /\ job'.page # "users" /\ job'.next = 0
  BY <1>2 DEF UserWritten, WriteHeader, NoJob
<1>4. Exposed /\ Rewriting = TRUE /\ ~ Exposed' /\ Rewriting' = FALSE
  <2>1. job.next > 0
    BY <1>2, SizeAssumption
  <2>2. Exposed /\ ~ Exposed'
    BY <1>1, <1>3, <2>1 DEF Exposed
  <2> QED BY <1>3, <2>2 DEF Rewriting
<1>5. WrittenUpTo(flash.users, s_page_buf, job.next) /\ flash.users \in UserPage
  BY <1>1, <1>2 DEF IInv, JobOK, UserJobOK, FlashOK
<1>6. job.next \in Nat /\ job.next > 2 * MaxUsers
  BY <1>2, SizeAssumption
<1>7. \A s \in Slots : Entry(flash.users, s) = Entry(s_page_buf, s)
  BY <1>2, <1>5, <1>6, PartWritten
<1>8. Seen = s_page_buf /\ Seen' = flash.users
  BY <1>1, <1>3, <1>4 DEF Seen
<1>9. Stored' = Stored
  BY <1>7, <1>8 DEF Stored, Entry, is_slot_valid
<1>10. InEffect' = InEffect /\ Saved' = Saved
  BY <1>1 DEF InEffect, Saved, IInv, RamOK, Header
<1> QED BY <1>4, <1>9, <1>10 DEF StoreStep, Store!Next, Store!Done

LEMMA HeaderWrittenRefines == IInv /\ IInv' /\ HeaderWritten => StoreStep
<1> SUFFICES ASSUME IInv, IInv', HeaderWritten PROVE StoreStep
  OBVIOUS
<1>1. /\ Writing /\ job.page = "header" /\ job.next \notin DOMAIN s_page_buf \cup {0}
      /\ UNCHANGED <<s_db_header, s_initialized, flash>>
      /\ job' = IF job.op = "format" THEN [op |-> "format", page |-> "users", next |-> 0] ELSE NoJob
  BY DEF HeaderWritten
<1>2. job.next > 0 /\ Rewriting = TRUE /\ ~ Exposed'
  BY <1>1, WritingJob DEF Rewriting, Exposed, NoJob
<1>3. Seen = flash.users /\ Seen' = flash.users
  BY <1>1, <1>2 DEF Seen
<1>4. Stored' = Stored /\ InEffect' = InEffect /\ Saved' = Saved
  BY <1>1, <1>3 DEF Stored, InEffect, Saved, Entry, is_slot_valid
<1>5. CASE job.op = "format"
  <2>1. Rewriting' = TRUE
    BY <1>1, <1>5 DEF Rewriting
  <2> QED BY <1>2, <1>4, <2>1 DEF StoreStep, Store!vars
<1>6. CASE job.op # "format"
  <2>1. Rewriting' = FALSE
    BY <1>1, <1>2, <1>6 DEF Rewriting, NoJob
  <2> QED BY <1>2, <1>4, <2>1 DEF StoreStep, Store!Next, Store!Done
<1> QED BY <1>5, <1>6

LEMMA WipedRefines == IInv /\ IInv' /\ Wiped => StoreStep
<1> SUFFICES ASSUME IInv, IInv', Wiped PROVE StoreStep
  OBVIOUS
<1>1. Wiping /\ s_initialized' /\ job' = NoJob /\ s_db_header' = s_db_header
  BY DEF Wiped
<1>2. ~ s_initialized /\ s_db_header.master = DefaultPassword
      /\ flash.header[Magic] = "magic" /\ flash.header[Master] = DefaultPassword
  BY <1>1, SomeHeaders DEF Wiping, IInv, JobOK, FormatOK
<1>3. flash'.header = flash.header
  BY DEF Wiped, IInv, FlashOK
<1>4. Rewriting = TRUE /\ Rewriting' = FALSE /\ ~ Exposed /\ ~ Exposed'
  BY <1>1 DEF Rewriting, Exposed, Wiping, Writing, NoJob
<1>5. InEffect = "off" /\ InEffect' = DefaultPassword
  BY <1>1, <1>2 DEF InEffect
<1>6. Saved = DefaultPassword /\ Saved' = Saved /\ Saved # "gone"
  BY <1>2, <1>3, DataAssumption DEF Saved
<1>7. Seen = flash.users /\ Seen' = flash'.users
  BY <1>4 DEF Seen
<1>8. Stored' \in {Stored, [s \in Slots |-> Erased]}
  <2>1. CASE UNCHANGED flash
    <3>1. Seen' = Seen
      BY <1>7, <2>1
    <3> QED BY <3>1 DEF Stored
  <2>2. CASE flash' = [flash EXCEPT !.users = ErasedPage(@)]
    <3>1. flash'.users = ErasedPage(flash.users)
      BY <2>2 DEF IInv, FlashOK
    <3>2. \A c \in UserCells : ErasedPage(flash.users)[c] = Erased
      BY ErasedUsersOK DEF IInv, FlashOK
    <3>3. \A s \in Slots : flash'.users[FlagsOf(s)] = Erased
      BY <3>1, <3>2, Cells
    <3>4. \A s \in Slots : Entry(Seen, s)' = Erased
      BY <1>7, <3>3 DEF Entry, is_slot_valid
    <3>5. Stored' = [s \in Slots |-> Erased]
      BY <3>4 DEF Stored
    <3> QED BY <3>5
  <2> QED BY <2>1, <2>2 DEF Wiped
<1> QED BY <1>4, <1>5, <1>6, <1>8 DEF StoreStep, Store!Next, Store!Formatted

\* What an interruption leaves of the users: each as he was in the buffer, or gone.
LEMMA InterruptedUsers ==
  ASSUME IInv, FlashOK', Exposed, job.page = "users", ~ Exposed', NEW n \in Nat,
         WrittenUpTo(flash'.users, s_page_buf, n)
  PROVE  \A s \in Slots : Stored'[s] \in {Stored[s], Erased}
<1>1. UsersOK(s_page_buf) /\ flash'.users \in UserPage
  BY WritingJob DEF Exposed, FlashOK
<1>2. \A s \in Slots : Entry(flash'.users, s) \in {Entry(s_page_buf, s), Erased}
  BY <1>1, PartWritten
<1>3. Seen = s_page_buf /\ Seen' = flash'.users
  BY DEF Seen
<1>4. \A s \in Slots : Stored[s] = Entry(s_page_buf, s) /\ Stored'[s] = Entry(flash'.users, s)
  BY <1>3 DEF Stored, Entry, is_slot_valid
<1> QED BY <1>2, <1>4

\* While nothing of the user page is exposed, its users stay as they are.
LEMMA UntouchedUsers ==
  ASSUME ~ (Exposed /\ job.page = "users"), ~ Exposed', flash'.users = flash.users
  PROVE  Stored' = Stored
<1>1. Seen = flash.users /\ Seen' = flash.users
  BY DEF Seen
<1> QED BY <1>1 DEF Stored

LEMMA FlashFailsRefines == IInv /\ IInv' /\ FlashFails => StoreStep
<1> SUFFICES ASSUME IInv, IInv', FlashFails PROVE StoreStep
  OBVIOUS
<1>1. Writing /\ job' = NoJob /\ UNCHANGED <<s_db_header, s_initialized>> /\ job.next \in DOMAIN s_page_buf \cup {0}
  BY DEF FlashFails
<1>2. ~ Exposed' /\ Rewriting' = FALSE /\ InEffect' = InEffect
  BY <1>1 DEF Exposed, Rewriting, Writing, NoJob, InEffect
<1>3. FlashOK' /\ FlashOK
  BY DEF IInv
<1>4. \/ flash' = flash
      \/ /\ job.next # 0
         /\ flash' = [flash EXCEPT ![job.page] = Programmed(flash[job.page], s_page_buf, job.next)]
  BY <1>3 DEF FlashFails, ProgramFailed, FlashOK, Writing
<1>5. CASE job.next = 0
  <2>1. flash' = flash /\ ~ Exposed
    BY <1>4, <1>5 DEF Exposed
  <2>2. Stored' = Stored /\ Saved' = Saved
    BY <1>2, <2>1, UntouchedUsers DEF Saved
  <2>3. Rewriting \in BOOLEAN
    BY DEF Rewriting
  <2>4. CASE Rewriting = TRUE
    <3>1. \A s \in Slots : Stored'[s] \in {Stored[s], Erased}
      BY <2>2
    <3> QED BY <1>2, <2>2, <2>4, <3>1 DEF StoreStep, Store!Next, Store!Interrupted
  <2>5. CASE Rewriting = FALSE
    BY <1>2, <2>2, <2>5 DEF StoreStep, Store!vars
  <2> QED BY <2>3, <2>4, <2>5
<1>6. CASE job.next # 0
  <2>1. Exposed /\ Rewriting = TRUE /\ job.next \in DOMAIN s_page_buf
    BY <1>1, <1>6, WritingJob DEF Exposed, Rewriting
  <2>2. CASE job.page = "users"
    <3>1. \E n \in Nat : WrittenUpTo(flash'.users, s_page_buf, n)
      <4>1. CASE flash' = flash
        <5>1. job.op # "format" /\ job.next \in Nat /\ job.next > 0
          BY <1>1, <2>1, <2>2, WritingJob
        <5>2. WrittenUpTo(flash.users, s_page_buf, job.next)
          BY <2>2, <5>1 DEF IInv, JobOK, UserJobOK
        <5> QED BY <4>1, <5>1, <5>2
      <4>2. CASE flash' = [flash EXCEPT ![job.page] = Programmed(flash[job.page], s_page_buf, job.next)]
        <5>1. job.next + 1 \in Nat
          BY DEF IInv, RamOK
        <5> QED BY <1>1, <2>1, <2>2, <4>2, <5>1, ProgramFlash
      <4> QED BY <1>4, <4>1, <4>2
    <3>2. \A s \in Slots : Stored'[s] \in {Stored[s], Erased}
      BY <1>2, <1>3, <2>1, <2>2, <3>1, InterruptedUsers
    <3>3. flash'.header = flash.header
      BY <1>4, <2>2 DEF IInv, FlashOK
    <3>4. Saved' = Saved
      BY <3>3 DEF Saved
    <3> QED BY <1>2, <2>1, <3>2, <3>4 DEF StoreStep, Store!Next, Store!Interrupted
  <2>3. CASE job.page = "header"
    <3>1. flash'.users = flash.users
      BY <1>4, <2>3 DEF IInv, FlashOK
    <3>2. Stored' = Stored
      BY <1>2, <2>3, <3>1, UntouchedUsers
    <3>3. \A s \in Slots : Stored'[s] \in {Stored[s], Erased}
      BY <3>2
    <3>4. Saved' \in {Saved, Erased, IF InEffect = "off" THEN DefaultPassword ELSE InEffect}
      <4>1. CASE flash' = flash
        BY <4>1 DEF Saved
      <4>2. CASE flash' = [flash EXCEPT ![job.page] = Programmed(flash[job.page], s_page_buf, job.next)]
        BY <1>1, <2>1, <2>3, <4>2, SavedGoesOn
      <4> QED BY <1>4, <4>1, <4>2
    <3> QED BY <1>2, <2>1, <3>3, <3>4 DEF StoreStep, Store!Next, Store!Interrupted
  <2> QED BY <1>1, <2>2, <2>3 DEF Writing
<1> QED BY <1>5, <1>6

LEMMA PowerLossRefines == IInv /\ IInv' /\ PowerLoss => StoreStep
<1> SUFFICES ASSUME IInv, IInv', PowerLoss PROVE StoreStep
  OBVIOUS
<1>1. flash' = flash /\ job' = Off /\ ~ s_initialized'
  BY DEF PowerLoss
<1>2. ~ Exposed' /\ Rewriting' = FALSE /\ InEffect' = "off" /\ Saved' = Saved
  BY <1>1 DEF Exposed, Rewriting, Writing, Off, InEffect, Saved
<1>3. \A s \in Slots : Stored'[s] \in {Stored[s], Erased}
  <2>1. CASE Exposed /\ job.page = "users"
    <3>1. Writing /\ job.next > 0 /\ job.op # "format" /\ job.next \in Nat
      BY <2>1, WritingJob DEF Exposed
    <3>2. WrittenUpTo(flash'.users, s_page_buf, job.next)
      BY <1>1, <2>1, <3>1 DEF IInv, JobOK, UserJobOK
    <3>3. FlashOK'
      BY DEF IInv
    <3> QED BY <1>2, <2>1, <3>1, <3>2, <3>3, InterruptedUsers
  <2>2. CASE ~ (Exposed /\ job.page = "users")
    <3>1. Stored' = Stored
      BY <1>1, <1>2, <2>2, UntouchedUsers
    <3> QED BY <3>1
  <2> QED BY <2>1, <2>2
<1>4. CASE Rewriting = TRUE
  BY <1>2, <1>3, <1>4 DEF StoreStep, Store!Next, Store!Interrupted
<1>5. CASE Rewriting = FALSE
  <2>1. ~ Exposed
    BY <1>5 DEF Rewriting
  <2>2. Stored' = Stored
    BY <1>1, <1>2, <2>1, UntouchedUsers
  <2> QED BY <1>2, <1>5, <2>2 DEF StoreStep, Store!Next, Store!Stop
<1> QED BY <1>4, <1>5 DEF Rewriting

LEMMA StutterRefines == UNCHANGED vars => StoreStep
<1> SUFFICES ASSUME UNCHANGED vars PROVE StoreStep
  OBVIOUS
<1>1. Exposed' = Exposed /\ Rewriting' = Rewriting
  BY DEF vars, Exposed, Rewriting, Writing, Wiping
<1>2. Seen' = Seen
  BY <1>1 DEF vars, Seen
<1>3. Stored' = Stored /\ InEffect' = InEffect /\ Saved' = Saved
  BY <1>2 DEF vars, Stored, InEffect, Saved
<1> QED BY <1>1, <1>3 DEF StoreStep, Store!vars

\* The database implements the store: an operation changes one user, a change of
\* the master password is in effect at once and saved later, and a failure only
\* takes away what is on a page that is being rewritten (user_database.c).
THEOREM StoreCorrect == Spec => StoreSpec
<1>1. IInv /\ IInv' /\ [Next]_vars => [Store!Next]_(Store!vars)
  BY OperationRefines, BootRefines, ErasePageRefines, ProgramWordRefines, UserWrittenRefines,
     HeaderWrittenRefines, WipedRefines, FlashFailsRefines, PowerLossRefines, StutterRefines
  DEF Next, Work, StoreStep
<1> QED BY <1>1, InitRefines, IInvInvariant, PTL DEF Spec, StoreSpec, Store!Spec
--------------------------------------------------------------------------------
\* Header and entries together, as long as no operation is cut short: a header
\* fits the entries on a page when it counts them and no id will come again.
Fits(h, page) ==
  /\ h.count = Cardinality(ValidSlots(page))
  /\ \A s \in ValidSlots(page) : page[PersonOf(s)].id < h.next_id
  /\ \A s, t \in ValidSlots(page) : page[PersonOf(s)].id = page[PersonOf(t)].id => s = t

\* A card has one holder, and nobody is disabled.
OneHolder(page) ==
  /\ \A s \in ValidSlots(page) : "DISABLED" \notin page[FlagsOf(s)]
  /\ \A card \in Cards : \A s, t \in Holders(page, card) : s = t

Good(h, page) == Fits(h, page) /\ OneHolder(page)

Recounted(h) == [h EXCEPT !.count = Counted(job.op, h.count)]

WholeOff == job.op = "reset" /\ flash.header[Magic] # Erased =>
              Good(HeaderRead(flash.header), flash.users)
WholeIdle == job.op = "none" =>
               s_initialized /\ Good(s_db_header, flash.users) /\ HeaderRead(flash.header) = s_db_header
WholeUser == job.page = "users" /\ job.op # "format" =>
               /\ Good(Recounted(s_db_header), s_page_buf)
               /\ job.op = "set" => HeaderRead(flash.header) = s_db_header
WholeHeader == job.page = "header" /\ job.op # "format" => Good(s_db_header, flash.users)
WholeFormat == job.page = "users" /\ job.op = "format" => HeaderRead(flash.header) = s_db_header
WholeUnbegun == Unbegun => Good(HeaderRead(flash.header), flash.users)

WInv == whole => WholeOff /\ WholeIdle /\ WholeUser /\ WholeHeader /\ WholeFormat /\ WholeUnbegun

LEMMA ValidFinite ==
  ASSUME NEW page
  PROVE  /\ ValidSlots(page) \in SUBSET Slots /\ IsFiniteSet(ValidSlots(page))
         /\ Cardinality(ValidSlots(page)) \in Nat
<1>1. IsFiniteSet(Slots)
  BY FS_Interval, SizeAssumption DEF Slots
<1>2. ValidSlots(page) \in SUBSET Slots
  BY DEF ValidSlots
<1> QED BY <1>1, <1>2, FS_Subset, FS_CardinalityType

LEMMA NoneGood ==
  ASSUME NEW page, ValidSlots(page) = {}
  PROVE  Good(DefaultHeader, page)
<1>1. Cardinality(ValidSlots(page)) = 0
  BY FS_EmptySet
<1>2. \A card \in Cards : Holders(page, card) = {}
  BY DEF Holders
<1> QED BY <1>1, <1>2 DEF Good, Fits, OneHolder, DefaultHeader

\* What a modified page holds.
LEMMA ModifiedSlots ==
  ASSUME NEW page, UsersOK(page), NEW s \in Slots, NEW person \in Persons, NEW flags \in SUBSET Flags
  PROVE  LET new == Modified(page, s, person, flags)
         IN  /\ ValidSlots(new) = IF "VALID" \in flags THEN ValidSlots(page) \cup {s}
                                                       ELSE ValidSlots(page) \ {s}
             /\ new[PersonOf(s)] = person /\ new[FlagsOf(s)] = flags
             /\ \A t \in Slots \ {s} : new[PersonOf(t)] = page[PersonOf(t)] /\ new[FlagsOf(t)] = page[FlagsOf(t)]
<1> DEFINE new == Modified(page, s, person, flags)
<1>1. flags # Erased
  BY DataAssumption
<1>2. new[PersonOf(s)] = person /\ new[FlagsOf(s)] = flags
  BY Cells DEF Modified
<1>3. \A t \in Slots \ {s} : new[PersonOf(t)] = page[PersonOf(t)] /\ new[FlagsOf(t)] = page[FlagsOf(t)]
  BY Cells DEF Modified
<1> HIDE DEF new
<1>4. \A t \in Slots : is_slot_valid(new, t) <=> IF t = s THEN "VALID" \in flags ELSE is_slot_valid(page, t)
  BY <1>1, <1>2, <1>3 DEF is_slot_valid
<1>5. ValidSlots(new) = IF "VALID" \in flags THEN ValidSlots(page) \cup {s} ELSE ValidSlots(page) \ {s}
  BY <1>4 DEF ValidSlots
<1> QED BY <1>2, <1>3, <1>5 DEF new

\* A modified entry may hold a card that nobody else holds.
LEMMA ModifiedOneHolder ==
  ASSUME NEW page, UsersOK(page), OneHolder(page),
         NEW s \in Slots, NEW person \in Persons, NEW flags \in SUBSET Flags,
         "VALID" \in flags => "DISABLED" \notin flags,
         "VALID" \in flags /\ "RFID_EN" \in flags /\ person.card \in Cards =>
           Holders(page, person.card) \subseteq {s}
  PROVE  OneHolder(Modified(page, s, person, flags))
<1> DEFINE new == Modified(page, s, person, flags)
<1>1. /\ ValidSlots(new) = IF "VALID" \in flags THEN ValidSlots(page) \cup {s} ELSE ValidSlots(page) \ {s}
      /\ new[PersonOf(s)] = person /\ new[FlagsOf(s)] = flags
      /\ \A t \in Slots \ {s} : new[PersonOf(t)] = page[PersonOf(t)] /\ new[FlagsOf(t)] = page[FlagsOf(t)]
  BY ModifiedSlots
<1> HIDE DEF new
<1>2. ValidSlots(page) \subseteq Slots
  BY DEF ValidSlots
<1>3. \A t \in ValidSlots(new) : "DISABLED" \notin new[FlagsOf(t)]
  BY <1>1, <1>2 DEF OneHolder
<1>4. ASSUME NEW card \in Cards, NEW t \in Holders(new, card), NEW u \in Holders(new, card)
      PROVE  t = u
  <2>1. \A v \in Holders(new, card) : v # s => v \in Holders(page, card)
    BY <1>1, <1>2 DEF Holders
  <2>2. s \in Holders(new, card) => Holders(page, card) \subseteq {s}
    BY <1>1 DEF Holders
  <2>3. CASE s \in Holders(new, card)
    BY <2>1, <2>2, <2>3
  <2>4. CASE s \notin Holders(new, card)
    BY <2>1, <2>4 DEF OneHolder
  <2> QED BY <2>3, <2>4
<1> QED BY <1>3, <1>4 DEF OneHolder, new

\* Whoever holds a card is found by it, while nobody is disabled.
LEMMA HolderFound ==
  ASSUME OneHolder(flash.users), NEW card, Holders(flash.users, card) # {}
  PROVE  FoundEnabled(card) /\ First(Holders(flash.users, card)) \in Holders(flash.users, card)
<1>1. Holders(flash.users, card) \in SUBSET Slots
  BY DEF Holders, ValidSlots
<1>2. First(Holders(flash.users, card)) \in Holders(flash.users, card)
  BY <1>1, FirstIn
<1> QED BY <1>2 DEF FoundEnabled, OneHolder, Holders

\* The entry of a user who stays is changed: the header still fits.
LEMMA ChangedFits ==
  ASSUME NEW page, UsersOK(page), NEW h, Fits(h, page), NEW s \in ValidSlots(page),
         NEW person \in Persons, person.id = page[PersonOf(s)].id,
         NEW flags \in SUBSET Flags, "VALID" \in flags
  PROVE  Fits(h, Modified(page, s, person, flags))
<1> DEFINE new == Modified(page, s, person, flags)
<1>1. s \in Slots /\ ValidSlots(page) \subseteq Slots
  BY DEF ValidSlots
<1>2. /\ ValidSlots(new) = ValidSlots(page) \cup {s}
      /\ new[PersonOf(s)] = person
      /\ \A t \in Slots \ {s} : new[PersonOf(t)] = page[PersonOf(t)]
  BY <1>1, ModifiedSlots
<1> HIDE DEF new
<1>4. ValidSlots(new) = ValidSlots(page)
  BY <1>2
<1>3. \A t \in ValidSlots(page) : new[PersonOf(t)].id = page[PersonOf(t)].id
  BY <1>1, <1>2
<1> QED BY <1>3, <1>4 DEF Fits, new

\* An entry is added with the next id, in an empty slot.
LEMMA AddedFits ==
  ASSUME NEW page, UsersOK(page), NEW h \in Header, Fits(h, page),
         NEW s \in Slots, s \notin ValidSlots(page),
         NEW person \in Persons, person.id = h.next_id,
         NEW flags \in SUBSET Flags, "VALID" \in flags
  PROVE  Fits([h EXCEPT !.next_id = h.next_id + 1, !.count = h.count + 1], Modified(page, s, person, flags))
<1> DEFINE new == Modified(page, s, person, flags)
           k == [h EXCEPT !.next_id = h.next_id + 1, !.count = h.count + 1]
<1>1. /\ ValidSlots(new) = ValidSlots(page) \cup {s}
      /\ new[PersonOf(s)] = person
      /\ \A t \in Slots \ {s} : new[PersonOf(t)] = page[PersonOf(t)]
  BY ModifiedSlots
<1>2. k.count = h.count + 1 /\ k.next_id = h.next_id + 1 /\ h.next_id \in Nat
  BY DEF Header, Halfwords
<1> HIDE DEF new, k
<1>3. Cardinality(ValidSlots(new)) = Cardinality(ValidSlots(page)) + 1
  BY <1>1, ValidFinite, FS_AddElement
<1>4. ValidSlots(page) \subseteq Slots
  BY DEF ValidSlots
<1>5. \A t \in ValidSlots(page) : page[PersonOf(t)].id \in Nat
  BY <1>4 DEF UsersOK, ValidSlots, Persons, Halfwords
<1>6. \A t \in ValidSlots(page) : /\ new[PersonOf(t)].id = page[PersonOf(t)].id
                                  /\ new[PersonOf(t)].id < h.next_id
  BY <1>1, <1>4 DEF Fits
<1>7. new[PersonOf(s)].id = h.next_id
  BY <1>1
<1>8. \A t \in ValidSlots(new) : new[PersonOf(t)].id < k.next_id
  BY <1>1, <1>2, <1>5, <1>6, <1>7
<1>9. \A t, u \in ValidSlots(new) : new[PersonOf(t)].id = new[PersonOf(u)].id => t = u
  BY <1>1, <1>2, <1>5, <1>6, <1>7 DEF Fits
<1> QED BY <1>2, <1>3, <1>8, <1>9 DEF Fits, new, k

\* A user is deleted: one less is counted, and there was one to count.
LEMMA DeletedFits ==
  ASSUME NEW page, UsersOK(page), NEW h \in Header, Fits(h, page), NEW s \in ValidSlots(page),
         NEW person \in Persons, NEW flags \in SUBSET Flags, "VALID" \notin flags
  PROVE  /\ h.count \in 1 .. Modulus - 1
         /\ Fits([h EXCEPT !.count = h.count - 1], Modified(page, s, person, flags))
<1> DEFINE new == Modified(page, s, person, flags)
           k == [h EXCEPT !.count = h.count - 1]
<1>1. s \in Slots /\ ValidSlots(page) \subseteq Slots
  BY DEF ValidSlots
<1>2. /\ ValidSlots(new) = ValidSlots(page) \ {s}
      /\ \A t \in Slots \ {s} : new[PersonOf(t)] = page[PersonOf(t)]
  BY <1>1, ModifiedSlots
<1>3. k.count = h.count - 1 /\ k.next_id = h.next_id /\ h.count \in Halfwords
  BY DEF Header
<1> HIDE DEF new, k
<1>4. Cardinality(ValidSlots(new)) = Cardinality(ValidSlots(page)) - 1
  BY <1>2, ValidFinite, FS_RemoveElement
<1>5. h.count \in 1 .. Modulus - 1
  BY <1>3, <1>4, ValidFinite, SizeAssumption DEF Fits, Halfwords
<1>6. \A t \in ValidSlots(new) : t \in ValidSlots(page) /\ new[PersonOf(t)].id = page[PersonOf(t)].id
  BY <1>1, <1>2
<1> QED BY <1>3, <1>4, <1>5, <1>6 DEF Fits, new, k

--------------------------------------------------------------------------------
LEMMA IdleGood == WInv /\ whole /\ Ready => Good(HeaderRead(flash.header), flash.users)
BY DEF WInv, WholeIdle, Ready, Idle, NoJob

\* An operation on a user begins, on an idle database that is in order.
LEMMA UserJobWhole ==
  ASSUME WInv, whole, Ready, UNCHANGED flash, NEW op \in {"add", "delete", "set"},
         job' = [op |-> op, page |-> "users", next |-> 0],
         Good(Recounted(s_db_header)', s_page_buf'),
         op = "set" => HeaderRead(flash'.header) = s_db_header'
  PROVE  WInv'
<1>1. Good(HeaderRead(flash.header), flash.users)
  BY IdleGood
<1> QED BY <1>1 DEF WInv, WholeOff, WholeIdle, WholeUser, WholeHeader, WholeFormat, WholeUnbegun, Unbegun

LEMMA AddWhole ==
  ASSUME IInv, WInv, NEW card \in Cards \cup {NoCard}, ~ FoundEnabled(card), user_db_add_user(card)
  PROVE  WInv'
<1> SUFFICES ASSUME whole PROVE WInv'
  BY DEF user_db_add_user, WInv
<1> DEFINE s == First(find_empty_slot)
           person == [id |-> s_db_header.next_id, card |-> card]
           flags == {"VALID"} \cup (IF card = NoCard THEN {} ELSE {"RFID_EN"})
<1>1. /\ Ready /\ find_empty_slot # {}
      /\ s_db_header' = [s_db_header EXCEPT !.next_id = s_db_header.next_id + 1]
      /\ WriteUser("add", s, person, flags)
  BY DEF user_db_add_user
<1>2. Good(s_db_header, flash.users)
  BY <1>1 DEF WInv, WholeIdle, Ready, Idle, NoJob
<1>3. s \in Slots /\ s \notin ValidSlots(flash.users)
  BY <1>1, FirstIn DEF find_empty_slot
<1>4. person \in Persons /\ flags \in SUBSET Flags /\ "VALID" \in flags /\ "DISABLED" \notin flags
      /\ person.card = card /\ person.id = s_db_header.next_id /\ s_db_header \in Header
  BY DEF Persons, Flags, IInv, RamOK, Header
<1>5. s_page_buf' = Modified(flash.users, s, person, flags) /\ job' = [op |-> "add", page |-> "users", next |-> 0]
  BY <1>1 DEF WriteUser
<1>6. card \in Cards => Holders(flash.users, card) = {}
  BY <1>2, HolderFound DEF Good
<1>7. UsersOK(flash.users)
  BY DEF IInv, FlashOK
<1> HIDE DEF s, person, flags
<1>8. OneHolder(s_page_buf')
  BY <1>2, <1>3, <1>4, <1>5, <1>6, <1>7, ModifiedOneHolder DEF Good
<1>9. Fits([s_db_header EXCEPT !.next_id = s_db_header.next_id + 1, !.count = s_db_header.count + 1], s_page_buf')
  BY <1>2, <1>3, <1>4, <1>5, <1>7, AddedFits DEF Good
<1>10. Recounted(s_db_header)'.count = s_db_header.count + 1 /\ Recounted(s_db_header)'.next_id = s_db_header.next_id + 1
  BY <1>1, <1>4, <1>5 DEF Recounted, Counted, Header
<1>11. /\ [s_db_header EXCEPT !.next_id = s_db_header.next_id + 1, !.count = s_db_header.count + 1].count = s_db_header.count + 1
       /\ [s_db_header EXCEPT !.next_id = s_db_header.next_id + 1, !.count = s_db_header.count + 1].next_id = s_db_header.next_id + 1
  BY <1>4 DEF Header
<1>12. Fits(Recounted(s_db_header)', s_page_buf')
  BY <1>9, <1>10, <1>11 DEF Fits
<1>13. UNCHANGED flash
  BY DEF user_db_add_user
<1> QED BY <1>1, <1>5, <1>8, <1>12, <1>13, UserJobWhole DEF Good

\* The slot of an id, on a page that is in order.
LEMMA ChangeBegins ==
  ASSUME IInv, WInv, whole, Ready, NEW id, SlotsOf(id) # {}
  PROVE  LET s == First(SlotsOf(id))
         IN  /\ s \in ValidSlots(flash.users) /\ s \in Slots /\ UsersOK(flash.users)
             /\ flash.users[PersonOf(s)] \in Persons /\ flash.users[PersonOf(s)].id = id
             /\ flash.users[FlagsOf(s)] \in SUBSET Flags
             /\ "VALID" \in flash.users[FlagsOf(s)] /\ "DISABLED" \notin flash.users[FlagsOf(s)]
             /\ Good(s_db_header, flash.users) /\ HeaderRead(flash.header) = s_db_header
<1> DEFINE s == First(SlotsOf(id))
<1>1. SlotsOf(id) \in SUBSET Slots
  BY DEF SlotsOf, ValidSlots
<1>2. s \in SlotsOf(id)
  BY <1>1, FirstIn
<1>3. s \in Slots /\ flash.users[PersonOf(s)] \in Persons /\ flash.users[FlagsOf(s)] \in SUBSET Flags
  BY SlotFound
<1> HIDE DEF s
<1>4. s \in ValidSlots(flash.users) /\ flash.users[PersonOf(s)].id = id /\ UsersOK(flash.users)
  BY <1>2 DEF SlotsOf, IInv, FlashOK
<1>5. Good(s_db_header, flash.users) /\ HeaderRead(flash.header) = s_db_header
  BY DEF WInv, WholeIdle, Ready, Idle, NoJob
<1>6. "VALID" \in flash.users[FlagsOf(s)] /\ "DISABLED" \notin flash.users[FlagsOf(s)]
  BY <1>4, <1>5 DEF Good, OneHolder, ValidSlots, is_slot_valid
<1> QED BY <1>3, <1>4, <1>5, <1>6 DEF s

\* A "set" counts as before.
LEMMA SetRecounts ==
  ASSUME s_db_header \in Header, s_db_header' = s_db_header, job'.op = "set"
  PROVE  /\ Recounted(s_db_header)'.count = s_db_header.count
         /\ Recounted(s_db_header)'.next_id = s_db_header.next_id
BY DEF Recounted, Counted, Header

LEMMA SetWhole ==
  ASSUME IInv, WInv, whole, Ready, UNCHANGED <<s_db_header, flash>>, Good(s_db_header, flash.users),
         HeaderRead(flash.header) = s_db_header, UsersOK(flash.users),
         NEW s \in ValidSlots(flash.users), NEW person \in Persons, NEW flags \in SUBSET Flags,
         person.id = flash.users[PersonOf(s)].id, "VALID" \in flags, "DISABLED" \notin flags,
         "RFID_EN" \in flags /\ person.card \in Cards => Holders(flash.users, person.card) \subseteq {s},
         WriteUser("set", s, person, flags)
  PROVE  WInv'
<1>1. s_page_buf' = Modified(flash.users, s, person, flags) /\ job' = [op |-> "set", page |-> "users", next |-> 0]
  BY DEF WriteUser
<1>2. s \in Slots
  BY DEF ValidSlots
<1>3. OneHolder(s_page_buf')
  BY <1>1, <1>2, ModifiedOneHolder DEF Good
<1>4. Fits(s_db_header, s_page_buf')
  BY <1>1, ChangedFits DEF Good
<1>5. Fits(Recounted(s_db_header)', s_page_buf')
  BY <1>1, <1>4, SetRecounts DEF Fits, IInv, RamOK
<1> QED BY <1>1, <1>3, <1>5, UserJobWhole DEF Good

LEMMA DeleteWhole ==
  ASSUME IInv, WInv, NEW id, user_db_delete_user(id)
  PROVE  WInv'
<1> SUFFICES ASSUME whole PROVE WInv'
  BY DEF user_db_delete_user, WInv
<1> DEFINE s == First(SlotsOf(id))
           person == flash.users[PersonOf(s)]
           flags == flash.users[FlagsOf(s)]
<1>1. Ready /\ SlotsOf(id) # {} /\ UNCHANGED <<s_db_header, flash>> /\ WriteUser("delete", s, person, flags \ {"VALID"})
  BY DEF user_db_delete_user
<1>2. /\ s \in ValidSlots(flash.users) /\ s \in Slots /\ UsersOK(flash.users)
      /\ person \in Persons /\ flags \in SUBSET Flags
      /\ Good(s_db_header, flash.users)
  BY <1>1, ChangeBegins
<1>3. s_page_buf' = Modified(flash.users, s, person, flags \ {"VALID"})
      /\ job' = [op |-> "delete", page |-> "users", next |-> 0]
  BY <1>1 DEF WriteUser
<1>4. flags \ {"VALID"} \in SUBSET Flags /\ "VALID" \notin flags \ {"VALID"} /\ s_db_header \in Header
  BY <1>2 DEF IInv, RamOK
<1> HIDE DEF s, person, flags
<1>5. OneHolder(s_page_buf')
  BY <1>2, <1>3, <1>4, ModifiedOneHolder DEF Good
<1>6. s_db_header.count \in 1 .. Modulus - 1 /\ Fits([s_db_header EXCEPT !.count = s_db_header.count - 1], s_page_buf')
  BY <1>2, <1>3, <1>4, DeletedFits DEF Good
<1>7. (s_db_header.count + Modulus - 1) % Modulus = s_db_header.count - 1
  BY <1>6, SizeAssumption
<1>8. Recounted(s_db_header)' = [s_db_header EXCEPT !.count = s_db_header.count - 1]
  BY <1>1, <1>3, <1>7 DEF Recounted, Counted
<1>9. Fits(Recounted(s_db_header)', s_page_buf')
  BY <1>6, <1>8
<1> QED BY <1>1, <1>3, <1>5, <1>9, UserJobWhole DEF Good

LEMMA SetRfidWhole ==
  ASSUME IInv, WInv, NEW id, NEW card \in Cards, user_db_set_rfid(id, card)
  PROVE  WInv'
<1> SUFFICES ASSUME whole PROVE WInv'
  BY DEF user_db_set_rfid, WInv
<1> DEFINE s == First(SlotsOf(id))
           person == [flash.users[PersonOf(s)] EXCEPT !.card = card]
           flags == flash.users[FlagsOf(s)] \cup {"RFID_EN"}
<1>1. /\ Ready /\ SlotsOf(id) # {} /\ UNCHANGED <<s_db_header, flash>>
      /\ WriteUser("set", s, person, flags)
      /\ ~ (FoundEnabled(card) /\ flash.users[PersonOf(First(Holders(flash.users, card)))].id # id)
  BY DEF user_db_set_rfid
<1>2. /\ s \in ValidSlots(flash.users) /\ UsersOK(flash.users)
      /\ flash.users[PersonOf(s)] \in Persons /\ flash.users[PersonOf(s)].id = id
      /\ flags \in SUBSET Flags /\ "VALID" \in flags /\ "DISABLED" \notin flags
      /\ Good(s_db_header, flash.users) /\ HeaderRead(flash.header) = s_db_header
  BY <1>1, ChangeBegins DEF Flags
<1>3. person \in Persons /\ person.id = flash.users[PersonOf(s)].id /\ person.card = card
  BY <1>2 DEF Persons
<1> HIDE DEF s, person, flags
<1>4. Holders(flash.users, card) \subseteq {s}
  <2>1. SUFFICES ASSUME Holders(flash.users, card) # {} PROVE Holders(flash.users, card) \subseteq {s}
    OBVIOUS
  <2> DEFINE f == First(Holders(flash.users, card))
  <2>2. FoundEnabled(card) /\ f \in Holders(flash.users, card)
    BY <1>2, <2>1, HolderFound DEF Good
  <2>3. flash.users[PersonOf(f)].id = id
    BY <1>1, <2>2
  <2> HIDE DEF f
  <2>4. f = s
    BY <1>2, <2>2, <2>3 DEF Good, Fits, Holders
  <2> QED BY <1>2, <2>2, <2>4 DEF Good, OneHolder
<1> QED BY <1>1, <1>2, <1>3, <1>4, SetWhole

LEMMA SetPasswordWhole ==
  ASSUME IInv, WInv, NEW id, user_db_set_password(id)
  PROVE  WInv'
<1> SUFFICES ASSUME whole PROVE WInv'
  BY DEF user_db_set_password, WInv
<1> DEFINE s == First(SlotsOf(id))
           person == flash.users[PersonOf(s)]
           flags == flash.users[FlagsOf(s)]
<1>1. /\ Ready /\ SlotsOf(id) # {} /\ UNCHANGED <<s_db_header, flash>>
      /\ WriteUser("set", s, person, flags)
  BY DEF user_db_set_password
<1>2. /\ s \in ValidSlots(flash.users) /\ UsersOK(flash.users)
      /\ person \in Persons /\ flags \in SUBSET Flags /\ "VALID" \in flags /\ "DISABLED" \notin flags
      /\ Good(s_db_header, flash.users) /\ HeaderRead(flash.header) = s_db_header
  BY <1>1, ChangeBegins
<1>3. "RFID_EN" \in flags /\ person.card \in Cards => Holders(flash.users, person.card) \subseteq {s}
  BY <1>2 DEF Good, OneHolder, Holders
<1>4. person.id = flash.users[PersonOf(s)].id
  OBVIOUS
<1> HIDE DEF s, person, flags
<1> QED BY <1>1, <1>2, <1>3, <1>4, SetWhole

\* The master password is no business of the entries.
LEMMA MasterWhole ==
  ASSUME IInv, WInv, NEW new \in Passwords, user_db_change_master_password(new)
  PROVE  WInv'
<1> SUFFICES ASSUME whole PROVE WInv'
  BY DEF user_db_change_master_password, WInv
<1>1. /\ s_db_header' = [s_db_header EXCEPT !.master = new]
      /\ job' = [op |-> "master", page |-> "header", next |-> 0] /\ flash' = flash
  BY DEF user_db_change_master_password, WriteHeader
<1>2. Good(s_db_header, flash.users)
  BY DEF user_db_change_master_password, Ready, Idle, NoJob, WInv, WholeIdle
<1>3. s_db_header'.count = s_db_header.count /\ s_db_header'.next_id = s_db_header.next_id
  BY <1>1 DEF IInv, RamOK, Header
<1>4. Good(s_db_header', flash'.users)
  BY <1>1, <1>2, <1>3 DEF Good, Fits
<1>5. Good(HeaderRead(flash.header), flash.users)
  BY IdleGood DEF user_db_change_master_password
<1> QED BY <1>1, <1>4, <1>5 DEF WInv, WholeOff, WholeIdle, WholeUser, WholeHeader, WholeFormat, WholeUnbegun, Unbegun

LEMMA OperationWhole == IInv /\ WInv /\ Operation => WInv'
<1> SUFFICES ASSUME IInv, WInv, Operation PROVE WInv'
  OBVIOUS
<1>1. CASE AddUser
  BY <1>1, AddWhole DEF AddUser
<1>2. ASSUME NEW id, NEW flag, user_db_update_user(id, flag) PROVE WInv'
  BY <1>2 DEF user_db_update_user, WInv
<1> QED BY <1>1, <1>2, DeleteWhole, SetRfidWhole, SetPasswordWhole, MasterWhole DEF Operation

\* What a complete page is read as.
LEMMA HeaderReads ==
  ASSUME IInv, AtEnd("header")
  PROVE  HeaderRead(flash.header) = s_db_header
<1>1. s_db_header \in Header
  BY DEF IInv, RamOK
<1>2. /\ s_db_header = [count |-> s_db_header.count, next_id |-> s_db_header.next_id, master |-> s_db_header.master]
      /\ s_db_header.count # Erased /\ s_db_header.next_id # Erased
  BY <1>1, DataAssumption DEF Header, Halfwords
<1> QED BY <1>2, HeaderWhole DEF HeaderRead, Valued

LEMMA UsersWhole ==
  ASSUME IInv, AtEnd("users")
  PROVE  flash.users = s_page_buf
<1>1. /\ job.page = "users" /\ job.op # "format" /\ job.next = 2 * MaxUsers + 1
      /\ s_page_buf \in UserPage /\ flash.users \in UserPage
  BY WritingJob, SizeAssumption DEF AtEnd, UsersOK, IInv, FlashOK
<1>2. WrittenUpTo(flash.users, s_page_buf, 2 * MaxUsers + 1)
  BY <1>1, SizeAssumption DEF IInv, JobOK, UserJobOK
<1>3. \A c \in UserCells : flash.users[c] = s_page_buf[c]
  BY <1>1, <1>2, SizeAssumption DEF WrittenUpTo, UserPage, UserCells
<1> QED BY <1>1, <1>3 DEF UserPage

\* A loss of power that cuts nothing short leaves pages that are in order.
LEMMA CompleteGood ==
  ASSUME IInv, WInv, whole, Writing, Complete
  PROVE  Good(HeaderRead(flash.header), flash.users)
<1>1. job.next \notin DOMAIN s_page_buf \cup {0}
  BY DEF Complete
<1>2. CASE job.page = "header"
  <2>1. job.op # "format"
    BY <1>2, WritingJob DEF Complete
  <2>2. Good(s_db_header, flash.users)
    BY <1>2, <2>1 DEF WInv, WholeHeader
  <2> QED BY <1>1, <1>2, <2>2, HeaderReads DEF AtEnd
<1>3. CASE job.page = "users"
  <2>1. job.op = "set"
    BY <1>3 DEF Complete
  <2>2. Good(Recounted(s_db_header), s_page_buf) /\ HeaderRead(flash.header) = s_db_header
    BY <1>3, <2>1 DEF WInv, WholeUser
  <2>3. Recounted(s_db_header) = s_db_header
    BY <2>1 DEF Recounted, Counted, IInv, RamOK, Header
  <2> QED BY <1>1, <1>3, <2>2, <2>3, UsersWhole DEF AtEnd
<1> QED BY <1>2, <1>3 DEF Writing

LEMMA BootWhole == IInv /\ WInv /\ (BootIntact \/ BootFormat \/ PowerLoss) => WInv'
<1> SUFFICES ASSUME IInv, WInv, BootIntact \/ BootFormat \/ PowerLoss, whole' PROVE WInv'
  BY DEF WInv
<1>1. CASE BootIntact
  BY <1>1 DEF BootIntact, NoJob, WInv, WholeOff, WholeIdle, WholeUser, WholeHeader, WholeFormat, WholeUnbegun, Unbegun
<1>2. CASE BootFormat
  BY <1>2 DEF BootFormat, WriteHeader, WInv, WholeOff, WholeIdle, WholeUser, WholeHeader, WholeFormat, WholeUnbegun, Unbegun
<1>3. CASE PowerLoss
  <2>1. whole /\ (Idle \/ Unbegun \/ Complete) /\ flash' = flash /\ job' = Off /\ job.op # "reset"
    BY <1>3 DEF PowerLoss
  <2>2. Good(HeaderRead(flash.header), flash.users)
    <3>1. CASE Idle
      BY <2>1, <3>1 DEF Idle, NoJob, WInv, WholeIdle
    <3>2. CASE Unbegun
      BY <2>1, <3>2 DEF WInv, WholeUnbegun
    <3>3. CASE Complete
      <4>1. Writing
        BY <3>3 DEF Complete, Writing, Wiping, IInv, RamOK, JobOK, NoneOK
      <4> QED BY <2>1, <3>3, <4>1, CompleteGood
    <3> QED BY <2>1, <3>1, <3>2, <3>3
  <2> QED BY <2>1, <2>2 DEF Off, WInv, WholeOff, WholeIdle, WholeUser, WholeHeader, WholeFormat, WholeUnbegun, Unbegun
<1> QED BY <1>1, <1>2, <1>3

\* While a page is written nothing changes but the page.
LEMMA WriteWhole == IInv /\ IInv' /\ WInv /\ (ErasePage \/ ProgramWord) => WInv'
<1> SUFFICES ASSUME IInv, IInv', WInv, ErasePage \/ ProgramWord, whole PROVE WInv'
  BY DEF ErasePage, ProgramWord, WInv
<1>1. /\ Writing /\ UNCHANGED <<s_db_header, s_initialized, s_page_buf, whole>>
      /\ job' = [job EXCEPT !.next = job.next + 1]
      /\ \E page : flash' = [flash EXCEPT ![job.page] = page]
  <2>1. CASE ErasePage
    <3>1. flash' = [flash EXCEPT ![job.page] = ErasedPage(flash[job.page])]
      BY <2>1 DEF ErasePage
    <3>2. job' = [job EXCEPT !.next = job.next + 1]
      BY <2>1 DEF ErasePage
    <3>3. Writing /\ UNCHANGED <<s_db_header, s_initialized, s_page_buf, whole>>
      BY <2>1 DEF ErasePage
    <3>4. \E page : flash' = [flash EXCEPT ![job.page] = page]
      BY <3>1
    <3> QED BY <3>2, <3>3, <3>4
  <2>2. CASE ProgramWord
    <3>1. flash' = [flash EXCEPT ![job.page] = Programmed(flash[job.page], s_page_buf, job.next)]
      BY <2>2 DEF ProgramWord
    <3> QED BY <2>2, <3>1 DEF ProgramWord
  <2> QED BY <2>1, <2>2
<1>2. job'.op = job.op /\ job'.page = job.page /\ ~ Unbegun'
  BY <1>1 DEF IInv, RamOK, Unbegun
<1>3. CASE job.page = "header"
  <2>1. flash'.users = flash.users
    BY <1>1, <1>3 DEF IInv, FlashOK
  <2>2. job.op \in {"format", "add", "delete", "master"}
    BY <1>1, <1>3, WritingJob
  <2> QED BY <1>1, <1>2, <1>3, <2>1, <2>2
          DEF WInv, WholeOff, WholeIdle, WholeUser, WholeHeader, WholeFormat, WholeUnbegun
<1>4. CASE job.page = "users"
  <2>1. flash'.header = flash.header
    BY <1>1, <1>4 DEF IInv, FlashOK
  <2>2. job.op \in {"add", "delete", "set"} /\ job.op # "format"
    BY <1>1, <1>4, WritingJob
  <2>3. Good(Recounted(s_db_header), s_page_buf) /\ (job.op = "set" => HeaderRead(flash.header) = s_db_header)
    BY <1>4, <2>2 DEF WInv, WholeUser
  <2>4. Recounted(s_db_header)' = Recounted(s_db_header)
    BY <1>1, <1>2 DEF Recounted
  <2> QED BY <1>1, <1>2, <1>4, <2>1, <2>2, <2>3, <2>4
          DEF WInv, WholeOff, WholeIdle, WholeUser, WholeHeader, WholeFormat, WholeUnbegun
<1> QED BY <1>1, <1>3, <1>4 DEF Writing

\* The user page has been written to its end: it is its buffer.
LEMMA UserWrittenWhole == IInv /\ WInv /\ UserWritten => WInv'
<1> SUFFICES ASSUME IInv, WInv, UserWritten, whole PROVE WInv'
  BY DEF UserWritten, WInv
<1>1. /\ Writing /\ job.page = "users" /\ job.next \notin DOMAIN s_page_buf \cup {0}
      /\ UNCHANGED <<s_initialized, flash, whole>>
      /\ s_db_header' = Recounted(s_db_header)
  BY DEF UserWritten, Recounted
<1>2. job.op \in {"add", "delete", "set"} /\ job.op # "format"
  BY <1>1, WritingJob
<1>4. flash.users = s_page_buf
  BY <1>1, UsersWhole DEF AtEnd
<1>5. Good(s_db_header', flash.users') /\ (job.op = "set" => HeaderRead(flash.header) = s_db_header)
  BY <1>1, <1>2, <1>4 DEF WInv, WholeUser
<1>6. CASE job.op \in {"add", "delete"}
  <2>1. job' = [op |-> job.op, page |-> "header", next |-> 0]
    BY <1>6 DEF UserWritten, WriteHeader
  <2> QED BY <1>5, <1>6, <2>1 DEF WInv, WholeOff, WholeIdle, WholeUser, WholeHeader, WholeFormat, WholeUnbegun, Unbegun
<1>7. CASE job.op = "set"
  <2>1. job' = NoJob
    BY <1>7 DEF UserWritten
  <2>2. s_db_header' = s_db_header
    BY <1>1, <1>7 DEF Recounted, Counted, IInv, RamOK, Header
  <2>3. s_initialized'
    BY <1>1, <1>7 DEF IInv, JobOK, OnOK
  <2> QED BY <1>1, <1>5, <1>7, <2>1, <2>2, <2>3
          DEF NoJob, WInv, WholeOff, WholeIdle, WholeUser, WholeHeader, WholeFormat, WholeUnbegun, Unbegun
<1> QED BY <1>2, <1>6, <1>7

\* The header has been written to its end: it reads as it is in RAM.
LEMMA HeaderWrittenWhole == IInv /\ WInv /\ HeaderWritten => WInv'
<1> SUFFICES ASSUME IInv, WInv, HeaderWritten, whole PROVE WInv'
  BY DEF HeaderWritten, WInv
<1>1. /\ Writing /\ job.page = "header" /\ UNCHANGED <<s_db_header, s_initialized, flash, whole>>
      /\ job' = IF job.op = "format" THEN [op |-> "format", page |-> "users", next |-> 0] ELSE NoJob
  BY DEF HeaderWritten
<1>4. HeaderRead(flash.header) = s_db_header
  BY HeaderReads DEF HeaderWritten, AtEnd
<1>5. CASE job.op = "format"
  BY <1>1, <1>4, <1>5 DEF WInv, WholeOff, WholeIdle, WholeUser, WholeHeader, WholeFormat, WholeUnbegun, Unbegun
<1>6. CASE job.op # "format"
  <2>1. Good(s_db_header, flash.users)
    BY <1>1, <1>6 DEF WInv, WholeHeader
  <2>2. s_initialized
    BY <1>1, <1>6, WritingJob DEF IInv, JobOK, OnOK
  <2> QED BY <1>1, <1>4, <1>6, <2>1, <2>2
          DEF NoJob, WInv, WholeOff, WholeIdle, WholeUser, WholeHeader, WholeFormat, WholeUnbegun, Unbegun
<1> QED BY <1>5, <1>6

\* An empty user page behind the default header.
LEMMA WipedWhole == IInv /\ WInv /\ Wiped => WInv'
<1> SUFFICES ASSUME IInv, WInv, Wiped, whole' PROVE WInv'
  BY DEF WInv
<1>1. /\ Wiping /\ whole /\ s_initialized' /\ job' = NoJob /\ s_db_header' = s_db_header
      /\ flash'.users = ErasedPage(flash.users)
  BY DEF Wiped
<1>2. flash'.header = flash.header
  BY DEF Wiped, IInv, FlashOK
<1>3. s_db_header = DefaultHeader /\ HeaderRead(flash.header) = s_db_header
  BY <1>1 DEF Wiping, IInv, JobOK, FormatOK, WInv, WholeFormat
<1>4. ValidSlots(flash'.users) = {}
  <2>1. \A s \in Slots : ErasedPage(flash.users)[FlagsOf(s)] = Erased
    BY ErasedUsersOK, Cells DEF IInv, FlashOK
  <2> QED BY <1>1, <2>1 DEF ValidSlots, is_slot_valid
<1>5. Good(DefaultHeader, flash'.users)
  BY <1>4, NoneGood
<1> QED BY <1>1, <1>2, <1>3, <1>5 DEF NoJob, WInv, WholeOff, WholeIdle, WholeUser, WholeHeader, WholeFormat, WholeUnbegun, Unbegun

LEMMA WInvInvariant == Spec => []WInv
<1>1. Init => WInv
  BY DEF Init, Off, WInv, WholeOff, WholeIdle, WholeUser, WholeHeader, WholeFormat, WholeUnbegun, Unbegun, HeaderCells, Magic, Master
<1>2. IInv /\ IInv' /\ WInv /\ [Next]_vars => WInv'
  <2> SUFFICES ASSUME IInv, IInv', WInv, [Next]_vars PROVE WInv'
    OBVIOUS
  <2>1. CASE Next
    <3>1. FlashFails => WInv'
      BY DEF FlashFails, WInv
    <3> QED BY <2>1, <3>1, OperationWhole, BootWhole, WriteWhole, UserWrittenWhole, HeaderWrittenWhole, WipedWhole
            DEF Next, Work
  <2>2. CASE UNCHANGED vars
    BY <2>2 DEF vars, WInv, WholeOff, WholeIdle, WholeUser, WholeHeader, WholeFormat, WholeUnbegun, Unbegun, Recounted
  <2> QED BY <2>1, <2>2
<1> QED BY <1>1, <1>2, IInvInvariant, PTL DEF Spec

\* The user count and the next id fit the stored users, in RAM and in flash, as
\* long as no operation was cut short between the first cell it changed and the
\* last (user_db_add_user, user_db_delete_user).
THEOREM HeaderCorrectCorrect == Spec => []HeaderCorrect
<1>1. WInv => HeaderCorrect
  <2> SUFFICES ASSUME WInv, whole, Ready
               PROVE  /\ s_db_header.count = Cardinality(ValidSlots(flash.users))
                      /\ \A s, t \in ValidSlots(flash.users) :
                           /\ flash.users[PersonOf(s)].id < s_db_header.next_id
                           /\ flash.users[PersonOf(s)].id = flash.users[PersonOf(t)].id => s = t
                      /\ HeaderRead(flash.header) = s_db_header
    BY DEF HeaderCorrect
  <2> QED BY DEF WInv, WholeIdle, Ready, Idle, NoJob, Good, Fits
<1> QED BY <1>1, WInvInvariant, PTL

\* A card opens for one user, as long as nobody is disabled and no operation was
\* cut short between the first cell it changed and the last (the lookups of
\* user_db_set_rfid and user_admin_on_rfid).
THEOREM CardHasOneHolderCorrect == Spec => []CardHasOneHolder
<1>1. WInv => CardHasOneHolder
  <2> SUFFICES ASSUME WInv, whole, Ready, NEW card \in Cards
               PROVE  Cardinality(Holders(flash.users, card)) <= 1
    BY DEF CardHasOneHolder
  <2> DEFINE H == Holders(flash.users, card)
  <2>1. \A s, t \in H : s = t
    BY DEF WInv, WholeIdle, Ready, Idle, NoJob, Good, OneHolder
  <2> HIDE DEF H
  <2>2. CASE H = {}
    BY <2>2, FS_EmptySet DEF H
  <2>3. CASE H # {}
    <3>1. PICK s \in H : H = {s}
      BY <2>1, <2>3
    <3>2. Cardinality(H) = 1
      BY <3>1, FS_Singleton
    <3> QED BY <3>2 DEF H
  <2> QED BY <2>2, <2>3
<1> QED BY <1>1, WInvInvariant, PTL
================================================================================
