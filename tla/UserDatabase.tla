------------------------------ MODULE UserDatabase ------------------------------
(* user_database.c: the header page and the page of user entries, rewritten    *)
(* word by word out of one page buffer.  Power may fail between any two flash  *)
(* operations, and every flash operation may report an error.                  *)
EXTENDS FlashPage, FiniteSets

CONSTANTS MaxUsers,        \* USER_DB_MAX_USERS
          Modulus,         \* of the uint16_t counters
          ErasedHalfword,  \* FLASH_ERASED_HALFWORD, read as a number
          Cards,           \* card numbers
          NoCard,          \* the rfid_uid of an entry without a card
          Passwords,       \* master passwords that can be typed
          DefaultPassword, \* 0000
          Faults,          \* which of "power" and "flash" may fail
          Updates          \* flags a caller of user_db_update_user may toggle

Slots == 1 .. MaxUsers
Halfwords == 0 .. Modulus - 1
Flags == {"VALID", "RFID_EN", "DISABLED"}
Persons == [id : Halfwords, card : Cards \cup {NoCard}]

ASSUME SizeAssumption == MaxUsers \in Nat \ {0} /\ Modulus \in Nat
ASSUME ErasedAssumption == ErasedHalfword \in MaxUsers .. Modulus - 1
ASSUME DataAssumption ==
  /\ NoCard \notin Cards
  /\ DefaultPassword \in Passwords
  /\ Erased \notin Passwords \cup Nat \cup {"magic"}
  /\ \A p \in Persons : p # Erased
  /\ \A f \in SUBSET Flags : f # Erased
  /\ "off" \notin Passwords \cup {Erased}    \* what stands for no password
  /\ "gone" \notin Passwords \cup {Erased}
ASSUME FlagAssumption == Faults \subseteq {"power", "flash"} /\ Updates \subseteq {"DISABLED"}

VARIABLES s_db_header,   \* the header in RAM
          s_initialized, \* the database accepts operations
          s_page_buf,    \* the page being written; <<>> when none is
          flash,         \* the two pages
          job,           \* the operation in progress and the cell it is at
          whole          \* no operation has been cut short between the first cell
                         \* it changed and the last, and no user disabled

vars == <<s_db_header, s_initialized, s_page_buf, flash, job, whole>>

--------------------------------------------------------------------------------
\* Cells of the header page, in the order of user_db_header_t.
Magic == 1
Count == 2
NextId == 3
Master == 4
HeaderCells == Magic .. Master

\* Cells of the user page: of every entry what precedes the flags, then the flags.
PersonOf(s) == 2 * s - 1
FlagsOf(s) == 2 * s
UserCells == 1 .. 2 * MaxUsers

Header == [count : Halfwords, next_id : Halfwords, master : Passwords \cup {Erased}]
Valued(c) == IF c = Erased THEN ErasedHalfword ELSE c

\* What s_db_header holds after reading the page.
HeaderRead(page) ==
  [count |-> Valued(page[Count]), next_id |-> Valued(page[NextId]), master |-> page[Master]]

HeaderPage(h) ==
  [c \in HeaderCells |-> CASE c = Magic -> "magic" [] c = Count -> h.count
                           [] c = NextId -> h.next_id [] c = Master -> h.master]

DefaultHeader == [count |-> 0, next_id |-> 1, master |-> DefaultPassword]
ZeroHeader == [count |-> 0, next_id |-> 0, master |-> DefaultPassword]

is_slot_valid(page, s) == page[FlagsOf(s)] # Erased /\ "VALID" \in page[FlagsOf(s)]
ValidSlots(page) == {s \in Slots : is_slot_valid(page, s)}

First(S) == CHOOSE s \in S : \A t \in S : s <= t
find_empty_slot == Slots \ ValidSlots(flash.users)
SlotsOf(id) == {s \in ValidSlots(flash.users) : flash.users[PersonOf(s)].id = id}
Holders(page, card) == {s \in ValidSlots(page) : /\ "RFID_EN" \in page[FlagsOf(s)]
                                                 /\ page[PersonOf(s)].card = card}

\* user_db_find_by_rfid answers OK: the first holder is not disabled.
FoundEnabled(card) == /\ Holders(flash.users, card) # {}
                      /\ "DISABLED" \notin flash.users[FlagsOf(First(Holders(flash.users, card)))]
--------------------------------------------------------------------------------
Ops == {"none", "reset", "format", "add", "delete", "set", "master"}
Off == [op |-> "reset", page |-> "none", next |-> 0]
NoJob == [op |-> "none", page |-> "none", next |-> 0]
Idle == job = NoJob
Ready == s_initialized /\ Idle

\* flash_write_safe up to the erase: the page is read and changed in the buffer.
WriteHeader(op, h) == /\ s_page_buf' = HeaderPage(h)
                      /\ job' = [op |-> op, page |-> "header", next |-> 0]

\* wrong variant: the page is not read before it is changed
ModifiedUnread(page, s, person, flags) ==
  [c \in UserCells |-> IF c = PersonOf(s) THEN person
                       ELSE IF c = FlagsOf(s) THEN flags ELSE Erased]

Modified(page, s, person, flags) ==
  [c \in UserCells |-> IF c = PersonOf(s) THEN person
                       ELSE IF c = FlagsOf(s) THEN flags ELSE page[c]]

WriteUser(op, s, person, flags) ==
  /\ s_page_buf' = Modified(flash.users, s, person, flags)
  /\ job' = [op |-> op, page |-> "users", next |-> 0]

Init ==
  /\ s_db_header = ZeroHeader
  /\ s_initialized = FALSE
  /\ s_page_buf = <<>>
  /\ flash = [header |-> [c \in HeaderCells |-> Erased], users |-> [c \in UserCells |-> Erased]]
  /\ job = Off
  /\ whole = TRUE

\* user_db_init finds the magic number.
BootIntact ==
  /\ job.op = "reset"
  /\ flash.header[Magic] # Erased
  /\ s_db_header' = HeaderRead(flash.header)
  /\ s_initialized' = TRUE
  /\ job' = NoJob
  /\ UNCHANGED <<s_page_buf, flash, whole>>

\* It does not: user_db_format begins with the header.
BootFormat ==
  /\ job.op = "reset"
  /\ flash.header[Magic] = Erased
  /\ s_db_header' = DefaultHeader
  /\ WriteHeader("format", DefaultHeader)
  /\ UNCHANGED <<s_initialized, flash, whole>>

\* Bound: ids do not wrap (65535 users added one after the other).
user_db_add_user(card) ==
  /\ Ready
  /\ s_db_header.count < MaxUsers
  /\ find_empty_slot # {}
  /\ s_db_header.next_id < Modulus - 1
  /\ s_db_header' = [s_db_header EXCEPT !.next_id = @ + 1]
  /\ WriteUser("add", First(find_empty_slot), [id |-> s_db_header.next_id, card |-> card],
               {"VALID"} \cup (IF card = NoCard THEN {} ELSE {"RFID_EN"}))
  /\ UNCHANGED <<s_initialized, flash, whole>>

\* user_admin_on_rfid takes a card only when no user is found for it; the
\* network adds users without a card.
AddUser == \E card \in Cards \cup {NoCard} : ~ FoundEnabled(card) /\ user_db_add_user(card)

user_db_delete_user(id) ==
  /\ Ready
  /\ SlotsOf(id) # {}
  /\ LET s == First(SlotsOf(id)) IN
       WriteUser("delete", s, flash.users[PersonOf(s)], flash.users[FlagsOf(s)] \ {"VALID"})
  /\ UNCHANGED <<s_db_header, s_initialized, flash, whole>>

\* wrong variant: the card is not looked up
SetRfidUnchecked(id, card) ==
  /\ Ready
  /\ SlotsOf(id) # {}
  /\ LET s == First(SlotsOf(id)) IN
       WriteUser("set", s, [flash.users[PersonOf(s)] EXCEPT !.card = card],
                 flash.users[FlagsOf(s)] \cup {"RFID_EN"})
  /\ UNCHANGED <<s_db_header, s_initialized, flash, whole>>

user_db_set_rfid(id, card) ==
  /\ Ready
  /\ ~ (FoundEnabled(card) /\ flash.users[PersonOf(First(Holders(flash.users, card)))].id # id)
  /\ SlotsOf(id) # {}
  /\ LET s == First(SlotsOf(id)) IN
       WriteUser("set", s, [flash.users[PersonOf(s)] EXCEPT !.card = card],
                 flash.users[FlagsOf(s)] \cup {"RFID_EN"})
  /\ UNCHANGED <<s_db_header, s_initialized, flash, whole>>

\* Digits and their flag are left out, the rewriting of the page is not.
user_db_set_password(id) ==
  /\ Ready
  /\ SlotsOf(id) # {}
  /\ LET s == First(SlotsOf(id)) IN
       WriteUser("set", s, flash.users[PersonOf(s)], flash.users[FlagsOf(s)])
  /\ UNCHANGED <<s_db_header, s_initialized, flash, whole>>

\* The caller has read the entry and toggled a flag.
user_db_update_user(id, flag) ==
  /\ Ready
  /\ SlotsOf(id) # {}
  /\ LET s == First(SlotsOf(id))
         f == flash.users[FlagsOf(s)] IN
       WriteUser("set", s, flash.users[PersonOf(s)],
                 IF flag \in f THEN f \ {flag} ELSE f \cup {flag})
  /\ whole' = FALSE
  /\ UNCHANGED <<s_db_header, s_initialized, flash>>

\* The old password is typed, so it is one that can be typed.
user_db_change_master_password(new) ==
  /\ Ready
  /\ s_db_header.master \in Passwords
  /\ s_db_header' = [s_db_header EXCEPT !.master = new]
  /\ WriteHeader("master", [s_db_header EXCEPT !.master = new])
  /\ UNCHANGED <<s_initialized, flash, whole>>
--------------------------------------------------------------------------------
\* The format's erase of the user page, which has no buffer to write back.
Wiping == job.op = "format" /\ job.page = "users"
Writing == job.page \in {"header", "users"} /\ ~ Wiping

ErasePage ==
  /\ Writing /\ job.next = 0
  /\ flash' = [flash EXCEPT ![job.page] = ErasedPage(@)]
  /\ job' = [job EXCEPT !.next = 1]
  /\ UNCHANGED <<s_db_header, s_initialized, s_page_buf, whole>>

ProgramWord ==
  /\ Writing /\ job.next \in DOMAIN s_page_buf
  /\ flash' = [flash EXCEPT ![job.page] = Programmed(@, s_page_buf, job.next)]
  /\ job' = [job EXCEPT !.next = @ + 1]
  /\ UNCHANGED <<s_db_header, s_initialized, s_page_buf, whole>>

\* wrong variant: deleting does not count
CountedUp(op, count) == IF op = "add" THEN count + 1 ELSE count

\* wrong variant: a signed counter
CountedSigned(op, count) == CASE op = "add" -> count + 1
                              [] op = "delete" -> count - 1
                              [] OTHER -> count

Counted(op, count) == CASE op = "add" -> count + 1
                        [] op = "delete" -> (count + Modulus - 1) % Modulus
                        [] OTHER -> count

\* The whole page is back: adding and deleting go on with the header.
UserWritten ==
  /\ Writing /\ job.page = "users" /\ job.next \notin DOMAIN s_page_buf \cup {0}
  /\ s_db_header' = [s_db_header EXCEPT !.count = Counted(job.op, @)]
  /\ IF job.op \in {"add", "delete"}
       THEN WriteHeader(job.op, [s_db_header EXCEPT !.count = Counted(job.op, @)])
       ELSE s_page_buf' = <<>> /\ job' = NoJob
  /\ UNCHANGED <<s_initialized, flash, whole>>

\* After the header a format goes on with the user page; others are done.
HeaderWritten ==
  /\ Writing /\ job.page = "header" /\ job.next \notin DOMAIN s_page_buf \cup {0}
  /\ s_page_buf' = <<>>
  /\ job' = IF job.op = "format" THEN [op |-> "format", page |-> "users", next |-> 0] ELSE NoJob
  /\ UNCHANGED <<s_db_header, s_initialized, flash, whole>>

\* user_db_format does not look at the status of this erase.
Wiped ==
  /\ Wiping
  /\ \/ flash' = [flash EXCEPT !.users = ErasedPage(@)]
     \/ "flash" \in Faults /\ UNCHANGED flash
  /\ whole' = (whole /\ flash'.users = ErasedPage(flash.users))
  /\ s_initialized' = TRUE
  /\ job' = NoJob
  /\ UNCHANGED <<s_db_header, s_page_buf>>

\* flash_write_safe returns at the first error, and so does its caller.
FlashFails ==
  /\ "flash" \in Faults
  /\ Writing /\ job.next \in DOMAIN s_page_buf \cup {0}
  /\ \/ job.next = 0 /\ UNCHANGED flash
     \/ /\ job.next # 0
        /\ \E page \in ProgramFailed(flash[job.page], s_page_buf, job.next) :
             flash' = [flash EXCEPT ![job.page] = page]
  /\ s_page_buf' = <<>>
  /\ job' = NoJob
  /\ whole' = FALSE
  /\ UNCHANGED <<s_db_header, s_initialized>>

\* The pages are as they were before the operation, or as they will be after it.
Unbegun == job.next = 0 /\ (job.op = "master" \/ (job.page = "users" /\ job.op # "format"))
Complete == /\ job.next \notin DOMAIN s_page_buf \cup {0}
            /\ job.op = "set" \/ (job.page = "header" /\ job.op # "format")

\* RAM is lost; the program starts again at user_db_init.
PowerLoss ==
  /\ "power" \in Faults
  /\ job.op # "reset"
  /\ s_db_header' = ZeroHeader
  /\ s_initialized' = FALSE
  /\ s_page_buf' = <<>>
  /\ job' = Off
  /\ whole' = (whole /\ (Idle \/ Unbegun \/ Complete))
  /\ UNCHANGED flash

Operation ==
  \/ AddUser
  \/ \E id \in Halfwords : \/ user_db_delete_user(id)
                           \/ \E card \in Cards : user_db_set_rfid(id, card)
                           \/ user_db_set_password(id)
                           \/ \E flag \in Updates : user_db_update_user(id, flag)
  \/ \E new \in Passwords : user_db_change_master_password(new)

Work == ErasePage \/ ProgramWord \/ UserWritten \/ HeaderWritten \/ Wiped

Next == BootIntact \/ BootFormat \/ Operation \/ Work \/ FlashFails \/ PowerLoss

Spec == Init /\ [][Next]_vars
--------------------------------------------------------------------------------
UserPage == [UserCells -> Persons \cup (SUBSET Flags) \cup {Erased}]

\* Every variable has its type, the counters their width; the RAM copy is only
\* without a password that can be typed when the page was (user_db_init).
TypeOK ==
  /\ s_db_header \in Header
  /\ s_initialized \in BOOLEAN
  /\ DOMAIN flash = {"header", "users"}
  /\ DOMAIN flash.header = HeaderCells /\ DOMAIN flash.users = UserCells
  /\ flash.header[Magic] \in {"magic", Erased}
  /\ flash.header[Count] \in Halfwords \cup {Erased}
  /\ flash.header[NextId] \in Halfwords \cup {Erased}
  /\ flash.header[Master] \in Passwords \cup {Erased}
  /\ \A s \in Slots : /\ flash.users[PersonOf(s)] \in Persons \cup {Erased}
                      /\ flash.users[FlagsOf(s)] \in (SUBSET Flags) \cup {Erased}
  /\ job.op \in Ops
  /\ job.page \in {"none", "header", "users"}
  /\ job.next \in 0 .. 2 * MaxUsers + 4
  /\ whole \in BOOLEAN

\* No interruption leaves an entry that counts as valid without what precedes
\* its flags: a lookup never sees half an entry (flash_write_safe's order).
NoTornUser == \A s \in ValidSlots(flash.users) : flash.users[PersonOf(s)] # Erased

\* With an idle database, the header counts the users, its next id is above
\* theirs, no id is given twice, and RAM and flash agree, also after restarts,
\* unless an operation was once cut short between the first cell it changed and
\* the last (add, delete: user and header are two writes).
HeaderCorrect ==
  whole /\ Ready => /\ s_db_header.count = Cardinality(ValidSlots(flash.users))
           /\ \A s, t \in ValidSlots(flash.users) :
                /\ flash.users[PersonOf(s)].id < s_db_header.next_id
                /\ flash.users[PersonOf(s)].id = flash.users[PersonOf(t)].id => s = t
           /\ HeaderRead(flash.header) = s_db_header

\* A card opens for one user only, unless its holder could be disabled when it
\* was looked up (user_db_set_rfid, user_admin_on_rfid).
CardHasOneHolder == whole /\ Ready => \A card \in Cards : Cardinality(Holders(flash.users, card)) <= 1

--------------------------------------------------------------------------------
\* What a reader of the database sees: the buffer from the erase on, since then
\* the page is on its way there.
Exposed == Writing /\ job.next > 0
Seen == IF Exposed /\ job.page = "users" THEN s_page_buf ELSE flash.users

Entry(page, s) ==
  IF is_slot_valid(page, s)
    THEN [id |-> page[PersonOf(s)].id, card |-> page[PersonOf(s)].card, flags |-> page[FlagsOf(s)]]
    ELSE Erased
Stored == [s \in Slots |-> Entry(Seen, s)]
InEffect == IF s_initialized THEN s_db_header.master ELSE "off"
Saved == IF flash.header[Magic] = Erased THEN "gone" ELSE flash.header[Master]
Rewriting == Exposed \/ job.op = "format"

Store == INSTANCE UserStore WITH
  Places <- Slots,
  Users <- [id : Halfwords, card : Cards \cup {NoCard}, flags : SUBSET Flags],
  Nobody <- Erased,
  Default <- DefaultPassword,
  store <- Stored, master <- InEffect, saved <- Saved, exposed <- Rewriting

\* The database is the abstract store, whatever fails and when: an operation
\* changes one user, and only a page being rewritten can lose what it holds.
StoreSpec == Store!Spec
================================================================================
