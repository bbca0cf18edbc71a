-------------------------------- MODULE UserStore --------------------------------
(* What user_database.c promises: places that hold users, and a master         *)
(* password.  An operation changes one place.  Failures can hurt only while a  *)
(* page is exposed, between its erase and the end of its rewriting, and then   *)
(* they take users away: they neither invent nor alter one.                    *)
EXTENDS Naturals

CONSTANTS Places, Users, Nobody, Passwords, Default, Erased

VARIABLES store,    \* the user in each place, or Nobody
          master,   \* the password in effect; "off" while the database is
          saved,    \* the one that a restart finds; "gone" with the header
          exposed   \* a page is being rewritten

vars == <<store, master, saved, exposed>>

Init == /\ store = [p \in Places |-> Nobody]
        /\ master = "off" /\ saved = "gone" /\ exposed = FALSE

\* One place gets, loses or changes its user; a user keeps the id.
Change ==
  /\ master # "off" /\ ~ exposed /\ exposed' = TRUE
  /\ \E p \in Places :
       /\ \A q \in Places \ {p} : store'[q] = store[q]
       /\ store'[p] \in Users \cup {Nobody}
       /\ store[p] # Nobody /\ store'[p] # Nobody => store'[p].id = store[p].id
  /\ UNCHANGED <<master, saved>>

\* A new password is in effect before it is saved.
ChangeMaster == /\ master # "off" /\ ~ exposed /\ master' \in Passwords
                /\ UNCHANGED <<store, saved, exposed>>

\* The header is rewritten, to what is in effect; all of it was erased before.
Rewrite == /\ master # "off" /\ ~ exposed /\ exposed' = TRUE /\ saved' = "gone"
           /\ UNCHANGED <<store, master>>

Save == /\ exposed
        /\ saved' \in {Erased, IF master = "off" THEN Default ELSE master}
        /\ UNCHANGED <<store, master, exposed>>

Done == /\ exposed /\ exposed' = FALSE
        /\ UNCHANGED <<store, master, saved>>

\* A store without its header is formatted when it starts.
Format == /\ master = "off" /\ saved = "gone" /\ ~ exposed /\ exposed' = TRUE
          /\ UNCHANGED <<store, master, saved>>

Formatted == /\ exposed /\ exposed' = FALSE
             /\ master = "off" /\ saved # "gone" /\ master' = saved
             /\ store' \in {store, [p \in Places |-> Nobody]}
             /\ UNCHANGED saved

Start == /\ master = "off" /\ saved # "gone" /\ ~ exposed /\ master' = saved
         /\ UNCHANGED <<store, saved, exposed>>

\* What is lost when writing stops halfway, with or without the power.
Interrupted ==
  /\ exposed /\ exposed' = FALSE
  /\ master' \in {master, "off"}
  /\ saved' \in {saved, Erased, IF master = "off" THEN Default ELSE master}
  /\ \A p \in Places : store'[p] \in {store[p], Nobody}

Stop == /\ ~ exposed /\ master' = "off"
        /\ UNCHANGED <<store, saved, exposed>>

Next == \/ Change \/ ChangeMaster \/ Rewrite \/ Save \/ Done \/ Format
        \/ Formatted \/ Start \/ Interrupted \/ Stop

Spec == Init /\ [][Next]_vars
==================================================================================
