---------------------------- MODULE AccountMirror ----------------------------
(***************************************************************************)
(* What a local view promises about the account it mirrors, whatever the   *)
(* order in which full reads and single messages arrive: a row of the view *)
(* changes only to a value that the account has had and the view had not   *)
(* heard out yet, and a row that is heard out is true while the view is    *)
(* sound.  AccountGateway implements it.                                   *)
(***************************************************************************)
CONSTANTS
  Rows,     \* keys of the account's table
  Values,   \* of a row
  Zero      \* the value of a row that is not there

VARIABLES
  truth,    \* the account
  view,     \* the local table
  news,     \* values of each row that are still to be heard
  sound     \* every change since the view was last rebuilt is heard or to be heard

mirror == <<truth, view, news, sound>>

Init ==
  /\ truth \in [Rows -> Values]
  /\ view = [r \in Rows |-> Zero]
  /\ news = [r \in Rows |-> {}]
  /\ sound = FALSE

\* The account changes; a sound view will hear of it.  A value that is to be read may
\* be read as the new one, so an old one need not be heard any more.
Change ==
  /\ truth' \in [Rows -> Values]
  /\ \A r \in Rows :
       IF truth'[r] = truth[r]
       THEN news'[r] \in {news[r], news[r] \cup {truth[r]}}
       ELSE /\ news'[r] \subseteq news[r] \cup {truth'[r]}
            /\ sound => truth'[r] \in news'[r]
  /\ UNCHANGED <<view, sound>>

\* A new connection: everything is to be read again, and the view stays meanwhile.
Attach ==
  /\ ~ sound
  /\ news' = [r \in Rows |-> {truth[r]}]
  /\ sound' = TRUE
  /\ UNCHANGED <<truth, view>>

\* Some of what was to be heard is heard, or lost, and then the view is not sound.
Hear ==
  /\ sound' => sound
  /\ \A r \in Rows :
       /\ view'[r] \in {view[r]} \cup news[r]
       /\ news'[r] \subseteq news[r]
       /\ sound' /\ news'[r] = {} => view'[r] = truth[r]
  /\ UNCHANGED truth

Next == Change \/ Attach \/ Hear

Spec == Init /\ [][Next]_mirror
=============================================================================
