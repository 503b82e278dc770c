----------------------------- MODULE SessionKeys -----------------------------
(***************************************************************************)
(* What signing in promises (src/src/modules/accounts/                     *)
(* user-tokens.service.ts): a session is entered by one key at a time.     *)
(* Who turns the key in is owed the next one, once; a key that was turned  *)
(* in opens nothing; and a session that has ended opens for no key, new or *)
(* old.  UserTokens implements it with rows, locks and reads that are out  *)
(* of date by the time they are used.                                      *)
(***************************************************************************)
CONSTANTS Sessions, Tokens

VARIABLES open, ended,  \* sessions whose requests are let in, and that were closed
          keys,         \* <<session, token>>: what can be exchanged
          owed,         \* open sessions somebody is about to get the key of
          past          \* tokens that are or have been keys

keyVars == <<open, ended, keys, owed, past>>

Init == open = {} /\ ended = {} /\ keys = {} /\ owed = {} /\ past = {}

Begin(s) ==
  /\ s \notin open \union ended
  /\ open' = open \union {s} /\ owed' = owed \union {s}
  /\ UNCHANGED <<ended, keys, past>>

Hand(s, t) ==
  /\ s \in owed /\ t \notin past
  /\ keys' = keys \union {<<s, t>>} /\ past' = past \union {t} /\ owed' = owed \ {s}
  /\ UNCHANGED <<open, ended>>

TurnIn(s, t) ==
  /\ <<s, t>> \in keys
  /\ keys' = keys \ {<<s, t>>} /\ owed' = owed \union {s}
  /\ UNCHANGED <<open, ended, past>>

\* Whoever was to get the key is gone: the session has none, for good.
Lose(s) ==
  /\ s \in owed
  /\ owed' = owed \ {s}
  /\ UNCHANGED <<open, ended, keys, past>>

\* Sessions close, with their keys; one that closes may never have been open.
Close(S) ==
  /\ S # {} /\ S \subseteq Sessions \ ended
  /\ open' = open \ S /\ ended' = ended \union S /\ owed' = owed \ S
  /\ keys' = {k \in keys : k[1] \notin S}
  /\ UNCHANGED past

Next ==
  \/ \E s \in Sessions :
       \/ Begin(s) \/ Lose(s)
       \/ \E t \in Tokens : Hand(s, t) \/ TurnIn(s, t)
  \/ \E S \in SUBSET Sessions : Close(S)

Spec == Init /\ [][Next]_keyVars
=============================================================================
