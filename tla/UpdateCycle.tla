---------------------------- MODULE UpdateCycle ----------------------------
(***************************************************************************)
(* What the remote update promises, whatever its threads, flash slots and  *)
(* retries look like: an image is handed over, its start on the user's     *)
(* board is acknowledged, and only then is its version recorded as the one *)
(* the board runs.  FirmwareUpdate implements this specification.          *)
(***************************************************************************)

CONSTANTS Versions,  \* the updates a server can command
          Labels,    \* the version texts the EEPROM can hold
          LabelOf,   \* the text recorded for an update, a function on Versions
          Factory,   \* the text written when the board identifies itself first
          None       \* no image

VARIABLES phase,     \* "rest", "handed" over, or "started"
          image,     \* the image in hand
          running,   \* the image whose start was acknowledged last
          recorded   \* the version text in the EEPROM

vars == <<phase, image, running, recorded>>

Init == /\ phase = "rest"
        /\ image = None
        /\ running = None
        /\ recorded \in Labels

\* An image is handed to the sender.
Hand(v) == /\ phase = "rest"
           /\ phase' = "handed"
           /\ image' = v
           /\ UNCHANGED <<running, recorded>>

\* The user's board acknowledges that the image in hand was started.
Start == /\ phase = "handed"
         /\ phase' = "started"
         /\ running' = image
         /\ UNCHANGED <<image, recorded>>

\* Its version is recorded, or the EEPROM refuses the write.
Record == /\ phase = "started"
          /\ phase' = "rest"
          /\ image' = None
          /\ recorded' \in {recorded, LabelOf[running]}
          /\ UNCHANGED running

\* A reboot forgets the cycle under way.
Lose == /\ phase' = "rest"
        /\ image' = None
        /\ UNCHANGED <<running, recorded>>

\* A board that cannot read its EEPROM identifies itself anew.
Identify == /\ phase = "rest"
            /\ recorded' = Factory
            /\ UNCHANGED <<phase, image, running>>

Next == \/ \E v \in Versions : Hand(v)
        \/ Start
        \/ Record
        \/ Lose
        \/ Identify

Spec == Init /\ [][Next]_vars
=============================================================================
