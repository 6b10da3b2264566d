-------------------------------- MODULE Store --------------------------------
(***************************************************************************)
(* What the ledgers expect of atomic_write_bytes(): each call replaces the *)
(* content of its own file in one step, returns only once the new content  *)
(* is safe, and otherwise raises or dies.  A power loss can take back what *)
(* is not safe and nothing else, provided the directory the store lives in *)
(* is itself on the disk: in an unsound store nothing is safe from it.     *)
(***************************************************************************)
CONSTANT Calls       \* the calls, each for a file of its own

VARIABLES
    content,         \* content[c]: "old" (possibly absent) or "new"
    safe,            \* safe[c]: the new content would survive in a sound store
    sound,           \* the place the store lives in would survive
    status           \* "calling", "returned", "raised" or "dead"

storeVars == <<content, safe, sound, status>>

StoreInit ==
    /\ content = [c \in Calls |-> "old"]
    /\ safe = [c \in Calls |-> FALSE]
    /\ sound \in BOOLEAN
    /\ status = [c \in Calls |-> "calling"]

TakeEffect(c) ==
    /\ status[c] = "calling"
    /\ content' = [content EXCEPT ![c] = "new"]
    /\ UNCHANGED <<safe, sound, status>>

(* The medium catches up, at any time and for any of the files at once. *)
Harden ==
    /\ safe' \in [Calls -> BOOLEAN]
    /\ \A c \in Calls :
          /\ safe[c] => safe'[c]
          /\ safe'[c] => content[c] = "new"
    /\ sound' \in {sound, TRUE}
    /\ UNCHANGED <<content, status>>

Return(c) ==
    /\ status[c] = "calling"
    /\ content[c] = "new" /\ safe[c]
    /\ status' = [status EXCEPT ![c] = "returned"]
    /\ UNCHANGED <<content, safe, sound>>

(* An exception says nothing of whether the new content is in place. *)
GiveUp(c) ==
    /\ status[c] = "calling"
    /\ \E s \in {"raised", "dead"} : status' = [status EXCEPT ![c] = s]
    /\ UNCHANGED <<content, safe, sound>>

LosePower ==
    /\ content' \in [Calls -> {"old", "new"}]
    /\ \A c \in Calls :
          /\ content[c] = "old" => content'[c] = "old"
          /\ sound /\ safe[c] => content'[c] = "new"
    /\ safe' = [c \in Calls |-> content'[c] = "new"]
    /\ status' = [c \in Calls |->
          IF status[c] = "calling" THEN "dead" ELSE status[c]]
    /\ UNCHANGED sound

StoreNext ==
    \/ \E c \in Calls : TakeEffect(c) \/ Return(c) \/ GiveUp(c)
    \/ Harden
    \/ LosePower

StoreSpec == StoreInit /\ [][StoreNext]_storeVars
===============================================================================
