--------------------------- MODULE RenderContract ---------------------------
(***************************************************************************)
(* What every render plugin promises the player about a RenderBuffer.      *)
(*                                                                         *)
(* The player owns its buffers; displayFrame hands one to the plugin, the  *)
(* plugin reports exactly once whether it was displayed or dropped and,    *)
(* never before that report, gives it back with the release callback.      *)
(* Nothing is kept once closeWindow has returned.                          *)
(*                                                                         *)
(* Callbacks of one critical section of a plugin are one step here, so a   *)
(* step may move several buffers, each along one edge of the diagram.      *)
(***************************************************************************)

CONSTANT Buffers        \* the RenderBuffers of the player's pool

VARIABLES window,       \* "closed" or "open": between openWindow and the end of closeWindow
          holder,       \* holder[b]: who may write to b, "player" or "plugin"
          fate          \* fate[b]: what was reported of b's current or last submission

contractVars == <<window, holder, fate>>

Windows == {"closed", "open"}
Holders == {"player", "plugin"}
Fates   == {"none", "displayed", "dropped"}

ContractInit ==
    /\ window = "closed"
    /\ holder = [b \in Buffers |-> "player"]
    /\ fate = [b \in Buffers |-> "none"]

-----------------------------------------------------------------------------
(* The edges: each says how b's holder and fate change. *)

Keep(b) ==
    /\ holder'[b] = holder[b]
    /\ fate'[b] = fate[b]

Accept(b) ==            \* displayFrame takes the buffer
    /\ window = "open"
    /\ holder[b] = "player" /\ holder'[b] = "plugin"
    /\ fate'[b] = "none"

Refuse(b) ==            \* displayFrame drops the buffer and hands it back at once
    /\ holder[b] = "player" /\ holder'[b] = "player"
    /\ fate'[b] = "dropped"

Display(b) ==           \* the displayed callback
    /\ holder[b] = "plugin" /\ holder'[b] = "plugin"
    /\ fate[b] = "none" /\ fate'[b] = "displayed"

Drop(b) ==              \* the dropped callback
    /\ holder[b] = "plugin" /\ holder'[b] = "plugin"
    /\ fate[b] = "none" /\ fate'[b] = "dropped"

Discard(b) ==           \* the dropped callback, then the release callback
    /\ holder[b] = "plugin" /\ holder'[b] = "player"
    /\ fate[b] = "none" /\ fate'[b] = "dropped"

Release(b) ==           \* the release callback of a reported buffer
    /\ holder[b] = "plugin" /\ holder'[b] = "player"
    /\ fate[b] # "none" /\ fate'[b] = fate[b]

Edge(b) ==
    \/ Keep(b) \/ Accept(b) \/ Refuse(b)
    \/ Display(b) \/ Drop(b) \/ Discard(b) \/ Release(b)

ContractNext ==
    /\ window' \in Windows
    /\ holder' \in [Buffers -> Holders]
    /\ fate' \in [Buffers -> Fates]
    /\ \A b \in Buffers : Edge(b)
    /\ window' = "closed" => \A b \in Buffers : holder'[b] = "player"

ContractSpec == ContractInit /\ [][ContractNext]_contractVars
=============================================================================
