--------------------------- MODULE MCVulkanDevice ---------------------------
(* Small instances of VulkanDevice for TLC. *)
EXTENDS VulkanDevice

CONSTANTS buf, mem   \* a buffer, and the memory block it is placed in

(* The buffer is a member of the block. *)
MCMembers == [r \in Resource |-> IF r = mem THEN {buf} \cap Resource ELSE {}]

=============================================================================
