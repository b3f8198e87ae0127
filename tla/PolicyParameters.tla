-------------------------- MODULE PolicyParameters --------------------------
(* What the approval store and the policy engine both speak of.             *)
CONSTANTS
  Callers,     \* processes that issue, consume and ask for authorization
  Grants,      \* approval identifiers; new_storage_id never repeats one
  Bindings,    \* the ApprovalBindings callers may observe
  None         \* an absent optional field; no file, no grant
=============================================================================
