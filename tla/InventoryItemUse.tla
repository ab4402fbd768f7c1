-------------------------- MODULE InventoryItemUse --------------------------
(* The handlers of inventory_item_use_workflow.py: use a quantity of one     *)
(* whitelisted item within its budget, or only preview it.                   *)
EXTENDS TaskSteps

Steps ==
  <<"validate_input", "load_character", "ensure_account", "ensure_character",
    "ensure_game_running", "open_inventory", "scan_inventory", "select_item",
    "verify_item_identity", "check_budget", "preview_item_use", "enter_quantity",
    "confirm_usage", "verify_inventory_delta", "complete", "skipped", "recover", "failed",
    "cancelled">>

Retried ==
  {"ensure_account", "ensure_character", "ensure_game_running", "open_inventory",
   "scan_inventory", "verify_item_identity", "verify_inventory_delta"}

Slack == 12

\* requested_quantity, and the least of max_per_run and what remains of the budgets
Quantities == 1..2
Budget == 1

\* An item of the requested type: PREMIUM stands for the rare ones too, each with
\* its own flag; sure, if its identity and scene are verified with confidence
Items == [rarity : {"COMMON", "PREMIUM"}, sure : BOOLEAN, available : 0..2]

\* selected_quantity, dry_run and allow_premium_items, the progress of the item,
\* the quantity seen when it was verified, whether the use was confirmed
Memory ==
  [quantity |-> 0, dry |-> FALSE, premium |-> FALSE, item |-> "none", available |-> 0,
   preview |-> FALSE, confirmed |-> FALSE]

Prepare(s, c) ==
  CASE s = "validate_input" ->
         Stop(c, "BLOCKED", "plain")   \* the type is not whitelisted
           \cup Then(Opening(s, c), LAMBDA d :
                  UNION {Ok([d EXCEPT !.m.quantity = q, !.m.dry = flags[1], !.m.premium = flags[2]])
                         : q \in Quantities, flags \in BOOLEAN \X BOOLEAN})
    [] s = "ensure_game_running" -> Ok(c)   \* left to the driver
    [] OTHER -> Opening(s, c)

\* _item_skip_reason: the flag for the rarity decides alone
Allowed(item, premium) ==
  IF item.rarity = "PREMIUM" THEN premium ELSE item.sure /\ item.available > 0

ScanInventory(c) ==
  Need(c, c.char /\ c.policy,
    StopSaying(c, "BLOCKED") \cup Stop(c, "BLOCKED", "plain")
      \cup UNION {IF Allowed(item, c.m.premium) THEN Ok([c EXCEPT !.m.item = "selected"])
                  ELSE Stop(c, "BLOCKED", "plain") : item \in Items})

SelectItem(c) == Need(c, c.char /\ c.policy /\ c.m.item # "none", ActionToStep(c, c))

VerifyItemIdentity(c) ==
  Need(c, c.char /\ c.policy /\ c.m.item # "none",
    UNION {IF ~Allowed(item, c.m.premium) THEN Stop(c, "BLOCKED", "manual")
           ELSE IF item.available < c.m.quantity THEN Stop(c, "BLOCKED", "plain")
           ELSE Ok([c EXCEPT !.m.item = "verified", !.m.available = item.available]) : item \in Items})

CheckBudget(c) ==
  Need(c, c.policy, IF c.m.quantity > Budget THEN Stop(c, "BLOCKED", "plain") ELSE Ok(c))

PreviewItemUse(c) == Need(c, c.policy /\ c.m.item = "verified", Ok([c EXCEPT !.m.preview = c.m.dry]))

EnterQuantity(c) == Need(c, c.char /\ c.policy /\ c.m.item = "verified", ActionToStep(c, c))

\* A prompt for a premium or rare item is not answered.
ConfirmUsage(c) ==
  LET used == Act(c, ~c.m.dry /\ c.m.quantity <= Budget /\ c.m.quantity <= c.m.available, "item") IN
    Need(c, c.char /\ c.policy /\ c.m.item = "verified",
      Stop(used, "BLOCKED", "manual") \cup ActionToStep(used, [used EXCEPT !.m.confirmed = TRUE]))

\* _inventory_delta_verified; what is not verified is not retried
VerifyInventoryDelta(c) ==
  Need(c, c.char /\ c.policy /\ c.m.item = "verified" /\ c.m.confirmed,
    Ok(Verified(c, "item")) \cup StopSaying(c, "BLOCKED"))

Concludes(s, c) == Conclude(s, c)

\* A preview alone goes on to complete.
Handler(s, c) ==
  IF c.stop = "none" /\ c.m.preview /\ s \in {"enter_quantity", "confirm_usage", "verify_inventory_delta"}
    THEN Skip(c)
    ELSE Guarded(s, c, {"recover", "complete", "skipped", "failed"},
           CASE s = "scan_inventory" -> ScanInventory(c)
             [] s = "select_item" -> SelectItem(c)
             [] s = "verify_item_identity" -> VerifyItemIdentity(c)
             [] s = "check_budget" -> CheckBudget(c)
             [] s = "preview_item_use" -> PreviewItemUse(c)
             [] s = "enter_quantity" -> EnterQuantity(c)
             [] s = "confirm_usage" -> ConfirmUsage(c)
             [] s = "verify_inventory_delta" -> VerifyInventoryDelta(c)
             [] s \in {"complete", "skipped", "recover", "failed"} -> Concludes(s, c)
             [] OTHER -> Prepare(s, c))

Report == UsualReport

ActLimit == 1
=============================================================================
