----------------------------- MODULE GameReboot -----------------------------
(* The handlers of game_reboot_workflow.py, with EmulatorGameRebootDriver:    *)
(* stop and launch the game until its home scene is seen; if that fails,       *)
(* reboot the emulator.                                                        *)
EXTENDS TaskSteps

Steps ==
  <<"validate_input", "load_character", "ensure_account", "ensure_character",
    "preflight_session", "force_stop_game", "verify_game_stopped", "launch_game",
    "wait_for_readiness", "handle_safe_popups", "verify_home_scene", "emulator_reboot",
    "complete", "failed", "cancelled">>

\* The steps of the restart have retries as well, but their handlers never ask for one.
Retried == {"ensure_account", "ensure_character", "preflight_session"}

Slack == 8

\* normal_restart_failed, and readiness_result: the home scene, a popup that is safe to
\* close, anything else; popup, whether one was closed
Memory == [failed |-> FALSE, seen |-> "none", popup |-> FALSE, rebooted |-> FALSE]

Scenes == {"home", "popup", "other"}

\* The steps a restart that failed skips
RestartSteps ==
  {"force_stop_game", "verify_game_stopped", "launch_game", "wait_for_readiness",
   "handle_safe_popups", "verify_home_scene"}

\* A disabled character is skipped.
Prepare(s, c) ==
  IF s = "load_character"
    THEN Opening(s, c) \cup Stop(c, "SKIPPED", "plain")
    ELSE Opening(s, c)

\* The emulator runs and is reached, or the watchdog recovers it, or not.
PreflightSession(c) ==
  Need(c, c.char /\ c.policy,
    LET monitored == [c EXCEPT !.rescued = TRUE] IN
      Ok(c) \cup Ok(monitored) \cup Retry(monitored) \cup StopSaying(monitored, "BLOCKED"))

MarkNormalRestartFailed(c) == Ok([c EXCEPT !.m.failed = TRUE])

\* _normal_restart_action
NormalRestartAction(c, done) == Ok(done) \cup MarkNormalRestartFailed(done)

ForceStopGame(c) ==
  LET stopped == Act(c, ~c.m.failed, "home") IN Need(c, c.policy, NormalRestartAction(c, stopped))

\* verify_game_stopped, launch_game
RestartAction(c) == Need(c, c.policy, NormalRestartAction(c, c))

\* _readiness_step: the home scene, of the right account and character
ReadinessStep(c, ready) ==
  Need(c, c.char /\ c.policy,
    UNION {LET d == [c EXCEPT !.m.seen = scene] IN
             (IF scene = "home" THEN Ok(IF ready THEN Verified(d, "home") ELSE d) ELSE {})
               \cup MarkNormalRestartFailed(d) : scene \in Scenes})

WaitForReadiness(c) == ReadinessStep(c, FALSE)

HandleSafePopups(c) ==
  IF c.m.seen \in {"none", "home"}
    THEN Skip(c)
    ELSE NormalRestartAction(c, [c EXCEPT !.m.popup = c.m.seen = "popup"])

VerifyHomeScene(c) == ReadinessStep(c, TRUE)

\* The policy allows a reboot of the emulator or not; ready afterwards or not.
EmulatorReboot(c) ==
  LET rebooted == [Act(c, c.m.failed, "home") EXCEPT !.m.rebooted = TRUE] IN
    Need(c, c.policy,
      IF ~c.m.failed
        THEN Skip(c)
        ELSE Stop(c, "BLOCKED", "plain")
               \cup Need(c, c.char, Ok(Verified(rebooted, "home")) \cup Stop(rebooted, "BLOCKED", "plain")))

\* failed opens no incident: execute() does, and opens the circuit breaker
Concludes(s, c) ==
  IF s = "failed" THEN (IF Failed(c) THEN Raise(c) ELSE Skip(c)) ELSE Conclude(s, c)

Handler(s, c) ==
  Guarded(s, c, {"complete", "failed"},
    CASE s \in RestartSteps /\ c.m.failed -> Skip(c)
      [] s = "preflight_session" -> PreflightSession(c)
      [] s = "force_stop_game" -> ForceStopGame(c)
      [] s \in {"verify_game_stopped", "launch_game"} -> RestartAction(c)
      [] s = "wait_for_readiness" -> WaitForReadiness(c)
      [] s = "handle_safe_popups" -> HandleSafePopups(c)
      [] s = "verify_home_scene" -> VerifyHomeScene(c)
      [] s = "emulator_reboot" -> EmulatorReboot(c)
      [] s \in {"complete", "failed"} -> Concludes(s, c)
      [] OTHER -> Prepare(s, c))

Report == [UsualReport EXCEPT !.recovers = {}]

ActLimit == 2   \* the stop of the game and the reboot of the emulator
=============================================================================
