-------------------------------- MODULE Sensor --------------------------------
(***************************************************************************)
(* A whole sensor: the mesh node of SensorNode with the main task of       *)
(* sensor_main.c, the proximity filter of dp_radar_filter.c, the berth     *)
(* light and the button of dp_io.c, and the radar on the other end of the  *)
(* UART.  The main task waits for the ready callback, then reads a frame,  *)
(* judges it, lights the berth light and now and then publishes; after     *)
(* RECOVERY_THRESHOLD reads without a frame it tells the radar again to    *)
(* report.  Between any two of its steps the other tasks may run.          *)
(*                                                                         *)
(* A frame is reduced to whether its target is in range (present, nearer   *)
(* than PROX_CM, not at distance 0).  Time is counted in rounds of the     *)
(* loop.                                                                   *)
(***************************************************************************)
EXTENDS SensorNode

CONSTANTS PROX_FRAMES,         \* CONFIG_DOCKPULSE_PROXIMITY_STABILITY_FRAMES
          RECOVERY_THRESHOLD,
          PublishRounds,       \* publish_interval, in rounds of the loop
          HoldPolls            \* DOCKPULSE_FACTORY_RESET_HOLD_MS, in polls

ASSUME LoopAssumption ==
  /\ PROX_FRAMES \in Nat \ {0} /\ RECOVERY_THRESHOLD \in Nat \ {0}
  /\ PublishRounds \in Nat \ {0} /\ HoldPolls \in Nat \ {0}

VARIABLES
  mainAt,      \* where dp_sensor_run is
  failures,    \* consecutive_failures
  streak,      \* s_prox_streak
  legs,        \* the legs of the berth light that are on
  age,         \* rounds since last_publish; PublishRounds when it is 0
  held,        \* held_ms of the button task, in polls
  pressed,     \* the button's level
  inRange,     \* there is a target in range of the radar
  reporting,   \* the radar is in its report mode
  recent,      \* the verdicts on the last frames read, as a reference
  reported     \* what the last status that was sent said

mainVars == <<mainAt, failures, streak, legs, age, recent, reported>>
worldVars == <<pressed, inRange, reporting>>
vars == <<nodeVars, mainVars, held, worldVars>>

TypeOK ==
  /\ NodeTypeOK
  /\ mainAt \in {"start", "wait", "read", "lit", "status", "diag"}
  /\ failures \in 0..RECOVERY_THRESHOLD - 1
  /\ streak \in 0..PROX_FRAMES
  /\ legs \subseteq {"green", "red"}
  /\ age \in 0..PublishRounds
  /\ held \in 0..HoldPolls - 1
  /\ pressed \in BOOLEAN /\ inRange \in BOOLEAN /\ reporting \in BOOLEAN
  /\ recent \in Seq(BOOLEAN) /\ Len(recent) <= PROX_FRAMES
  /\ reported \in {"none", "free", "occupied"}

MainInit ==
  /\ mainAt = "start"
  /\ failures = 0
  /\ streak = 0
  /\ legs = {}
  /\ age = PublishRounds
  /\ recent = <<>>
  /\ reported = "none"

Init ==
  /\ Blank /\ RamInit
  /\ MainInit
  /\ held = 0
  /\ pressed = FALSE
  /\ inRange \in BOOLEAN
  /\ reporting = FALSE

(* A restart takes the tasks with it; the world stays as it is.            *)
TasksRestart ==
  /\ mainAt' = "start"
  /\ failures' = 0
  /\ streak' = 0
  /\ legs' = {}
  /\ age' = PublishRounds
  /\ recent' = <<>>
  /\ reported' = "none"
  /\ held' = 0
  /\ UNCHANGED worldVars

-----------------------------------------------------------------------------
(* The proximity filter, dp_radar_filter_near.                             *)

(* Mutant: a frame out of range only takes one off the streak.             *)
StreakDecays(near) ==
  IF near THEN IF streak < PROX_FRAMES THEN streak + 1 ELSE streak
  ELSE IF streak > 0 THEN streak - 1 ELSE 0

StreakAfter(near) ==
  IF near THEN IF streak < PROX_FRAMES THEN streak + 1 ELSE streak ELSE 0

Near(s) == s >= PROX_FRAMES

(* dp_berth_led_set: the other leg goes off before the right one goes on.  *)
LegFor(near) == IF near THEN "red" ELSE "green"
OtherLeg(near) == LegFor(~near)

KeepLast(s, n) == IF Len(s) <= n THEN s ELSE SubSeq(s, Len(s) - n + 1, Len(s))

-----------------------------------------------------------------------------
(* dp_sensor_run.                                                          *)

(* The berth light is set up, then dp_mesh_init runs.                      *)
Starts ==
  /\ mainAt = "start"
  /\ Boot
  /\ mainAt' = "wait"
  /\ legs' = {"green"}
  /\ UNCHANGED <<failures, streak, age, recent, reported, held, worldVars>>

(* dp_radar_enter_report_mode: the radar hears the command, or it does not *)
(* and nobody looks at the error.                                          *)
RadarHears == reporting' = TRUE
RadarDeaf == "garble" \in Faults /\ UNCHANGED reporting

(* The wait for s_mesh_ready is over, and dp_radar_init runs.              *)
StartsLoop ==
  /\ mainAt = "wait" /\ readyCalls > 0
  /\ RadarHears \/ RadarDeaf
  /\ mainAt' = "read"
  /\ UNCHANGED <<nodeVars, failures, streak, legs, age, recent, reported, held,
                 pressed, inRange>>

(* vTaskDelay(read_interval), at the end of a round.                       *)
Older == IF age < PublishRounds THEN age + 1 ELSE age
RoundEnds == mainAt' = "read" /\ age' = Older

(* Mutant: the count is not reset, and equals the threshold only once.     *)
CountsOn == IF failures < RECOVERY_THRESHOLD THEN failures + 1 ELSE failures

AtThreshold == failures + 1 = RECOVERY_THRESHOLD
AfterFailure == IF AtThreshold THEN 0 ELSE failures + 1

(* dp_radar_read gives up: the radar is silent, or its frame is damaged.   *)
NoFrame ==
  /\ mainAt = "read"
  /\ ~reporting \/ "garble" \in Faults
  /\ failures' = AfterFailure
  /\ RoundEnds
  /\ UNCHANGED <<nodeVars, streak, legs, recent, reported, held, pressed, inRange>>

ReadFails == ~AtThreshold /\ NoFrame /\ UNCHANGED reporting

(* ... once more, and the radar is told again to report.                   *)
ReadFailsAgain(hears) ==
  AtThreshold /\ NoFrame /\ IF hears THEN RadarHears ELSE RadarDeaf

(* A frame is read and judged, and the light's other leg is switched off.  *)
ReadFrame ==
  /\ mainAt = "read" /\ reporting
  /\ failures' = 0
  /\ streak' = StreakAfter(inRange)
  /\ recent' = KeepLast(Append(recent, inRange), PROX_FRAMES)
  /\ legs' = legs \ {OtherLeg(Near(streak'))}
  /\ mainAt' = "lit"
  /\ UNCHANGED <<nodeVars, age, reported, held, worldVars>>

(* Mutant: a publication is due when the last one is recent.               *)
DueAtOnce == age = 0

(* last_publish == 0 || now - last_publish >= publish_interval.            *)
Due == age = PublishRounds

(* The leg of the verdict is switched on.                                  *)
Lights ==
  /\ mainAt = "lit"
  /\ legs' = legs \cup {LegFor(Near(streak))}
  /\ IF Due THEN mainAt' = "status" /\ UNCHANGED age ELSE RoundEnds
  /\ UNCHANGED <<nodeVars, failures, streak, recent, reported, held, worldVars>>

(* dp_mesh_publish_status; its result is dropped.                          *)
PublishStatus(sends) ==
  /\ mainAt = "status"
  /\ Publish(sends)
  /\ reported' = IF ~sends THEN reported
                 ELSE IF Near(streak) THEN "occupied" ELSE "free"
  /\ mainAt' = "diag"
  /\ UNCHANGED <<failures, streak, legs, age, recent, held, worldVars>>

(* dp_mesh_publish_diag; last_publish moves on whatever became of them.    *)
PublishDiag(sends) ==
  /\ mainAt = "diag"
  /\ Publish(sends)
  /\ mainAt' = "read"
  /\ age' = 0
  /\ UNCHANGED <<failures, streak, legs, recent, reported, held, worldVars>>

MainTask ==
  \/ Starts \/ StartsLoop
  \/ ReadFails \/ \E hears \in BOOLEAN : ReadFailsAgain(hears)
  \/ ReadFrame \/ Lights
  \/ \E sends \in BOOLEAN : PublishStatus(sends) \/ PublishDiag(sends)

-----------------------------------------------------------------------------
(* The button task polls; the reset comes with the last poll of a hold.    *)

(* Mutant: a hold is only counted while the mesh is ready.                 *)
PollsWhenReady == pressed /\ readyFired

PollsPressed == pressed

ButtonPoll ==
  /\ held' = IF PollsPressed THEN held + 1 ELSE 0
  /\ held' < HoldPolls
  /\ UNCHANGED <<nodeVars, mainVars, worldVars>>

ButtonFires ==
  /\ PollsPressed /\ held + 1 = HoldPolls
  /\ FactoryReset
  /\ TasksRestart

(* The world: somebody at the button, a boat, the radar.                   *)
Touches ==
  /\ "button" \in Faults
  /\ pressed' = ~pressed
  /\ UNCHANGED <<nodeVars, mainVars, held, inRange, reporting>>

BoatMoves ==
  /\ inRange' = ~inRange
  /\ UNCHANGED <<nodeVars, mainVars, held, pressed, reporting>>

RadarStops ==
  /\ "radar" \in Faults
  /\ reporting /\ reporting' = FALSE
  /\ UNCHANGED <<nodeVars, mainVars, held, pressed, inRange>>

Next ==
  \/ NodeSteps /\ UNCHANGED <<mainVars, held, worldVars>>
  \/ NodeRestarts /\ TasksRestart
  \/ MainTask
  \/ ButtonPoll \/ ButtonFires
  \/ Touches \/ BoatMoves \/ RadarStops

Spec == Init /\ [][Next]_vars

(* The tasks run and the timer fires; a frame, a command or a status that  *)
(* comes again and again gets through once.  Nothing is assumed of the     *)
(* gateway.                                                                *)
LiveSpec ==
  /\ Spec
  /\ WF_vars(MainTask)
  /\ WF_vars(((OnLocalReset \/ OnComplete \/ OnCfgServer)
                  /\ UNCHANGED <<mainVars, held, worldVars>>)
               \/ (OnReset /\ TasksRestart))
  /\ WF_vars((WatchdogExpires /\ UNCHANGED <<mainVars, held, worldVars>>)
               \/ (WatchdogWipes /\ TasksRestart))
  /\ WF_vars(ButtonPoll \/ ButtonFires)
  /\ SF_vars(ReadFrame)
  /\ SF_vars(ReadFailsAgain(TRUE))
  /\ SF_vars(PublishStatus(TRUE))

-----------------------------------------------------------------------------
(* The light shows the verdict on the last frames: red when the target was *)
(* in range "for at least" PROX_FRAMES "consecutive frames"                *)
(* (dp_radar_filter.h), green otherwise; never both, not even while it     *)
(* changes (dp_io.c:203), and it is not dark once the sensor is up.        *)
LightIsVerdict ==
  /\ legs # {"green", "red"}
  /\ mainAt \notin {"start", "lit"} =>
       legs = IF Len(recent) = PROX_FRAMES /\ \A i \in DOMAIN recent : recent[i]
              THEN {"red"} ELSE {"green"}

(* When the main task publishes, the model has its key and an address, as  *)
(* long as the sensor is in the network: the ready callback it waits for   *)
(* does not come before the model is bound (dp_mesh_sensor.c:128-132).     *)
(* What the stack itself then fails to send is dropped all the same.       *)
PublishFindsConfiguration == mainAt \in {"status", "diag"} => CanSend \/ ~provisioned

(* A sensor whose power was cut in the middle of its configuration does    *)
(* not stay half-configured either, once the cuts are over: "expiry means  *)
(* cfg never finished so factory-reset avoids sitting half-configured      *)
(* forever" (dp_mesh_sensor.c:20-21).                                      *)
HalfConfiguredEndsAfterCuts ==
  <>[][~Reboot]_vars => (HalfConfigured ~> ~HalfConfigured)

(* The watchdog finds a sensor whose configuration has not finished, or    *)
(* does nothing: "expiry means cfg never finished"                         *)
(* (dp_mesh_sensor.c:20).                                                  *)
WatchdogFindsUnfinished ==
  [][(WatchdogExpires /\ ~readyFired) \/ WatchdogWipes => cfg < MODEL_PUB_SET]_vars

Looping == mainAt \notin {"start", "wait"}

(* A radar that has fallen silent reports again, however often a command   *)
(* is lost on the way (the recovery of the main loop).                     *)
SilentRadarRecovers == (Looping /\ ~reporting) ~> (reporting \/ ~Looping)

(* A boat that stays is reported, and stays reported: the filter, the      *)
(* interval and the failures on the way delay it only.  A status that is   *)
(* not sent counts as published (sensor_main.c:133), so that it is only    *)
(* made up for by the one after the next interval.                         *)
BoatIsReported ==
  <>[](inRange /\ reporting /\ readyFired /\ provisioned) => <>[](reported = "occupied")

(* Holding the button wipes the sensor whatever else it is doing, as long  *)
(* as the power does not go before the hold is over.                       *)
HeldButtonWipes ==
  (<>[]pressed /\ <>[][~Reboot]_vars) => []<>(~provisioned /\ ~up)
=============================================================================
