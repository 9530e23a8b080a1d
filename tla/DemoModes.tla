------------------------------ MODULE DemoModes ------------------------------
(***************************************************************************)
(* What follows the active demo on the agent screen beside its agent (see  *)
(* AgentScreen): the settings, the route on the map, the prompt in the     *)
(* composer, the timers of its texts, and the hotkeys and console messages *)
(* that choose the demo.                                                   *)
(*                                                                         *)
(* A demo is chosen inside one event, whose effects (the mode's, then the  *)
(* lifecycle's) run before the next event.  A lifecycle waits for the      *)
(* agent in live mode and goes on at once in cached mode.                  *)
(***************************************************************************)
EXTENDS Integers, FiniteSets, DemoConfig

CONSTANTS
    Keys,       \* hotkeys pressed
    AutoDemo,   \* the demo the page was opened with, or None
    Scales,     \* time scales typed, in quarters
    MaxStarts   \* bound: lifecycles that waited

VARIABLES
    demo, cached,       \* activeDemo, runCachedMessages
    waits, starts,      \* lifecycles that wait for an agent: [id, demo], and their number
    auto,               \* the timer of maybeAutoStartDemo is pending
    secure, cloud,      \* _secureMode, _cloudAssistMode
    speed,              \* cachedMessageTimeScale, in halves
    skills,             \* filterSettings.showLoadSkills
    route, chatCard,    \* the route on the map, whether the chat begins with a card
    input,              \* chatInput
    busy, dots, dotsTimer,     \* _isAgentWorking, intervals running, and whether one is held
    label, labelTimers, labelTimer  \* modeSwitchLabel, timers pending, whether one is held

modesVars == <<demo, cached, waits, starts, auto, secure, cloud, speed,
               skills, route, chatCard, input, busy, dots, dotsTimer, label,
               labelTimers, labelTimer>>

(* isAgentWorking: the text of the composer moves while the agent works. *)
Working(val) ==
    /\ busy' = val
    /\ dots' = CASE val /\ ~dotsTimer -> dots + 1 [] ~val /\ dotsTimer -> dots - 1
                 [] OTHER -> dots
    /\ dotsTimer' = val

(* clampSnapCachedMessageTimeScale, of quarters: 0.5 to 10, by halves, a
   quarter rounding up. *)
ClampSnap(q) ==
    LET clamped == IF q > 40 THEN 40 ELSE IF q < 2 THEN 2 ELSE q
    IN  (clamped + 1) \div 2

-----------------------------------------------------------------------------
(* The lifecycle. *)

(* From the agent on; the shells may just have been set.  The cloud shell is switched on and never off; Sandbox
   leaves its route to the camera's intro. *)
Settle(d, isSecure, isCloud) ==
    LET config == DEMO_CONFIG[d] IN
    /\ cloud' = (isCloud \/ d = "5b")
    /\ secure' = IF d \in {"7a", "7b"} THEN d = "7b" ELSE isSecure
    /\ route' = IF d # "Sandbox" THEN config.route ELSE None
    /\ chatCard' = (config.card # <<>>) /\ input' = config.prompt
    /\ Working(FALSE)

(* Up to the agent: paths, chat and time scale. *)
Lifecycle(d, isCached, isSecure, isCloud) ==
    LET config == DEMO_CONFIG[d] IN
    /\ speed' = IF config.recordings > 0 THEN ClampSnap(2 * config.timeScale) ELSE 2
    /\ skills' = config.build
    /\ IF isCached
       THEN Settle(d, isSecure, isCloud) /\ UNCHANGED <<waits, starts>>
       ELSE /\ starts < MaxStarts
            /\ starts' = starts + 1
            /\ waits' = waits \cup {[id |-> starts, demo |-> d]}
            /\ route' = None /\ chatCard' = FALSE
            /\ secure' = isSecure /\ cloud' = isCloud
            /\ UNCHANGED <<input, busy, dots, dotsTimer>>

(* select, and the effects it sets off; choosing the active demo resets it. *)
Select(id) ==
    LET isCached == cached /\ DEMO_CONFIG[id].recordings > 0 IN
    /\ demo' = id /\ cached' = isCached
    /\ Lifecycle(id, isCached, secure, cloud)

(* Slip: the timer of an earlier label goes on. *)
ToggleCachedManyTimers ==
    LET value == ~cached IN
    /\ value => DEMO_CONFIG[demo].recordings > 0
    /\ demo' = demo /\ cached' = value /\ Lifecycle(demo, value, secure, cloud)
    /\ label' = IF value THEN "Cached" ELSE "Live"
    /\ labelTimers' = labelTimers + 1
    /\ labelTimer' = TRUE

(* cachedMessagesToggle: setRunCachedMessages and its feedback, which ends
   that of an earlier toggle; then the lifecycle.  Without a recording the
   cached mode is refused, and the lifecycle runs. *)
ToggleCached ==
    LET value == ~cached
        refused == value /\ DEMO_CONFIG[demo].recordings = 0
    IN  IF refused
        THEN /\ Select(demo) /\ UNCHANGED <<label, labelTimers, labelTimer>>
        ELSE /\ demo' = demo /\ cached' = value /\ Lifecycle(demo, value, secure, cloud)
             /\ label' = IF value THEN "Cached" ELSE "Live"
             /\ labelTimers' = labelTimers + IF labelTimer THEN 0 ELSE 1
             /\ labelTimer' = TRUE

LabelExpires ==
    /\ labelTimers > 0
    /\ label' = "" /\ labelTimers' = labelTimers - 1 /\ labelTimer' = FALSE
    /\ UNCHANGED <<demo, cached, waits, starts, auto, secure, cloud, speed,
                   skills, route, chatCard, input, busy, dots, dotsTimer>>

(* Slip: a lifecycle that waited goes on whatever demo is active. *)
AgentArrivesAnyhow(w) ==
    /\ waits' = waits \ {w}
    /\ Settle(w.demo, secure, cloud)
    /\ UNCHANGED <<demo, cached, starts, auto, speed, skills, label,
                   labelTimers, labelTimer>>

(* onInitAgent is over, with an agent or without. *)
AgentArrives(w) ==
    /\ waits' = waits \ {w}
    /\ IF demo = w.demo THEN Settle(w.demo, secure, cloud)
       ELSE UNCHANGED <<secure, cloud, route, chatCard, input, busy, dots, dotsTimer>>
    /\ UNCHANGED <<demo, cached, starts, auto, speed, skills, label,
                   labelTimers, labelTimer>>

-----------------------------------------------------------------------------
(* What the user does. *)

Cameras == <<"a", "s", "d">>

(* onKeyDown, with Ctrl.  A key that names no demo moves the camera or opens
   the other panels, which is not followed here. *)
Press(key, shift) ==
    /\ UNCHANGED auto
    /\ CASE key = "l" -> ToggleCached
         [] key = "r" -> Select(demo) /\ UNCHANGED <<label, labelTimers, labelTimer>>
         [] key \notin {"d", "l", "r"} /\ HotkeyDemo(key, shift) # None ->
                Select(HotkeyDemo(key, shift)) /\ UNCHANGED <<label, labelTimers, labelTimer>>
         [] OTHER -> UNCHANGED modesVars

(* onConsoleMessage: the operator's console does what hotkeys do. *)
ConsoleSelects(id) ==
    /\ Select(id) /\ UNCHANGED <<auto, label, labelTimers, labelTimer>>

ConsoleToggles == ToggleCached /\ UNCHANGED auto

(* maybeAutoStartDemo: after a moment, whatever was chosen meanwhile. *)
AutoStarts ==
    /\ auto /\ auto' = FALSE
    /\ Select(AutoDemo) /\ UNCHANGED <<label, labelTimers, labelTimer>>

(* setPlannerSecurity and setSecureMode, of the settings of a security demo. *)
SetSecure(value) ==
    LET id == IF value THEN "7b" ELSE "7a" IN
    /\ DEMO_CONFIG[demo].security /\ secure # value
    /\ demo' = id /\ UNCHANGED cached
    /\ Lifecycle(id, cached, value, cloud)
    /\ UNCHANGED <<auto, label, labelTimers, labelTimer>>

(* setRunCachedMessages, of the settings: the mode alone, without a label and
   without a lifecycle. *)
MenuSetsCached(value) ==
    /\ value # cached /\ (value => DEMO_CONFIG[demo].recordings > 0)
    /\ cached' = value
    /\ UNCHANGED <<demo, waits, starts, auto, secure, cloud, speed, skills, route,
                   chatCard, input, busy, dots, dotsTimer, label, labelTimers,
                   labelTimer>>

(* setCloudAssistMode, of the settings of the infrastructure demos. *)
SetCloudAssist(value) ==
    LET id == IF value THEN "5b" ELSE "5a" IN
    /\ demo \in {"5a", "5b"}
    /\ demo' = id /\ UNCHANGED cached
    /\ Lifecycle(id, cached, secure, value)
    /\ UNCHANGED <<auto, label, labelTimers, labelTimer>>

(* onCachedMessageTimeScaleChange *)
SetTimeScale(q) ==
    /\ ClampSnap(q) # speed
    /\ speed' = ClampSnap(q)
    /\ UNCHANGED <<demo, cached, waits, starts, auto, secure, cloud, skills,
                   route, chatCard, input, busy, dots, dotsTimer, label, labelTimers,
                   labelTimer>>

(* onSend: the chat holds what was sent. *)
Send ==
    /\ ~busy /\ input # "" /\ (cached \/ waits = {})
    /\ input' = "" /\ chatCard' = (chatCard /\ ~cached)
    /\ Working(TRUE)
    /\ UNCHANGED <<demo, cached, waits, starts, auto, secure, cloud, speed,
                   skills, route, label, labelTimers, labelTimer>>

(* onCachedReplayComplete, or the agent's last answer. *)
Answered ==
    /\ busy /\ Working(FALSE)
    /\ UNCHANGED <<demo, cached, waits, starts, auto, secure, cloud, speed,
                   skills, route, chatCard, input, label, labelTimers, labelTimer>>

(* applyCameraIntroComplete: the route of the demo that is active by then. *)
IntroComplete ==
    /\ DEMO_CONFIG[demo].route # None
    /\ route' = DEMO_CONFIG[demo].route
    /\ UNCHANGED <<demo, cached, waits, starts, auto, secure, cloud, speed,
                   skills, chatCard, input, busy, dots, dotsTimer, label, labelTimers,
                   labelTimer>>

Init ==
    /\ demo = "Sandbox" /\ cached = TRUE /\ waits = {} /\ starts = 0
    /\ auto = (AutoDemo \notin {None, "Sandbox"})
    /\ secure = FALSE /\ cloud = FALSE /\ speed = 2 /\ skills = FALSE
    /\ route = None /\ chatCard = TRUE /\ input = ""
    /\ busy = FALSE /\ dots = 0 /\ dotsTimer = FALSE
    /\ label = "" /\ labelTimers = 0 /\ labelTimer = FALSE

Next ==
    \/ \E key \in Keys, shift \in BOOLEAN : Press(key, shift)
    \/ \E id \in {"Sandbox", "5b"} : ConsoleSelects(id)
    \/ ConsoleToggles \/ AutoStarts
    \/ \E value \in BOOLEAN : SetSecure(value) \/ SetCloudAssist(value)
                              \/ MenuSetsCached(value)
    \/ \E q \in Scales : SetTimeScale(q)
    \/ \E w \in waits : AgentArrives(w)
    \/ LabelExpires \/ Send \/ Answered \/ IntroComplete

Spec == Init /\ [][Next]_modesVars

-----------------------------------------------------------------------------
(* Once no lifecycle waits, what the user sees is the active demo's: the
   security of the planner, the route on the map, if any, and the prompt in
   the composer, unless it was sent.  A lifecycle that another demo overtook
   must leave none of these behind, in whatever order the agents answer. *)
SettingsFollowDemo ==
    waits = {} =>
        /\ demo \in {"7a", "7b"} => secure = (demo = "7b")
        /\ demo = "5b" => cloud
        /\ route \in {None, DEMO_CONFIG[demo].route}
        /\ demo # "Sandbox" => route = DEMO_CONFIG[demo].route
        /\ input \in {"", DEMO_CONFIG[demo].prompt}

(* The label of a switched mode is shown while one timer is pending that will
   end it, and the composer's dots move, by one interval, while the agent
   works: neither a mode switched again nor a demo left while its agent works
   loses a handle. *)
TimersAreOwned ==
    /\ labelTimers = (IF label = "" THEN 0 ELSE 1)
    /\ dots = (IF busy THEN 1 ELSE 0)
=============================================================================
