----------------------------- MODULE DemoProofs -----------------------------
(***************************************************************************)
(* Proofs about the demo firmware: DemoInv is an inductive invariant, and  *)
(* with it the screen tells the truth about the wallet, and a gesture acts *)
(* on what the user saw.                                                   *)
(***************************************************************************)
EXTENDS DemoFirmware, TLAPS

-----------------------------------------------------------------------------
(* The frame counter *)

\* Two steps of the counter never lead back to where it was.
LEMMA CounterWraps ==
    ASSUME NEW s \in 0..SequenceSpan - 1
    PROVE  /\ (s + 0) % SequenceSpan = s
           /\ (s + 1) % SequenceSpan \in 0..SequenceSpan - 1
           /\ (s + 1) % SequenceSpan # s
           /\ (s + 2) % SequenceSpan # s
           /\ (((s + 1) % SequenceSpan) + 1) % SequenceSpan = (s + 2) % SequenceSpan
BY DemoAssumption

-----------------------------------------------------------------------------
(* The fields of the demo *)

\* Every field may be replaced by another value of its type.
LEMMA FieldUpdates ==
    ASSUME NEW d \in WalletDemoFields
    PROVE  /\ \A v \in ScreenState : [d EXCEPT !.screen = v] \in WalletDemoFields
           /\ \A v \in 0..SequenceSpan - 1 : [d EXCEPT !.sequence = v] \in WalletDemoFields
           /\ \A v \in 0..MaxTicks : [d EXCEPT !.signing_ticks = v] \in WalletDemoFields
           /\ \A v \in 0..AUTO_SLEEP_MS : [d EXCEPT !.inactivity_ms = v] \in WalletDemoFields
           /\ \A v \in 0..1 : [d EXCEPT !.setup_choice = v] \in WalletDemoFields
           /\ \A v \in Pin : [d EXCEPT !.pin = v] \in WalletDemoFields
           /\ \A v \in Pin : [d EXCEPT !.pin_confirmation = v] \in WalletDemoFields
           /\ \A v \in Pin : [d EXCEPT !.pin_entry = v] \in WalletDemoFields
           /\ \A v \in 0..PIN_DIGITS - 1 : [d EXCEPT !.pin_position = v] \in WalletDemoFields
           /\ \A v \in 0..DigitBase - 1 : [d EXCEPT !.selected_digit = v] \in WalletDemoFields
           /\ \A v \in 0..RecoveryWords - 1 : [d EXCEPT !.recovery_index = v] \in WalletDemoFields
           /\ \A v \in 0..1 : [d EXCEPT !.recovery_check_step = v] \in WalletDemoFields
           /\ \A v \in 0..3 : [d EXCEPT !.recovery_check_choice = v] \in WalletDemoFields
           /\ \A v \in 0..2 : [d EXCEPT !.home_index = v] \in WalletDemoFields
           /\ \A v \in 0..3 : [d EXCEPT !.settings_index = v] \in WalletDemoFields
           /\ \A v \in 0..4 : [d EXCEPT !.page = v] \in WalletDemoFields
           /\ \A v \in 0..2 : [d EXCEPT !.brightness = v] \in WalletDemoFields
           /\ \A v \in 0..MaxWakeCount : [d EXCEPT !.wake_count = v] \in WalletDemoFields
           /\ [d EXCEPT !.setup_complete = TRUE] \in WalletDemoFields
BY DEF WalletDemoFields

LEMMA FieldTypes ==
    ASSUME NEW d \in WalletDemoFields
    PROVE  /\ d.screen \in ScreenState /\ d.sequence \in 0..SequenceSpan - 1
           /\ d.signing_ticks \in 0..MaxTicks /\ d.inactivity_ms \in 0..AUTO_SLEEP_MS
           /\ d.setup_choice \in 0..1
           /\ d.pin \in Pin /\ d.pin_confirmation \in Pin /\ d.pin_entry \in Pin
           /\ d.pin_position \in 0..PIN_DIGITS - 1
           /\ d.selected_digit \in 0..DigitBase - 1
           /\ d.recovery_index \in 0..RecoveryWords - 1
           /\ d.recovery_check_step \in 0..1 /\ d.recovery_check_choice \in 0..3
           /\ d.home_index \in 0..2 /\ d.settings_index \in 0..3
           /\ d.page \in 0..4 /\ d.brightness \in 0..2
           /\ d.wake_count \in 0..MaxWakeCount
BY DEF WalletDemoFields

\* The two agree in all that a screen shows or a handler compares.
Alike(d, e) ==
    /\ d.screen = e.screen /\ d.sequence = e.sequence /\ d.page = e.page
    /\ d.setup_complete = e.setup_complete /\ d.setup_choice = e.setup_choice
    /\ d.pin = e.pin /\ d.pin_confirmation = e.pin_confirmation
    /\ d.pin_entry = e.pin_entry /\ d.pin_position = e.pin_position
    /\ d.selected_digit = e.selected_digit /\ d.recovery_index = e.recovery_index
    /\ d.recovery_check_step = e.recovery_check_step
    /\ d.recovery_check_choice = e.recovery_check_choice
    /\ d.home_index = e.home_index /\ d.settings_index = e.settings_index

\* The two agree in what only setup changes.
SamePins(d, e) ==
    /\ d.setup_complete = e.setup_complete
    /\ d.pin = e.pin /\ d.pin_confirmation = e.pin_confirmation

LEMMA TouchedIsAlike ==
    ASSUME demo \in WalletDemoFields
    PROVE  Touched \in WalletDemoFields /\ Alike(Touched, demo)
<1>1. 0 \in 0..AUTO_SLEEP_MS
  BY DemoAssumption
<1>2. Touched \in WalletDemoFields
  BY <1>1, FieldUpdates DEF Touched
<1>3. QED BY <1>2 DEF Alike, Touched, WalletDemoFields

LEMMA BumpFrameFacts ==
    ASSUME NEW d \in WalletDemoFields
    PROVE  /\ BumpFrame(d) \in WalletDemoFields
           /\ BumpFrame(d).sequence = (d.sequence + 1) % SequenceSpan
           /\ BumpFrame(d).screen = d.screen
           /\ BumpFrame(d).page = d.page
           /\ BumpFrame(d).pin_entry = d.pin_entry
           /\ SamePins(BumpFrame(d), d)
<1>1. (d.sequence + 1) % SequenceSpan \in 0..SequenceSpan - 1
  BY CounterWraps, FieldTypes
<1>2. BumpFrame(d) \in WalletDemoFields
  BY <1>1, FieldUpdates DEF BumpFrame
<1>3. QED BY <1>2 DEF BumpFrame, SamePins, WalletDemoFields

LEMMA SetScreenFacts ==
    ASSUME NEW d \in WalletDemoFields, NEW s \in ScreenState, s # d.screen
    PROVE  /\ SetScreen(d, s) \in WalletDemoFields
           /\ SetScreen(d, s).sequence = (d.sequence + 1) % SequenceSpan
           /\ SetScreen(d, s).screen = s
           /\ SetScreen(d, s).page = 0
           /\ SetScreen(d, s).pin_entry = d.pin_entry
           /\ SamePins(SetScreen(d, s), d)
<1> DEFINE e == [d EXCEPT !.screen = s, !.page = 0]
<1>1. [d EXCEPT !.screen = s] \in WalletDemoFields
  BY FieldUpdates, Zenon
<1>2. e \in WalletDemoFields
  <2>1. [[d EXCEPT !.screen = s] EXCEPT !.page = 0] \in WalletDemoFields
    BY <1>1, 0 \in 0..4, FieldUpdates, Zenon
  <2>2. QED BY <2>1
<1>3. /\ e.screen = s /\ e.page = 0 /\ e.sequence = d.sequence
      /\ e.pin_entry = d.pin_entry /\ SamePins(e, d)
  BY DEF SamePins, WalletDemoFields
<1>4. SetScreen(d, s) = BumpFrame(e)
  BY DEF SetScreen
<1> HIDE DEF e
<1>5. QED BY <1>2, <1>3, <1>4, BumpFrameFacts DEF SamePins

\* What a screen shows depends on the fields Alike compares.
LEMMA CopyOfAlike ==
    ASSUME Alike(demo', demo)
    PROVE  Copy' = Copy
BY DEF Alike, Copy, Shows, PinCopy, RecoveryTitle, RecoveryCandidate

-----------------------------------------------------------------------------
(* What a press does *)

PinScreens == {"RecoveryIntro", "RecoveryWord", "RecoveryCheck",
               "RecoveryCheckFailed"}
PinAgrees(d, s) ==
    d.setup_complete \/ s \in PinScreens => d.pin = d.pin_confirmation
PageFits(s, page) ==
    /\ s \in {"SecuritySettings", "PowerSettings"} => page \in 0..2
    /\ s \in {"DisplaySettings", "ControlCenter"} => page \in 0..3

\* A press without an event for the reducer leads to a screen that the same
\* state of the reducer allows.
SameRegion(s) ==
    \/ s = demo.screen
    \/ ~demo.setup_complete /\ demo.screen \in SetupScreens /\ s \in SetupScreens
    \/ demo.setup_complete /\ demo.screen \in LockScreens /\ s \in LockScreens
    \/ /\ demo.setup_complete
       /\ demo.screen \in OpenScreens \ {"Review", "Signing"}
       /\ s \in OpenScreens \ {"Review", "Signing"}

\* The press only changed the screens; without a new frame there is no new text.
Turn ==
    /\ demo' \in WalletDemoFields /\ call' = NoCall /\ UNCHANGED <<wallet, effect>>
    /\ demo'.setup_complete = demo.setup_complete
    /\ SameRegion(demo'.screen)
    /\ \/ demo'.sequence = (demo.sequence + 1) % SequenceSpan
       \/ /\ demo'.sequence = demo.sequence /\ demo'.screen = demo.screen
          /\ Copy' = Copy \/ Shows("ControlCenter")
    /\ PinAgrees(demo', demo'.screen) /\ PageFits(demo'.screen, demo'.page)

\* The handler goes on to feed the reducer.
Start ==
    /\ demo' \in WalletDemoFields
    /\ demo'.screen = demo.screen /\ demo'.sequence = demo.sequence
    /\ demo'.setup_complete
    /\ \/ UNCHANGED <<auth, flow>>
       \/ ~IsUnlocked /\ auth' = Locked(0) /\ flow = Idle /\ flow' = Idle
    /\ effect' = effect /\ call' \in [event: Calls, show: ScreenState]
    /\ SetupFirst' /\ WalletFollowsScreen' /\ PinKnown' /\ PageExists'
    /\ call'.event = "OperationConfirmed" => Shows("Review") /\ demo.page = 3

\* Between two handlers.
Ready ==
    /\ demo \in WalletDemoFields /\ call = NoCall
    /\ SetupFirst /\ WalletFollowsScreen /\ PinKnown /\ PageExists

LEMMA ReadyRegions ==
    ASSUME Ready
    PROVE  /\ demo \in WalletDemoFields
           /\ PinAgrees(demo, demo.screen) /\ PageFits(demo.screen, demo.page)
           /\ \/ ~demo.setup_complete /\ demo.screen \in SetupScreens /\ ~IsUnlocked
              \/ demo.setup_complete /\ demo.screen \in LockScreens /\ ~IsUnlocked
                   /\ auth = Locked(0) /\ flow = Idle
              \/ demo.setup_complete /\ demo.screen \in OpenScreens /\ IsUnlocked
                   /\ auth = DemoSession /\ flow = FlowOf(demo.screen)
<1>1. /\ demo \in WalletDemoFields
      /\ PinAgrees(demo, demo.screen) /\ PageFits(demo.screen, demo.page)
  BY DEF Ready, PinKnown, PinAgrees, PinScreens, PageExists, PageFits
<1>2. CASE ~demo.setup_complete
  <2>1. demo.screen \in SetupScreens /\ auth.tag = "Unavailable"
    BY <1>2 DEF Ready, SetupFirst, Unavailable
  <2>2. QED BY <1>1, <1>2, <2>1 DEF IsUnlocked
<1>3. CASE demo.setup_complete
  <2>1. \/ demo.screen \in LockScreens /\ auth = Locked(0) /\ flow = Idle
        \/ demo.screen \in OpenScreens /\ auth = DemoSession /\ flow = FlowOf(demo.screen)
    BY <1>3 DEF Ready, WalletFollowsScreen, Before, BeforeUnlock, Calling, NoCall
  <2>2. Locked(0).tag = "Locked" /\ DemoSession.tag = "Unlocked"
    BY DEF Locked, DemoSession
  <2>3. QED BY <1>1, <1>3, <2>1, <2>2 DEF IsUnlocked
<1>4. QED BY <1>2, <1>3

LEMMA QuietTurns ==
    ASSUME Ready, NEW d \in WalletDemoFields, Alike(d, demo), Ui(d)
    PROVE  Turn
<1>1. demo' = d /\ call' = NoCall /\ UNCHANGED <<wallet, effect>>
  BY DEF Ui, Return
<1>2. Alike(demo', demo)
  BY <1>1
<1>3. Copy' = Copy
  BY <1>2, CopyOfAlike
<1>4. QED
  BY <1>1, <1>2, <1>3, ReadyRegions DEF Turn, Alike, SameRegion, PinAgrees, PageFits

LEMMA BumpTurns ==
    ASSUME Ready, NEW d \in WalletDemoFields, Ui(BumpFrame(d)),
           d.screen = demo.screen, d.sequence = demo.sequence,
           d.setup_complete = demo.setup_complete,
           PinAgrees(d, demo.screen), PageFits(demo.screen, d.page)
    PROVE  Turn
<1>1. demo' = BumpFrame(d) /\ call' = NoCall /\ UNCHANGED <<wallet, effect>>
  BY DEF Ui, Return
<1>2. QED
  BY <1>1, BumpFrameFacts DEF Turn, SamePins, SameRegion, PinAgrees, PageFits

LEMMA EnterTurns ==
    ASSUME Ready, NEW d \in WalletDemoFields, NEW s \in ScreenState \ {demo.screen},
           NEW p \in 0..4, Ui([SetScreen(d, s) EXCEPT !.page = p]), PageFits(s, p),
           d.screen = demo.screen, d.sequence = demo.sequence,
           d.setup_complete = demo.setup_complete,
           PinAgrees(d, s), SameRegion(s)
    PROVE  Turn
<1> DEFINE e == SetScreen(d, s)
<1>1. demo' = [e EXCEPT !.page = p] /\ call' = NoCall /\ UNCHANGED <<wallet, effect>>
  BY DEF Ui, Return
<1>2. /\ e \in WalletDemoFields /\ e.screen = s /\ SamePins(e, d)
      /\ e.sequence = (demo.sequence + 1) % SequenceSpan
  BY SetScreenFacts
<1> HIDE DEF e
<1>3. [e EXCEPT !.page = p] \in WalletDemoFields
  BY <1>2, FieldUpdates, Zenon
<1>4. demo'.screen = s /\ demo'.page = p /\ SamePins(demo', d)
      /\ demo'.sequence = (demo.sequence + 1) % SequenceSpan
  BY <1>1, <1>2 DEF SamePins, WalletDemoFields
<1>5. QED
  BY <1>1, <1>3, <1>4 DEF Turn, SamePins, PinAgrees, PageFits

LEMMA ScreenTurns ==
    ASSUME Ready, NEW d \in WalletDemoFields, NEW s \in ScreenState \ {demo.screen},
           Ui(SetScreen(d, s)),
           d.screen = demo.screen, d.sequence = demo.sequence,
           d.setup_complete = demo.setup_complete,
           PinAgrees(d, s), SameRegion(s)
    PROVE  Turn
<1> DEFINE e == SetScreen(d, s)
<1>1. demo' = e /\ call' = NoCall /\ UNCHANGED <<wallet, effect>>
  BY DEF Ui, Return
<1>2. /\ e \in WalletDemoFields /\ e.screen = s /\ SamePins(e, d) /\ e.page = 0
      /\ e.sequence = (demo.sequence + 1) % SequenceSpan
  BY SetScreenFacts
<1> HIDE DEF e
<1>3. QED
  BY <1>1, <1>2 DEF Turn, SamePins, PinAgrees, PageFits

LEMMA TouchTurns == ASSUME Ready, Ui(Touched) PROVE Turn
BY TouchedIsAlike, QuietTurns DEF Ready

LEMMA GoTurns ==
    ASSUME Ready, NEW s \in ScreenState \ {demo.screen}, Go(s),
           PinAgrees(demo, s), SameRegion(s)
    PROVE  Turn
<1>1. Touched \in WalletDemoFields /\ Alike(Touched, demo)
  BY TouchedIsAlike DEF Ready
<1>2. QED
  BY <1>1, ScreenTurns DEF Go, Alike, PinAgrees

LEMMA IndexRange ==
    ASSUME NEW n \in Nat \ {0}, NEW x \in 0..n - 1
    PROVE  Previous(x, n) \in 0..n - 1 /\ Following(x, n) \in 0..n - 1
BY DEF Previous, Following

\* Left and right select another entry of the menu on display.
LEMMA DigitsTurn ==
    ASSUME Ready, NEW b \in Button, Browse(b, "selected_digit", DigitBase)
    PROVE  Turn
<1> DEFINE e(v) == [Touched EXCEPT !.selected_digit = v]
<1>1. Touched \in WalletDemoFields /\ Alike(Touched, demo)
  BY TouchedIsAlike DEF Ready
<1>2. ASSUME NEW v \in 0..DigitBase - 1, Ui(BumpFrame(e(v))) PROVE Turn
  <2>1. e(v) \in WalletDemoFields
    BY <1>1, FieldUpdates, Zenon
  <2>2. e(v).screen = demo.screen /\ e(v).sequence = demo.sequence
        /\ e(v).page = demo.page /\ SamePins(e(v), demo)
    BY <1>1 DEF Alike, SamePins, WalletDemoFields
  <2> HIDE DEF e
  <2>3. QED BY <1>2, <2>1, <2>2, BumpTurns, ReadyRegions DEF SamePins, PinAgrees
<1>3. /\ Previous(Touched.selected_digit, DigitBase) \in 0..DigitBase - 1
      /\ Following(Touched.selected_digit, DigitBase) \in 0..DigitBase - 1
  BY <1>1, IndexRange, FieldTypes, DemoAssumption
<1>4. QED BY <1>2, <1>3, TouchTurns DEF Browse

LEMMA CandidatesTurn ==
    ASSUME Ready, NEW b \in Button, Browse(b, "recovery_check_choice", 4)
    PROVE  Turn
<1> DEFINE e(v) == [Touched EXCEPT !.recovery_check_choice = v]
<1>1. Touched \in WalletDemoFields /\ Alike(Touched, demo)
  BY TouchedIsAlike DEF Ready
<1>2. ASSUME NEW v \in 0..3, Ui(BumpFrame(e(v))) PROVE Turn
  <2>1. e(v) \in WalletDemoFields
    BY <1>1, FieldUpdates, Zenon
  <2>2. e(v).screen = demo.screen /\ e(v).sequence = demo.sequence
        /\ e(v).page = demo.page /\ SamePins(e(v), demo)
    BY <1>1 DEF Alike, SamePins, WalletDemoFields
  <2> HIDE DEF e
  <2>3. QED BY <1>2, <2>1, <2>2, BumpTurns, ReadyRegions DEF SamePins, PinAgrees
<1>3. /\ Previous(Touched.recovery_check_choice, 4) \in 0..3
      /\ Following(Touched.recovery_check_choice, 4) \in 0..3
  BY <1>1, FieldTypes DEF Previous, Following
<1>4. QED BY <1>2, <1>3, TouchTurns DEF Browse

LEMMA HomeTurns ==
    ASSUME Ready, NEW b \in Button, Browse(b, "home_index", 3)
    PROVE  Turn
<1> DEFINE e(v) == [Touched EXCEPT !.home_index = v]
<1>1. Touched \in WalletDemoFields /\ Alike(Touched, demo)
  BY TouchedIsAlike DEF Ready
<1>2. ASSUME NEW v \in 0..2, Ui(BumpFrame(e(v))) PROVE Turn
  <2>1. e(v) \in WalletDemoFields
    BY <1>1, FieldUpdates, Zenon
  <2>2. e(v).screen = demo.screen /\ e(v).sequence = demo.sequence
        /\ e(v).page = demo.page /\ SamePins(e(v), demo)
    BY <1>1 DEF Alike, SamePins, WalletDemoFields
  <2> HIDE DEF e
  <2>3. QED BY <1>2, <2>1, <2>2, BumpTurns, ReadyRegions DEF SamePins, PinAgrees
<1>3. /\ Previous(Touched.home_index, 3) \in 0..2
      /\ Following(Touched.home_index, 3) \in 0..2
  BY <1>1, FieldTypes DEF Previous, Following
<1>4. QED BY <1>2, <1>3, TouchTurns DEF Browse

LEMMA SettingsTurn ==
    ASSUME Ready, NEW b \in Button, Browse(b, "settings_index", 4)
    PROVE  Turn
<1> DEFINE e(v) == [Touched EXCEPT !.settings_index = v]
<1>1. Touched \in WalletDemoFields /\ Alike(Touched, demo)
  BY TouchedIsAlike DEF Ready
<1>2. ASSUME NEW v \in 0..3, Ui(BumpFrame(e(v))) PROVE Turn
  <2>1. e(v) \in WalletDemoFields
    BY <1>1, FieldUpdates, Zenon
  <2>2. e(v).screen = demo.screen /\ e(v).sequence = demo.sequence
        /\ e(v).page = demo.page /\ SamePins(e(v), demo)
    BY <1>1 DEF Alike, SamePins, WalletDemoFields
  <2> HIDE DEF e
  <2>3. QED BY <1>2, <2>1, <2>2, BumpTurns, ReadyRegions DEF SamePins, PinAgrees
<1>3. /\ Previous(Touched.settings_index, 4) \in 0..3
      /\ Following(Touched.settings_index, 4) \in 0..3
  BY <1>1, FieldTypes DEF Previous, Following
<1>4. QED BY <1>2, <1>3, TouchTurns DEF Browse

LEMMA PagesTurn ==
    ASSUME Ready, NEW b \in Button, NEW n \in 1..5, Browse(b, "page", n),
           demo.page \in 0..n - 1,
           \A v \in 0..n - 1 : PageFits(demo.screen, v)
    PROVE  Turn
<1> DEFINE e(v) == [Touched EXCEPT !.page = v]
<1>1. Touched \in WalletDemoFields /\ Alike(Touched, demo)
  BY TouchedIsAlike DEF Ready
<1>2. ASSUME NEW v \in 0..n - 1, Ui(BumpFrame(e(v))) PROVE Turn
  <2>1. v \in 0..4
    OBVIOUS
  <2>2. e(v) \in WalletDemoFields
    BY <1>1, <2>1, FieldUpdates, Zenon
  <2>3. e(v).screen = demo.screen /\ e(v).sequence = demo.sequence
        /\ e(v).page = v /\ SamePins(e(v), demo)
    BY <1>1 DEF Alike, SamePins, WalletDemoFields
  <2> HIDE DEF e
  <2>4. QED BY <1>2, <2>2, <2>3, BumpTurns, ReadyRegions DEF SamePins, PinAgrees
<1>3. /\ Previous(Touched.page, n) \in 0..n - 1
      /\ Following(Touched.page, n) \in 0..n - 1
  BY <1>1, IndexRange DEF Alike
<1>4. QED BY <1>2, <1>3, TouchTurns DEF Browse

-----------------------------------------------------------------------------
(* Onboarding *)

LEMMA SmallValues ==
    /\ NoPin \in Pin /\ 0 \in 0..PIN_DIGITS - 1 /\ 0 \in 0..DigitBase - 1
    /\ 0 \in 0..RecoveryWords - 1 /\ 0 \in 0..AUTO_SLEEP_MS /\ 0 \in 0..MaxTicks
BY DemoAssumption DEF NoPin, Pin

LEMMA StartPinCreationTurns ==
    ASSUME Ready, demo.screen \in {"SetupChoice", "PinMismatch"}, StartPinCreation
    PROVE  Turn
<1> DEFINE e == [Touched EXCEPT !.pin = NoPin, !.pin_confirmation = NoPin,
                                !.pin_position = 0, !.selected_digit = 0]
<1>1. Touched \in WalletDemoFields /\ Alike(Touched, demo)
  BY TouchedIsAlike DEF Ready
<1>2. e \in WalletDemoFields
  <2>1. [Touched EXCEPT !.pin = NoPin] \in WalletDemoFields
    BY <1>1, SmallValues, FieldUpdates, Zenon
  <2>2. [[Touched EXCEPT !.pin = NoPin] EXCEPT !.pin_confirmation = NoPin]
           \in WalletDemoFields
    BY <2>1, SmallValues, FieldUpdates, Zenon
  <2>3. [[[Touched EXCEPT !.pin = NoPin] EXCEPT !.pin_confirmation = NoPin]
           EXCEPT !.pin_position = 0] \in WalletDemoFields
    BY <2>2, SmallValues, FieldUpdates, Zenon
  <2>4. [[[[Touched EXCEPT !.pin = NoPin] EXCEPT !.pin_confirmation = NoPin]
           EXCEPT !.pin_position = 0] EXCEPT !.selected_digit = 0] \in WalletDemoFields
    BY <2>3, SmallValues, FieldUpdates, Zenon
  <2>5. QED BY <2>4
<1>3. e.screen = demo.screen /\ e.sequence = demo.sequence
      /\ e.setup_complete = demo.setup_complete
  BY <1>1 DEF Alike, WalletDemoFields
<1>4. Ui(SetScreen(e, "PinCreate"))
  BY DEF StartPinCreation
<1> HIDE DEF e
<1>5. ~demo.setup_complete
  BY ReadyRegions DEF SetupScreens, LockScreens, OpenScreens, SessionScreens
<1>6. "PinCreate" \in ScreenState \ {demo.screen} /\ SameRegion("PinCreate")
      /\ PinAgrees(e, "PinCreate")
  BY <1>3, <1>5 DEF ScreenState, SameRegion, SetupScreens, PinAgrees, PinScreens
<1>7. QED BY <1>2, <1>3, <1>4, <1>6, ScreenTurns

LEMMA SetupChoiceInputTurns ==
    ASSUME Ready, Shows("SetupChoice"), NEW b \in Button, SetupChoiceInput(b)
    PROVE  Turn
<1> DEFINE e == [Touched EXCEPT !.setup_choice = 1 - @]
<1>1. Touched \in WalletDemoFields /\ Alike(Touched, demo)
  BY TouchedIsAlike DEF Ready
<1>2. CASE Ui(BumpFrame(e))
  <2>1. 1 - Touched.setup_choice \in 0..1
    BY <1>1, FieldTypes
  <2>2. e \in WalletDemoFields
    BY <1>1, <2>1, FieldUpdates, Zenon
  <2>3. e.screen = demo.screen /\ e.sequence = demo.sequence
        /\ e.page = demo.page /\ SamePins(e, demo)
    BY <1>1 DEF Alike, SamePins, WalletDemoFields
  <2> HIDE DEF e
  <2>4. QED BY <1>2, <2>2, <2>3, BumpTurns, ReadyRegions DEF SamePins, PinAgrees
<1>3. CASE Go("Information")
  <2>1. ~demo.setup_complete
    BY ReadyRegions DEF LockScreens, OpenScreens, SessionScreens, Shows
  <2>2. "Information" \in ScreenState \ {demo.screen} /\ SameRegion("Information")
        /\ PinAgrees(demo, "Information")
    BY <2>1 DEF ScreenState, SameRegion, SetupScreens, PinAgrees, PinScreens, Shows
  <2>3. QED BY <1>3, <2>2, GoTurns
<1>4. CASE StartPinCreation
  BY <1>4, StartPinCreationTurns DEF Shows
<1>5. QED BY <1>2, <1>3, <1>4, TouchTurns DEF SetupChoiceInput

LEMMA FirstEntry ==
    ASSUME Ready
    PROVE  LET e == WithDigit("pin")
           IN /\ e \in WalletDemoFields /\ e.screen = demo.screen
              /\ e.sequence = demo.sequence /\ e.page = demo.page
              /\ e.setup_complete = demo.setup_complete
              /\ e.pin_confirmation = demo.pin_confirmation /\ e.pin_entry = demo.pin_entry
<1> DEFINE p == [Touched.pin EXCEPT ![demo.pin_position + 1] = demo.selected_digit]
           n == (Touched.pin_position + 1) % PIN_DIGITS
           e1 == [Touched EXCEPT !.pin = p]
           e2 == [e1 EXCEPT !.pin_position = n]
           e == [e2 EXCEPT !.selected_digit = 0]
<1>1. Touched \in WalletDemoFields /\ Alike(Touched, demo) /\ demo \in WalletDemoFields
  BY TouchedIsAlike DEF Ready
<1>2. p \in Pin
  BY <1>1, FieldTypes DEF Pin, Alike
<1>3. n \in 0..PIN_DIGITS - 1
  BY <1>1, FieldTypes, DemoAssumption
<1>4. WithDigit("pin") = e
  BY DEF WithDigit
<1> HIDE DEF p, n
<1>5. e1 \in WalletDemoFields
  BY <1>1, <1>2, FieldUpdates, Zenon
<1>6. e2 \in WalletDemoFields
  BY <1>5, <1>3, FieldUpdates, Zenon DEF e2
<1>7. e \in WalletDemoFields
  BY <1>6, SmallValues, FieldUpdates, Zenon DEF e
<1>8. /\ e.screen = demo.screen /\ e.sequence = demo.sequence /\ e.page = demo.page
      /\ e.setup_complete = demo.setup_complete
      /\ e.pin_confirmation = demo.pin_confirmation /\ e.pin_entry = demo.pin_entry
  BY <1>1 DEF Alike, WalletDemoFields
<1> HIDE DEF e, e1, e2
<1>9. QED BY <1>4, <1>7, <1>8

LEMMA SecondEntry ==
    ASSUME Ready
    PROVE  LET e == WithDigit("pin_confirmation")
           IN /\ e \in WalletDemoFields /\ e.screen = demo.screen
              /\ e.sequence = demo.sequence /\ e.page = demo.page
              /\ e.setup_complete = demo.setup_complete
              /\ e.pin = demo.pin /\ e.pin_entry = demo.pin_entry
<1> DEFINE p == [Touched.pin_confirmation EXCEPT ![demo.pin_position + 1] = demo.selected_digit]
           n == (Touched.pin_position + 1) % PIN_DIGITS
           e1 == [Touched EXCEPT !.pin_confirmation = p]
           e2 == [e1 EXCEPT !.pin_position = n]
           e == [e2 EXCEPT !.selected_digit = 0]
<1>1. Touched \in WalletDemoFields /\ Alike(Touched, demo) /\ demo \in WalletDemoFields
  BY TouchedIsAlike DEF Ready
<1>2. p \in Pin
  BY <1>1, FieldTypes DEF Pin, Alike
<1>3. n \in 0..PIN_DIGITS - 1
  BY <1>1, FieldTypes, DemoAssumption
<1>4. WithDigit("pin_confirmation") = e
  BY DEF WithDigit
<1> HIDE DEF p, n
<1>5. e1 \in WalletDemoFields
  BY <1>1, <1>2, FieldUpdates, Zenon
<1>6. e2 \in WalletDemoFields
  BY <1>5, <1>3, FieldUpdates, Zenon DEF e2
<1>7. e \in WalletDemoFields
  BY <1>6, SmallValues, FieldUpdates, Zenon DEF e
<1>8. /\ e.screen = demo.screen /\ e.sequence = demo.sequence /\ e.page = demo.page
      /\ e.setup_complete = demo.setup_complete
      /\ e.pin = demo.pin /\ e.pin_entry = demo.pin_entry
  BY <1>1 DEF Alike, WalletDemoFields
<1> HIDE DEF e, e1, e2
<1>9. QED BY <1>4, <1>7, <1>8

LEMMA UnlockEntry ==
    ASSUME Ready
    PROVE  LET e == WithDigit("pin_entry")
           IN /\ e \in WalletDemoFields /\ e.screen = demo.screen
              /\ e.sequence = demo.sequence /\ e.page = demo.page
              /\ e.setup_complete = demo.setup_complete
              /\ e.pin = demo.pin /\ e.pin_confirmation = demo.pin_confirmation
<1> DEFINE p == [Touched.pin_entry EXCEPT ![demo.pin_position + 1] = demo.selected_digit]
           n == (Touched.pin_position + 1) % PIN_DIGITS
           e1 == [Touched EXCEPT !.pin_entry = p]
           e2 == [e1 EXCEPT !.pin_position = n]
           e == [e2 EXCEPT !.selected_digit = 0]
<1>1. Touched \in WalletDemoFields /\ Alike(Touched, demo) /\ demo \in WalletDemoFields
  BY TouchedIsAlike DEF Ready
<1>2. p \in Pin
  BY <1>1, FieldTypes DEF Pin, Alike
<1>3. n \in 0..PIN_DIGITS - 1
  BY <1>1, FieldTypes, DemoAssumption
<1>4. WithDigit("pin_entry") = e
  BY DEF WithDigit
<1> HIDE DEF p, n
<1>5. e1 \in WalletDemoFields
  BY <1>1, <1>2, FieldUpdates, Zenon
<1>6. e2 \in WalletDemoFields
  BY <1>5, <1>3, FieldUpdates, Zenon DEF e2
<1>7. e \in WalletDemoFields
  BY <1>6, SmallValues, FieldUpdates, Zenon DEF e
<1>8. /\ e.screen = demo.screen /\ e.sequence = demo.sequence /\ e.page = demo.page
      /\ e.setup_complete = demo.setup_complete
      /\ e.pin = demo.pin /\ e.pin_confirmation = demo.pin_confirmation
  BY <1>1 DEF Alike, WalletDemoFields
<1> HIDE DEF e, e1, e2
<1>9. QED BY <1>4, <1>7, <1>8

\* The screen tells how far the setup is and whether a session is open.
LEMMA ScreenTells ==
    ASSUME Ready
    PROVE  /\ demo.screen \in SetupScreens \ {"Information"} => ~demo.setup_complete
           /\ demo.screen \in LockScreens =>
                 demo.setup_complete /\ auth = Locked(0) /\ flow = Idle
           /\ demo.screen \in SessionScreens =>
                 demo.setup_complete /\ auth = DemoSession /\ flow = FlowOf(demo.screen)
           /\ IsUnlocked =>
                 /\ demo.screen \in OpenScreens /\ demo.setup_complete
                 /\ auth = DemoSession /\ flow = FlowOf(demo.screen)
           /\ demo.screen # "Error"
BY ReadyRegions DEF SetupScreens, LockScreens, OpenScreens, SessionScreens

LEMMA EditPinTurns ==
    ASSUME Ready, Shows("PinCreate"), NEW b \in Button, EditPin(b)
    PROVE  Turn
<1> DEFINE e == WithDigit("pin")
<1>1. /\ e \in WalletDemoFields /\ e.screen = demo.screen
      /\ e.sequence = demo.sequence /\ e.page = demo.page
      /\ e.setup_complete = demo.setup_complete
  BY FirstEntry
<1>2. ~demo.setup_complete
  BY ScreenTells DEF Shows, SetupScreens
<1> HIDE DEF e
<1>3. CASE Ui(BumpFrame(e))
  BY <1>1, <1>2, <1>3, BumpTurns, ReadyRegions DEF PinAgrees, PinScreens, Shows
<1>4. CASE Ui(SetScreen(e, "PinConfirm"))
  <2>1. "PinConfirm" \in ScreenState \ {demo.screen} /\ SameRegion("PinConfirm")
        /\ PinAgrees(e, "PinConfirm")
    BY <1>1, <1>2 DEF ScreenState, SameRegion, SetupScreens, PinAgrees, PinScreens, Shows
  <2>2. QED BY <1>1, <1>4, <2>1, ScreenTurns
<1>5. QED BY <1>3, <1>4, DigitsTurn DEF EditPin, DigitInput, e

LEMMA ConfirmPinTurns ==
    ASSUME Ready, Shows("PinConfirm"), NEW b \in Button, ConfirmPin(b)
    PROVE  Turn
<1> DEFINE e == WithDigit("pin_confirmation")
           s == IF e.pin = e.pin_confirmation THEN "RecoveryIntro" ELSE "PinMismatch"
<1>1. /\ e \in WalletDemoFields /\ e.screen = demo.screen
      /\ e.sequence = demo.sequence /\ e.page = demo.page
      /\ e.setup_complete = demo.setup_complete
  BY SecondEntry
<1>2. ~demo.setup_complete
  BY ScreenTells DEF Shows, SetupScreens
<1>3. \/ Browse(b, "selected_digit", DigitBase)
      \/ Ui(BumpFrame(e))
      \/ Ui(SetScreen(e, s))
  BY DEF ConfirmPin, DigitInput
<1> HIDE DEF e
<1>4. CASE Ui(BumpFrame(e))
  BY <1>1, <1>2, <1>4, BumpTurns, ReadyRegions DEF PinAgrees, PinScreens, Shows
<1>5. CASE Ui(SetScreen(e, s))
  <2>1. s \in ScreenState \ {demo.screen} /\ SameRegion(s) /\ PinAgrees(e, s)
    BY <1>1, <1>2 DEF ScreenState, SameRegion, SetupScreens, PinAgrees, PinScreens, Shows
  <2> HIDE DEF s
  <2>2. QED BY <1>1, <1>5, <2>1, ScreenTurns
<1>6. QED BY <1>3, <1>4, <1>5, DigitsTurn

LEMMA RecoveryWordInputTurns ==
    ASSUME Ready, Shows("RecoveryWord"), NEW b \in Button, RecoveryWordInput(b)
    PROVE  Turn
<1> DEFINE e(v) == [Touched EXCEPT !.recovery_index = v]
           f == [Touched EXCEPT !.recovery_check_step = 0, !.recovery_check_choice = 0]
<1>1. Touched \in WalletDemoFields /\ Alike(Touched, demo)
  BY TouchedIsAlike DEF Ready
<1>2. ~demo.setup_complete /\ demo.pin = demo.pin_confirmation
  BY ScreenTells, ReadyRegions DEF Shows, SetupScreens, PinAgrees, PinScreens
<1>3. ASSUME NEW v \in 0..RecoveryWords - 1, Ui(BumpFrame(e(v))) PROVE Turn
  <2>1. e(v) \in WalletDemoFields
    BY <1>1, FieldUpdates, Zenon
  <2>2. e(v).screen = demo.screen /\ e(v).sequence = demo.sequence
        /\ e(v).page = demo.page /\ SamePins(e(v), demo)
    BY <1>1 DEF Alike, SamePins, WalletDemoFields
  <2> HIDE DEF e
  <2>3. QED BY <1>3, <2>1, <2>2, BumpTurns, ReadyRegions DEF SamePins, PinAgrees
<1>4. /\ (IF Touched.recovery_index = 0 THEN 0 ELSE Touched.recovery_index - 1)
           \in 0..RecoveryWords - 1
      /\ Smaller(Touched.recovery_index + 1, RecoveryWords - 1) \in 0..RecoveryWords - 1
  BY <1>1, FieldTypes, DemoAssumption DEF Smaller
<1>5. CASE Ui(SetScreen(f, "RecoveryCheck"))
  <2>1. f \in WalletDemoFields
    <3>1. [Touched EXCEPT !.recovery_check_step = 0] \in WalletDemoFields
      BY <1>1, 0 \in 0..1, FieldUpdates, Zenon
    <3>2. [[Touched EXCEPT !.recovery_check_step = 0]
             EXCEPT !.recovery_check_choice = 0] \in WalletDemoFields
      BY <3>1, 0 \in 0..3, FieldUpdates, Zenon
    <3>3. QED BY <3>2
  <2>2. f.screen = demo.screen /\ f.sequence = demo.sequence /\ SamePins(f, demo)
    BY <1>1 DEF Alike, SamePins, WalletDemoFields
  <2> HIDE DEF f
  <2>3. "RecoveryCheck" \in ScreenState \ {demo.screen} /\ SameRegion("RecoveryCheck")
        /\ PinAgrees(f, "RecoveryCheck")
    BY <1>2, <2>2 DEF ScreenState, SameRegion, SetupScreens, PinAgrees, SamePins, Shows
  <2>4. QED BY <1>5, <2>1, <2>2, <2>3, ScreenTurns DEF SamePins
<1>6. QED BY <1>3, <1>4, <1>5, TouchTurns DEF RecoveryWordInput

LEMMA CompleteSetupStarts ==
    ASSUME Ready, Shows("RecoveryCheck"), CompleteSetup
    PROVE  Start
<1> DEFINE e == [Touched EXCEPT !.setup_complete = TRUE]
<1>1. Touched \in WalletDemoFields /\ Alike(Touched, demo)
  BY TouchedIsAlike DEF Ready
<1>2. e \in WalletDemoFields
  BY <1>1, FieldUpdates, Zenon
<1>3. /\ e.screen = demo.screen /\ e.sequence = demo.sequence /\ e.setup_complete
      /\ e.pin = demo.pin /\ e.pin_confirmation = demo.pin_confirmation
  BY <1>1 DEF Alike, WalletDemoFields
<1>4. demo.pin = demo.pin_confirmation
  BY ReadyRegions DEF Shows, PinAgrees, PinScreens
<1>5. demo' = e /\ call' = [event |-> "UnlockRequested", show |-> "SetupComplete"]
  BY DEF CompleteSetup
<1> HIDE DEF e
<1>6. call' \in [event: Calls, show: ScreenState] /\ effect' = effect
  BY <1>5 DEF Calls, ScreenState, CompleteSetup
<1>7. SetupFirst'
  BY <1>3, <1>5 DEF SetupFirst, CompleteSetup
<1>8. WalletFollowsScreen'
  <2>1. BeforeUnlock("UnlockRequested", Locked(0))'
    <3>1. auth' = Locked(0) /\ flow' = Idle
      BY DEF CompleteSetup
    <3>2. /\ demo'.screen = "RecoveryCheck"
          /\ call'.event = "UnlockRequested" /\ call'.show = "SetupComplete"
      BY <1>3, <1>5 DEF Shows
    <3>3. QED BY <3>1, <3>2 DEF BeforeUnlock, Before, Calling, Locked, Idle
  <2>2. QED BY <2>1 DEF WalletFollowsScreen, Locked
<1>9. PinKnown' /\ PageExists'
  BY <1>3, <1>4, <1>5 DEF PinKnown, PageExists, Shows
<1>10. ~IsUnlocked /\ auth' = Locked(0) /\ flow = Idle /\ flow' = Idle
  <2>1. ~demo.setup_complete
    BY ScreenTells DEF Shows, SetupScreens
  <2>2. auth.tag = "Unavailable" /\ flow = Idle
    BY <2>1 DEF Ready, SetupFirst, Unavailable
  <2>3. QED BY <2>2 DEF CompleteSetup, IsUnlocked
<1>11. QED BY <1>2, <1>3, <1>5, <1>6, <1>7, <1>8, <1>9, <1>10 DEF Start

LEMMA VerifyRecoveryWordOutcome ==
    ASSUME Ready, Shows("RecoveryCheck"), NEW b \in Button, VerifyRecoveryWord(b)
    PROVE  Turn \/ Start
<1> DEFINE e == [Touched EXCEPT !.recovery_check_step = 1, !.recovery_check_choice = 0]
<1>1. Touched \in WalletDemoFields /\ Alike(Touched, demo)
  BY TouchedIsAlike DEF Ready
<1>2. ~demo.setup_complete /\ demo.pin = demo.pin_confirmation
  BY ScreenTells, ReadyRegions DEF Shows, SetupScreens, PinAgrees, PinScreens
<1>3. CASE Go("RecoveryCheckFailed")
  <2>1. "RecoveryCheckFailed" \in ScreenState \ {demo.screen}
        /\ SameRegion("RecoveryCheckFailed") /\ PinAgrees(demo, "RecoveryCheckFailed")
    BY <1>2 DEF ScreenState, SameRegion, SetupScreens, PinAgrees, Shows
  <2>2. QED BY <1>3, <2>1, GoTurns
<1>4. CASE Ui(BumpFrame(e))
  <2>1. e \in WalletDemoFields
    <3>1. [Touched EXCEPT !.recovery_check_step = 1] \in WalletDemoFields
      BY <1>1, 1 \in 0..1, FieldUpdates, Zenon
    <3>2. [[Touched EXCEPT !.recovery_check_step = 1]
             EXCEPT !.recovery_check_choice = 0] \in WalletDemoFields
      BY <3>1, 0 \in 0..3, FieldUpdates, Zenon
    <3>3. QED BY <3>2
  <2>2. e.screen = demo.screen /\ e.sequence = demo.sequence /\ e.page = demo.page
        /\ SamePins(e, demo)
    BY <1>1 DEF Alike, SamePins, WalletDemoFields
  <2> HIDE DEF e
  <2>3. QED BY <1>4, <2>1, <2>2, BumpTurns, ReadyRegions DEF SamePins, PinAgrees
<1>5. QED
  BY <1>3, <1>4, CandidatesTurn, CompleteSetupStarts DEF VerifyRecoveryWord

-----------------------------------------------------------------------------
(* Notices and menus *)

\* A step between two screens of a session or of the lock.
LEMMA MenuTurns ==
    ASSUME Ready, NEW s \in ScreenState \ {demo.screen}, Go(s),
           \/ demo.screen \in OpenScreens \ {"Review", "Signing", "Information"}
                /\ s \in OpenScreens \ {"Review", "Signing"}
           \/ demo.screen \in LockScreens /\ s \in LockScreens
    PROVE  Turn
<1>1. demo.setup_complete
  BY ScreenTells DEF OpenScreens
<1>2. SameRegion(s) /\ PinAgrees(demo, s)
  BY <1>1, ReadyRegions DEF SameRegion, PinAgrees
<1>3. QED BY <1>2, GoTurns

\* The same with a field of the demo set on the way.
LEMMA MenuSetTurns ==
    ASSUME Ready, NEW s \in ScreenState \ {demo.screen},
           NEW d \in WalletDemoFields, Ui(SetScreen(d, s)),
           d.screen = demo.screen, d.sequence = demo.sequence, SamePins(d, demo),
           \/ demo.screen \in OpenScreens \ {"Review", "Signing", "Information"}
                /\ s \in OpenScreens \ {"Review", "Signing"}
           \/ demo.screen \in LockScreens /\ s \in LockScreens
    PROVE  Turn
<1>1. demo.setup_complete
  BY ScreenTells DEF OpenScreens
<1>2. SameRegion(s) /\ PinAgrees(d, s) /\ d.setup_complete = demo.setup_complete
  BY <1>1, ReadyRegions DEF SameRegion, PinAgrees, SamePins
<1>3. QED BY <1>2, ScreenTurns

LEMMA HomeReset ==
    ASSUME Ready
    PROVE  LET e == [Touched EXCEPT !.home_index = 0]
           IN /\ e \in WalletDemoFields /\ e.screen = demo.screen
              /\ e.sequence = demo.sequence /\ SamePins(e, demo)
<1>1. Touched \in WalletDemoFields /\ Alike(Touched, demo)
  BY TouchedIsAlike DEF Ready
<1>2. [Touched EXCEPT !.home_index = 0] \in WalletDemoFields
  BY <1>1, 0 \in 0..2, FieldUpdates, Zenon
<1>3. QED BY <1>1, <1>2 DEF Alike, SamePins, WalletDemoFields

LEMMA SettingsReset ==
    ASSUME Ready
    PROVE  LET e == [Touched EXCEPT !.settings_index = 0]
           IN /\ e \in WalletDemoFields /\ e.screen = demo.screen
              /\ e.sequence = demo.sequence /\ SamePins(e, demo)
<1>1. Touched \in WalletDemoFields /\ Alike(Touched, demo)
  BY TouchedIsAlike DEF Ready
<1>2. [Touched EXCEPT !.settings_index = 0] \in WalletDemoFields
  BY <1>1, 0 \in 0..3, FieldUpdates, Zenon
<1>3. QED BY <1>1, <1>2 DEF Alike, SamePins, WalletDemoFields

LEMMA RecoveryReset ==
    ASSUME Ready
    PROVE  LET e == [Touched EXCEPT !.recovery_index = 0]
           IN /\ e \in WalletDemoFields /\ e.screen = demo.screen
              /\ e.sequence = demo.sequence /\ SamePins(e, demo)
<1>1. Touched \in WalletDemoFields /\ Alike(Touched, demo)
  BY TouchedIsAlike DEF Ready
<1>2. [Touched EXCEPT !.recovery_index = 0] \in WalletDemoFields
  BY <1>1, SmallValues, FieldUpdates, Zenon
<1>3. QED BY <1>1, <1>2 DEF Alike, SamePins, WalletDemoFields

LEMMA CandidateReset ==
    ASSUME Ready
    PROVE  LET e == [Touched EXCEPT !.recovery_check_choice = 0]
           IN /\ e \in WalletDemoFields /\ e.screen = demo.screen
              /\ e.sequence = demo.sequence /\ SamePins(e, demo)
<1>1. Touched \in WalletDemoFields /\ Alike(Touched, demo)
  BY TouchedIsAlike DEF Ready
<1>2. [Touched EXCEPT !.recovery_check_choice = 0] \in WalletDemoFields
  BY <1>1, 0 \in 0..3, FieldUpdates, Zenon
<1>3. QED BY <1>1, <1>2 DEF Alike, SamePins, WalletDemoFields

LEMMA PinUnlockTurns ==
    ASSUME Ready, demo.screen \in {"Locked", "PinWrong"}, Ui(PinUnlockScreen)
    PROVE  Turn
<1> DEFINE e == [Touched EXCEPT !.pin_entry = NoPin, !.pin_position = 0,
                                !.selected_digit = 0]
<1>1. Touched \in WalletDemoFields /\ Alike(Touched, demo)
  BY TouchedIsAlike DEF Ready
<1>2. e \in WalletDemoFields
  <2>1. [Touched EXCEPT !.pin_entry = NoPin] \in WalletDemoFields
    BY <1>1, SmallValues, FieldUpdates, Zenon
  <2>2. [[Touched EXCEPT !.pin_entry = NoPin] EXCEPT !.pin_position = 0]
           \in WalletDemoFields
    BY <2>1, SmallValues, FieldUpdates, Zenon
  <2>3. [[[Touched EXCEPT !.pin_entry = NoPin] EXCEPT !.pin_position = 0]
           EXCEPT !.selected_digit = 0] \in WalletDemoFields
    BY <2>2, SmallValues, FieldUpdates, Zenon
  <2>4. QED BY <2>3
<1>3. e.screen = demo.screen /\ e.sequence = demo.sequence /\ SamePins(e, demo)
  BY <1>1 DEF Alike, SamePins, WalletDemoFields
<1>4. Ui(SetScreen(e, "PinUnlock"))
  BY DEF PinUnlockScreen
<1> HIDE DEF e
<1>5. /\ "PinUnlock" \in ScreenState \ {demo.screen}
      /\ demo.screen \in LockScreens /\ "PinUnlock" \in LockScreens
  BY DEF ScreenState, LockScreens
<1>6. QED BY <1>2, <1>3, <1>4, <1>5, MenuSetTurns

LEMMA DismissTurns ==
    ASSUME Ready, Dismiss
    PROVE  Turn
<1>1. CASE Shows("Welcome") /\ Go("SetupChoice")
  <2>1. ~demo.setup_complete
    BY <1>1, ScreenTells DEF Shows, SetupScreens
  <2>2. "SetupChoice" \in ScreenState \ {demo.screen} /\ SameRegion("SetupChoice")
        /\ PinAgrees(demo, "SetupChoice")
    BY <1>1, <2>1 DEF ScreenState, SameRegion, SetupScreens, PinAgrees, PinScreens, Shows
  <2>3. QED BY <1>1, <2>2, GoTurns
<1>2. CASE Shows("PinMismatch") /\ StartPinCreation
  BY <1>2, StartPinCreationTurns DEF Shows
<1>3. CASE /\ Shows("RecoveryIntro")
           /\ Ui(SetScreen([Touched EXCEPT !.recovery_index = 0], "RecoveryWord"))
  <2> DEFINE e == [Touched EXCEPT !.recovery_index = 0]
  <2>1. /\ e \in WalletDemoFields /\ e.screen = demo.screen
        /\ e.sequence = demo.sequence /\ SamePins(e, demo)
    BY RecoveryReset
  <2>2. Ui(SetScreen(e, "RecoveryWord")) /\ Shows("RecoveryIntro")
    BY <1>3
  <2> HIDE DEF e
  <2>3. ~demo.setup_complete /\ demo.pin = demo.pin_confirmation
    BY <2>2, ScreenTells, ReadyRegions DEF Shows, SetupScreens, PinAgrees, PinScreens
  <2>4. "RecoveryWord" \in ScreenState \ {demo.screen} /\ SameRegion("RecoveryWord")
        /\ PinAgrees(e, "RecoveryWord")
    BY <2>1, <2>2, <2>3 DEF ScreenState, SameRegion, SetupScreens, PinAgrees, SamePins, Shows
  <2>5. QED BY <2>1, <2>2, <2>4, ScreenTurns DEF SamePins
<1>4. CASE /\ Shows("RecoveryCheckFailed")
           /\ Ui(SetScreen([Touched EXCEPT !.recovery_check_choice = 0],
                           "RecoveryCheck"))
  <2> DEFINE e == [Touched EXCEPT !.recovery_check_choice = 0]
  <2>1. /\ e \in WalletDemoFields /\ e.screen = demo.screen
        /\ e.sequence = demo.sequence /\ SamePins(e, demo)
    BY CandidateReset
  <2>2. Ui(SetScreen(e, "RecoveryCheck")) /\ Shows("RecoveryCheckFailed")
    BY <1>4
  <2> HIDE DEF e
  <2>3. ~demo.setup_complete /\ demo.pin = demo.pin_confirmation
    BY <2>2, ScreenTells, ReadyRegions DEF Shows, SetupScreens, PinAgrees, PinScreens
  <2>4. "RecoveryCheck" \in ScreenState \ {demo.screen} /\ SameRegion("RecoveryCheck")
        /\ PinAgrees(e, "RecoveryCheck")
    BY <2>1, <2>2, <2>3 DEF ScreenState, SameRegion, SetupScreens, PinAgrees, SamePins, Shows
  <2>5. QED BY <2>1, <2>2, <2>4, ScreenTurns DEF SamePins
<1>5. CASE /\ Shows("SetupComplete")
           /\ Ui(SetScreen([Touched EXCEPT !.home_index = 0], "Dashboard"))
  <2> DEFINE e == [Touched EXCEPT !.home_index = 0]
  <2>1. /\ e \in WalletDemoFields /\ e.screen = demo.screen
        /\ e.sequence = demo.sequence /\ SamePins(e, demo)
    BY HomeReset
  <2>2. Ui(SetScreen(e, "Dashboard")) /\ Shows("SetupComplete")
    BY <1>5
  <2> HIDE DEF e
  <2>3. /\ "Dashboard" \in ScreenState \ {demo.screen}
        /\ demo.screen \in OpenScreens \ {"Review", "Signing", "Information"}
        /\ "Dashboard" \in OpenScreens \ {"Review", "Signing"}
    BY <2>2 DEF ScreenState, OpenScreens, SessionScreens, Shows
  <2>4. QED BY <2>1, <2>2, <2>3, MenuSetTurns
<1>6. CASE demo.screen \in {"About", "Information"} /\ Go(Home)
  <2>1. Home \in ScreenState \ {demo.screen} /\ SameRegion(Home) /\ PinAgrees(demo, Home)
    BY <1>6, ReadyRegions, ScreenTells
       DEF Home, ScreenState, SameRegion, SetupScreens, OpenScreens, SessionScreens,
           LockScreens, PinAgrees, PinScreens
  <2>2. QED BY <1>6, <2>1, GoTurns
<1>7. CASE demo.screen \in {"Locked", "PinWrong"} /\ Ui(PinUnlockScreen)
  BY <1>7, PinUnlockTurns
<1>8. CASE demo.screen \in {"Signed", "Rejected"} /\ Go("BitcoinApp")
  BY <1>8, MenuTurns DEF ScreenState, OpenScreens, SessionScreens
<1>9. QED
  BY <1>1, <1>2, <1>3, <1>4, <1>5, <1>6, <1>7, <1>8, ScreenTells DEF Dismiss, Shows

LEMMA NoticeInputTurns ==
    ASSUME Ready, NEW b \in Button, NoticeInput(b)
    PROVE  Turn
BY DismissTurns, TouchTurns DEF NoticeInput

LEMMA DashboardInputTurns ==
    ASSUME Ready, Shows("Dashboard"), NEW b \in Button, DashboardInput(b)
    PROVE  Turn
<1> DEFINE e == [Touched EXCEPT !.settings_index = 0]
<1>1. CASE Ui(SetScreen(e, "Settings"))
  <2>1. /\ e \in WalletDemoFields /\ e.screen = demo.screen
        /\ e.sequence = demo.sequence /\ SamePins(e, demo)
    BY SettingsReset
  <2> HIDE DEF e
  <2>2. QED
    BY <1>1, <2>1, MenuSetTurns DEF ScreenState, OpenScreens, SessionScreens, Shows
<1>2. CASE Go("BitcoinApp") \/ Go("About")
  BY <1>2, MenuTurns DEF ScreenState, OpenScreens, SessionScreens, Shows
<1>3. QED BY <1>1, <1>2, HomeTurns DEF DashboardInput

LEMMA EnterFrom ==
    ASSUME Ready, NEW s \in OpenScreens \ {"Review", "Signing", demo.screen},
           s \in ScreenState,
           NEW p \in 0..4, PageFits(s, p), Enter(s, p),
           demo.screen \in OpenScreens \ {"Review", "Signing"}, demo.setup_complete
    PROVE  Turn
<1>1. Touched \in WalletDemoFields /\ Alike(Touched, demo)
  BY TouchedIsAlike DEF Ready
<1>2. SameRegion(s) /\ PinAgrees(Touched, s) /\ s # demo.screen
  BY <1>1, ReadyRegions DEF SameRegion, PinAgrees, Alike
<1>3. QED BY <1>1, <1>2, EnterTurns DEF Enter, Alike

LEMMA SettingsInputTurns ==
    ASSUME Ready, Shows("Settings"), NEW b \in Button, SettingsInput(b)
    PROVE  Turn
<1>1. demo.setup_complete /\ demo.brightness \in 0..2
  BY ScreenTells, FieldTypes DEF Shows, SessionScreens, Ready
<1>2. CASE Enter("SecuritySettings", 0)
  BY <1>1, <1>2, EnterFrom
     DEF ScreenState, OpenScreens, SessionScreens, Shows, PageFits
<1>3. CASE Enter("DisplaySettings", demo.brightness)
  <2>1. PageFits("DisplaySettings", demo.brightness) /\ demo.brightness \in 0..4
    BY <1>1 DEF PageFits
  <2>2. QED
    BY <1>1, <1>3, <2>1, EnterFrom DEF ScreenState, OpenScreens, SessionScreens, Shows
<1>4. CASE Enter("PowerSettings", 0)
  BY <1>1, <1>4, EnterFrom
     DEF ScreenState, OpenScreens, SessionScreens, Shows, PageFits
<1>5. CASE Go("Dashboard")
  BY <1>5, MenuTurns DEF ScreenState, OpenScreens, SessionScreens, Shows
<1>6. QED BY <1>2, <1>3, <1>4, <1>5, SettingsTurn DEF SettingsInput

LEMMA SecurityInputTurns ==
    ASSUME Ready, Shows("SecuritySettings"), NEW b \in Button, SecurityInput(b)
    PROVE  Turn
<1>1. demo.page \in 0..2
  BY ReadyRegions DEF PageFits, Shows
<1>2. CASE Browse(b, "page", 3)
  BY <1>1, <1>2, PagesTurn DEF PageFits, Shows
<1>3. CASE Go("Settings") \/ Go("Information")
  BY <1>3, MenuTurns DEF ScreenState, OpenScreens, SessionScreens, Shows
<1>4. QED BY <1>2, <1>3 DEF SecurityInput

LEMMA DisplayInputTurns ==
    ASSUME Ready, Shows("DisplaySettings"), NEW b \in Button, DisplayInput(b)
    PROVE  Turn
<1> DEFINE e == [Touched EXCEPT !.brightness = demo.page]
<1>1. demo.page \in 0..3
  BY ReadyRegions DEF PageFits, Shows
<1>2. CASE Browse(b, "page", 4)
  BY <1>1, <1>2, PagesTurn DEF PageFits, Shows
<1>3. CASE Go("Settings")
  BY <1>3, MenuTurns DEF ScreenState, OpenScreens, SessionScreens, Shows
<1>4. CASE demo.page # 3 /\ Ui(SetScreen(e, "Settings"))
  <2>1. Touched \in WalletDemoFields /\ Alike(Touched, demo) /\ demo.page \in 0..2
    BY <1>1, <1>4, TouchedIsAlike DEF Ready
  <2>2. e \in WalletDemoFields
    BY <2>1, FieldUpdates, Zenon
  <2>3. e.screen = demo.screen /\ e.sequence = demo.sequence /\ SamePins(e, demo)
    BY <2>1 DEF Alike, SamePins, WalletDemoFields
  <2> HIDE DEF e
  <2>4. QED
    BY <1>4, <2>2, <2>3, MenuSetTurns DEF ScreenState, OpenScreens, SessionScreens, Shows
<1>5. QED BY <1>2, <1>3, <1>4 DEF DisplayInput

-----------------------------------------------------------------------------
(* Handlers that go on to feed the reducer *)

\* The screen on which a handler starts to feed the reducer.
Feeds(event, show) ==
    \/ event = "OperationRequested" /\ show = "Review" /\ Shows("BitcoinApp")
    \/ event = "OperationConfirmed" /\ show = "Signing" /\ Shows("Review") /\ demo.page = 3
    \/ event = "OperationRejected" /\ show = "Rejected" /\ Shows("Review")
    \/ event = "OperationCompleted" /\ show = "Signed" /\ Shows("Signing")
    \/ event = "LockRequested" /\ show \in {"Locked", "Sleeping"} /\ IsUnlocked

LEMMA ThenStarts ==
    ASSUME Ready, NEW d \in WalletDemoFields, d.screen = demo.screen,
           d.sequence = demo.sequence, d.page = demo.page, SamePins(d, demo),
           NEW event, NEW show, Then(d, event, show), Feeds(event, show)
    PROVE  Start
<1>1. demo' = d /\ call' = [event |-> event, show |-> show] /\ UNCHANGED <<wallet, effect>>
  BY DEF Then
<1>2. /\ demo.setup_complete /\ auth = DemoSession /\ flow = FlowOf(demo.screen)
      /\ demo.screen \in OpenScreens
  BY ScreenTells DEF Feeds, Shows, SessionScreens, OpenScreens
<1>3. event \in Calls /\ show \in ScreenState
  BY DEF Feeds, Calls, ScreenState
<1>4. call'.event = event /\ call'.show = show
      /\ call' \in [event: Calls, show: ScreenState]
  BY <1>1, <1>3
<1>5. SetupFirst'
  BY <1>1, <1>2 DEF SetupFirst, Ready, SamePins, wallet
<1>6. auth' = DemoSession /\ flow' = FlowOf(demo.screen) /\ demo'.screen = demo.screen
  BY <1>1, <1>2 DEF wallet
<1>7. FlowOf("Review") = DemoReview("Reviewing") /\ FlowOf("Signing") = DemoExecution
      /\ FlowOf("BitcoinApp") = Idle
  BY DEF FlowOf
<1>8. WalletFollowsScreen'
  <2>1. CASE event = "OperationRequested" /\ show = "Review" /\ Shows("BitcoinApp")
    <3>1. Before("OperationRequested", {"BitcoinApp"}, {"Review"}, DemoSession, Idle)'
      BY <1>4, <1>6, <1>7, <2>1 DEF Before, Calling, Shows, DemoSession, Idle
    <3>2. QED BY <3>1 DEF WalletFollowsScreen
  <2>2. CASE event = "OperationConfirmed" /\ show = "Signing" /\ Shows("Review")
    <3>1. Before("OperationConfirmed", {"Review"}, {"Signing"}, DemoSession,
                 DemoReview("Reviewing"))'
      BY <1>4, <1>6, <1>7, <2>2 DEF Before, Calling, Shows, DemoSession, DemoReview
    <3>2. QED BY <3>1 DEF WalletFollowsScreen
  <2>3. CASE event = "OperationRejected" /\ show = "Rejected" /\ Shows("Review")
    <3>1. Before("OperationRejected", {"Review"}, {"Rejected"}, DemoSession,
                 DemoReview("Reviewing"))'
      BY <1>4, <1>6, <1>7, <2>3 DEF Before, Calling, Shows, DemoSession, DemoReview
    <3>2. QED BY <3>1 DEF WalletFollowsScreen
  <2>4. CASE event = "OperationCompleted" /\ show = "Signed" /\ Shows("Signing")
    <3>1. Before("OperationCompleted", {"Signing"}, {"Signed"}, DemoSession,
                 DemoExecution)'
      BY <1>4, <1>6, <1>7, <2>4 DEF Before, Calling, Shows, DemoSession, DemoExecution
    <3>2. QED BY <3>1 DEF WalletFollowsScreen
  <2>5. CASE event = "LockRequested" /\ show \in {"Locked", "Sleeping"}
    <3>1. Before("LockRequested", OpenScreens, {"Locked", "Sleeping"}, DemoSession,
                 FlowOf(demo.screen))'
      BY <1>2, <1>4, <1>6, <2>5 DEF Before, Calling, DemoSession, FlowOf
    <3>2. QED BY <3>1 DEF WalletFollowsScreen
  <2>6. QED BY <2>1, <2>2, <2>3, <2>4, <2>5 DEF Feeds
<1>9. PinKnown' /\ PageExists'
  BY <1>1, <1>2, <1>4, ReadyRegions
     DEF PinKnown, PageExists, PinAgrees, PageFits, SamePins, Feeds
<1>10. QED
  BY <1>1, <1>2, <1>4, <1>5, <1>6, <1>8, <1>9 DEF Start, SamePins, Feeds, wallet

LEMMA TouchedStarts ==
    ASSUME Ready, NEW event, NEW show, Then(Touched, event, show), Feeds(event, show)
    PROVE  Start
BY TouchedIsAlike, ThenStarts DEF Ready, Alike, SamePins

\* Only an open session is put to sleep.
LEMMA EnterSleepStarts ==
    ASSUME Ready, IsUnlocked, NEW d \in WalletDemoFields, d.screen = demo.screen,
           d.sequence = demo.sequence, d.page = demo.page, SamePins(d, demo),
           EnterSleep(d)
    PROVE  Start /\ call' = [event |-> "LockRequested", show |-> "Sleeping"]
<1>1. Then(d, "LockRequested", "Sleeping")
  BY DEF EnterSleep
<1>2. Feeds("LockRequested", "Sleeping")
  BY DEF Feeds
<1>3. QED BY <1>1, <1>2, ThenStarts DEF Then

LEMMA TouchedSleepStarts ==
    ASSUME Ready, IsUnlocked, EnterSleep(Touched)
    PROVE  Start
BY TouchedIsAlike, EnterSleepStarts DEF Ready, Alike, SamePins

LEMMA PowerInputOutcome ==
    ASSUME Ready, Shows("PowerSettings"), NEW b \in Button, PowerInput(b)
    PROVE  Turn \/ Start
<1>1. demo.page \in 0..2 /\ IsUnlocked
  BY ReadyRegions, ScreenTells
     DEF PageFits, Shows, SetupScreens, LockScreens, OpenScreens
<1>2. CASE Browse(b, "page", 3)
  BY <1>1, <1>2, PagesTurn DEF PageFits, Shows
<1>3. CASE Go("Settings") \/ Go("Information")
  BY <1>3, MenuTurns DEF ScreenState, OpenScreens, SessionScreens, Shows
<1>4. CASE EnterSleep(Touched)
  BY <1>1, <1>4, TouchedSleepStarts
<1>5. QED BY <1>2, <1>3, <1>4 DEF PowerInput

LEMMA ControlInputOutcome ==
    ASSUME Ready, Shows("ControlCenter"), NEW b \in Button, ControlInput(b)
    PROVE  Turn \/ Start
<1> DEFINE e == [Touched EXCEPT !.settings_index = 0]
<1>1. demo.page \in 0..3 /\ IsUnlocked
  BY ReadyRegions, ScreenTells
     DEF PageFits, Shows, SetupScreens, LockScreens, OpenScreens
<1>2. CASE Browse(b, "page", 4)
  BY <1>1, <1>2, PagesTurn DEF PageFits, Shows
<1>3. CASE Lock
  <2>1. Then(Touched, "LockRequested", "Locked") /\ Feeds("LockRequested", "Locked")
    BY <1>1, <1>3 DEF Lock, Feeds
  <2>2. QED BY <2>1, TouchedStarts
<1>4. CASE Ui(SetScreen(e, "Settings"))
  <2>1. /\ e \in WalletDemoFields /\ e.screen = demo.screen
        /\ e.sequence = demo.sequence /\ SamePins(e, demo)
    BY SettingsReset
  <2> HIDE DEF e
  <2>2. QED
    BY <1>4, <2>1, MenuSetTurns DEF ScreenState, OpenScreens, SessionScreens, Shows
<1>5. CASE EnterSleep(Touched)
  BY <1>1, <1>5, TouchedSleepStarts
<1>6. CASE Go("Dashboard")
  BY <1>6, MenuTurns DEF ScreenState, OpenScreens, SessionScreens, Shows
<1>7. QED BY <1>2, <1>3, <1>4, <1>5, <1>6 DEF ControlInput

LEMMA BitcoinAppInputOutcome ==
    ASSUME Ready, Shows("BitcoinApp"), NEW b \in Button, BitcoinAppInput(b)
    PROVE  Turn \/ Start
<1>1. CASE Go("Dashboard")
  BY <1>1, MenuTurns DEF ScreenState, OpenScreens, SessionScreens, Shows
<1>2. CASE Then(Touched, "OperationRequested", "Review")
  BY <1>2, TouchedStarts DEF Feeds
<1>3. QED BY <1>1, <1>2, TouchTurns DEF BitcoinAppInput

LEMMA ReviewInputOutcome ==
    ASSUME Ready, Shows("Review"), NEW b \in Button, ReviewInput(b)
    PROVE  Turn \/ Start
<1>1. demo.page \in 0..4
  BY FieldTypes DEF Ready
<1>2. CASE Browse(b, "page", 5)
  BY <1>1, <1>2, PagesTurn DEF PageFits, Shows
<1>3. CASE demo.page = 3 /\ Then(Touched, "OperationConfirmed", "Signing")
  BY <1>3, TouchedStarts DEF Feeds
<1>4. CASE Then(Touched, "OperationRejected", "Rejected")
  BY <1>4, TouchedStarts DEF Feeds
<1>5. QED BY <1>2, <1>3, <1>4, TouchTurns DEF ReviewInput

LEMMA UnlockPinInputOutcome ==
    ASSUME Ready, Shows("PinUnlock"), NEW b \in Button, UnlockPinInput(b)
    PROVE  Turn \/ Start
<1> DEFINE e == WithDigit("pin_entry")
<1>1. /\ e \in WalletDemoFields /\ e.screen = demo.screen
      /\ e.sequence = demo.sequence /\ e.page = demo.page /\ SamePins(e, demo)
  BY UnlockEntry DEF SamePins
<1>2. \/ Browse(b, "selected_digit", DigitBase)
      \/ Ui(BumpFrame(e))
      \/ e.pin_entry = e.pin /\ Then(e, "UnlockRequested", "Dashboard")
      \/ Ui(SetScreen(e, "PinWrong"))
  BY DEF UnlockPinInput, DigitInput
<1> HIDE DEF e
<1>3. CASE Ui(BumpFrame(e))
  BY <1>1, <1>3, BumpTurns, ReadyRegions DEF PinAgrees, SamePins
<1>4. CASE Ui(SetScreen(e, "PinWrong"))
  BY <1>1, <1>4, MenuSetTurns DEF ScreenState, LockScreens, Shows
<1>5. CASE e.pin_entry = e.pin /\ Then(e, "UnlockRequested", "Dashboard")
  <2>1. /\ demo' = e /\ call' = [event |-> "UnlockRequested", show |-> "Dashboard"]
        /\ UNCHANGED <<wallet, effect>>
    BY <1>5 DEF Then
  <2>2. demo.setup_complete /\ auth = Locked(0) /\ flow = Idle
    BY ScreenTells DEF Shows, LockScreens
  <2>3. call' \in [event: Calls, show: ScreenState]
        /\ call'.event = "UnlockRequested" /\ call'.show = "Dashboard"
    BY <2>1 DEF Calls, ScreenState
  <2>4. SetupFirst'
    BY <1>1, <2>1, <2>2 DEF SetupFirst, Ready, SamePins, wallet
  <2>5. auth' = Locked(0) /\ flow' = Idle /\ demo'.screen = "PinUnlock"
    BY <1>1, <2>1, <2>2 DEF wallet, Shows
  <2>6. BeforeUnlock("UnlockRequested", Locked(0))'
    BY <2>3, <2>5 DEF BeforeUnlock, Before, Calling, Locked, Idle
  <2>7. WalletFollowsScreen'
    BY <2>6 DEF WalletFollowsScreen, Locked
  <2>8. PinKnown' /\ PageExists'
    BY <1>1, <1>5, <2>1, <2>2, ReadyRegions
       DEF PinKnown, PageExists, PinAgrees, SamePins, Shows
  <2>9. QED
    BY <1>1, <2>1, <2>2, <2>3, <2>4, <2>5, <2>7, <2>8 DEF Start, SamePins, wallet
<1>6. QED BY <1>2, <1>3, <1>4, <1>5, DigitsTurn

-----------------------------------------------------------------------------
(* press and tick *)

LEMMA ScreenInputOutcome ==
    ASSUME Ready, NEW b \in Button, ScreenInput(b)
    PROVE  Turn \/ Start
BY NoticeInputTurns, SetupChoiceInputTurns, EditPinTurns, ConfirmPinTurns,
   RecoveryWordInputTurns, VerifyRecoveryWordOutcome, DashboardInputTurns,
   BitcoinAppInputOutcome, SettingsInputTurns, SecurityInputTurns,
   DisplayInputTurns, PowerInputOutcome, ControlInputOutcome,
   UnlockPinInputOutcome, ReviewInputOutcome, TouchTurns
   DEF ScreenInput

LEMMA PressOutcome ==
    ASSUME Ready, NEW b \in Button, Press(b)
    PROVE  Turn \/ Start
<1>1. Touched \in WalletDemoFields /\ Alike(Touched, demo)
  BY TouchedIsAlike DEF Ready
<1>2. ASSUME Shows("Sleeping"),
             Ui(SetScreen([Touched EXCEPT !.wake_count = Smaller(@ + 1, MaxWakeCount)],
                          "Locked"))
      PROVE  Turn
  <2> DEFINE e == [Touched EXCEPT !.wake_count = Smaller(@ + 1, MaxWakeCount)]
  <2>1. Smaller(Touched.wake_count + 1, MaxWakeCount) \in 0..MaxWakeCount
    BY <1>1, FieldTypes, DemoAssumption DEF Smaller
  <2>2. e \in WalletDemoFields
    BY <1>1, <2>1, FieldUpdates, Zenon
  <2>3. e.screen = demo.screen /\ e.sequence = demo.sequence /\ SamePins(e, demo)
    BY <1>1 DEF Alike, SamePins, WalletDemoFields
  <2>4. Ui(SetScreen(e, "Locked"))
    BY <1>2
  <2> HIDE DEF e
  <2>5. QED
    BY <1>2, <2>2, <2>3, <2>4, MenuSetTurns DEF ScreenState, LockScreens, Shows
<1>3. ASSUME CanOpenControlCenter, Enter("ControlCenter", 0) PROVE Turn
  <2>1. demo.setup_complete /\ demo.screen \in OpenScreens \ {"Review", "Signing"}
    BY <1>3, ScreenTells DEF CanOpenControlCenter
  <2>2. CASE demo.screen # "ControlCenter"
    BY <1>3, <2>1, <2>2, EnterFrom
       DEF ScreenState, OpenScreens, SessionScreens, PageFits
  <2>3. CASE demo.screen = "ControlCenter"
    <3> DEFINE e == [Touched EXCEPT !.page = 0]
    <3>1. demo' = e /\ call' = NoCall /\ UNCHANGED <<wallet, effect>>
      BY <1>1, <1>3, <2>3 DEF Enter, Ui, Return, SetScreen, Alike
    <3>2. e \in WalletDemoFields
      BY <1>1, 0 \in 0..4, FieldUpdates, Zenon
    <3>3. e.screen = demo.screen /\ e.sequence = demo.sequence /\ SamePins(e, demo)
          /\ e.page = 0
      BY <1>1 DEF Alike, SamePins, WalletDemoFields
    <3> HIDE DEF e
    <3>4. QED
      BY <2>3, <3>1, <3>2, <3>3, ReadyRegions
         DEF Turn, SameRegion, PinAgrees, PageFits, SamePins, Shows
  <2>4. QED BY <2>2, <2>3
<1>4. QED BY <1>2, <1>3, ScreenInputOutcome DEF Press

\* The handlers the clock may start.
TickStart ==
    /\ Start
    /\ \/ call'.event = "OperationCompleted"
       \/ call'.event = "LockRequested" /\ call'.show = "Sleeping"


LEMMA SigningTickOutcome ==
    ASSUME Ready, Shows("Signing"), NEW ticks \in Nat, SigningTick(ticks)
    PROVE  Alike(demo', demo) /\ (Turn \/ TickStart)
<1> DEFINE e == [demo EXCEPT !.signing_ticks = Smaller(@ + ticks, MaxTicks)]
<1>1. Smaller(demo.signing_ticks + ticks, MaxTicks) \in 0..MaxTicks
  BY FieldTypes, DemoAssumption DEF Smaller, Ready
<1>2. e \in WalletDemoFields
  BY <1>1, FieldUpdates, Zenon DEF Ready
<1>3. Alike(e, demo)
  BY DEF Alike, Ready, WalletDemoFields
<1>4. Ui(e) \/ Then(e, "OperationCompleted", "Signed")
  BY DEF SigningTick
<1> HIDE DEF e
<1>5. CASE Ui(e)
  BY <1>2, <1>3, <1>5, QuietTurns DEF Ui, Return
<1>6. CASE Then(e, "OperationCompleted", "Signed")
  <2>1. Feeds("OperationCompleted", "Signed")
    BY DEF Feeds
  <2>2. Start
    BY <1>2, <1>3, <1>6, <2>1, ThenStarts DEF Alike, SamePins
  <2>3. QED BY <1>3, <1>6, <2>2 DEF Then, TickStart
<1>7. QED BY <1>4, <1>5, <1>6

LEMMA IdleTickOutcome ==
    ASSUME Ready, IsUnlocked, NEW ticks \in Nat, IdleTick(ticks)
    PROVE  Alike(demo', demo) /\ (Turn \/ TickStart)
<1> DEFINE e == [demo EXCEPT !.inactivity_ms = @ + ticks]
<1>1. \/ EnterSleep(demo)
      \/ demo.inactivity_ms + ticks < AUTO_SLEEP_MS /\ Ui(e)
  BY FieldTypes, DemoAssumption DEF IdleTick, Ready
<1>2. CASE EnterSleep(demo)
  <2>1. Start /\ call' = [event |-> "LockRequested", show |-> "Sleeping"]
    BY <1>2, EnterSleepStarts DEF Ready, SamePins
  <2>2. demo' = demo
    BY <1>2 DEF EnterSleep, Then
  <2>3. QED BY <2>1, <2>2 DEF TickStart, Alike
<1>3. CASE demo.inactivity_ms + ticks < AUTO_SLEEP_MS /\ Ui(e)
  <2>1. demo.inactivity_ms + ticks \in 0..AUTO_SLEEP_MS
    BY <1>3, FieldTypes, DemoAssumption DEF Ready
  <2>2. e \in WalletDemoFields
    BY <2>1, FieldUpdates, Zenon DEF Ready
  <2>3. Alike(e, demo)
    BY DEF Alike, Ready, WalletDemoFields
  <2> HIDE DEF e
  <2>4. QED BY <1>3, <2>2, <2>3, QuietTurns DEF Ui, Return
<1>4. QED BY <1>1, <1>2, <1>3

LEMMA TickOutcome ==
    ASSUME Ready, NEW ticks \in Nat, Ui(demo) \/ DemoTick(ticks)
    PROVE  Alike(demo', demo) /\ (Turn \/ TickStart)
<1>1. CASE Ui(demo)
  <2>1. Alike(demo, demo) /\ demo \in WalletDemoFields /\ demo' = demo
    BY <1>1 DEF Alike, Ui, Return, Ready
  <2>2. QED BY <1>1, <2>1, QuietTurns
<1>2. QED
  BY <1>1, SigningTickOutcome, IdleTickOutcome DEF DemoTick, IdleClockRuns

-----------------------------------------------------------------------------
(* The reducer on the states the demo keeps it in *)

Set == lifecycle = Provisioned(ProvisionedMetadata)

LEMMA UnlockRequestedHere ==
    ASSUME Set, auth = Locked(0), flow = Idle, UnlockRequested(AUTH, HOST)
    PROVE  /\ auth' = [tag |-> "ResolvingHost", id |-> AUTH, host |-> HOST, failed |-> 0]
           /\ effect' = [tag |-> "ResolveHostTrust", id |-> AUTH, host |-> HOST]
           /\ UNCHANGED <<lifecycle, flow, policy>>
<1>1. UnlockRefusal = Accepted
  BY DEF UnlockRefusal, Set, Provisioned, IsProvisioned, Locked, Accepted
<1>2. auth.failed = 0
  BY DEF Locked
<1>3. QED BY <1>1, <1>2 DEF UnlockRequested

LEMMA HostTrustResolvedHere ==
    ASSUME auth = [tag |-> "ResolvingHost", id |-> AUTH, host |-> HOST, failed |-> 0],
           HostTrustResolved(AUTH, "Trusted")
    PROVE  /\ auth' = DemoAttempt("VerifyingPin")
           /\ effect' = [tag |-> "VerifyPin", id |-> AUTH, host |-> HOST]
           /\ UNCHANGED <<lifecycle, flow, policy>>
<1>1. CallbackRefusal(auth.tag = "ResolvingHost", auth.id, AUTH) = Accepted
  BY DEF CallbackRefusal
<1>2. auth.id = AUTH /\ auth.host = HOST /\ auth.failed = 0
  OBVIOUS
<1>3. QED BY <1>1, <1>2 DEF HostTrustResolved, Attempt, DemoAttempt

LEMMA PinVerifiedHere ==
    ASSUME Set, auth = DemoAttempt("VerifyingPin"), PinVerified(AUTH)
    PROVE  /\ auth' = DemoAttempt("OpeningSession")
           /\ effect' = [tag |-> "OpenSession", id |-> AUTH, host |-> HOST]
           /\ UNCHANGED <<lifecycle, flow, policy>>
<1>1. /\ auth.tag = "VerifyingPin" /\ auth.id = AUTH /\ auth.host = HOST
      /\ auth.trust = "Trusted"
  BY DEF DemoAttempt
<1>2. IsProvisioned /\ lifecycle.metadata.passphrase = "Disabled"
  BY DEF Set, IsProvisioned, Provisioned, ProvisionedMetadata
<1>3. PinVerifiedRefusal(AUTH) = Accepted
  BY <1>1, <1>2 DEF PinVerifiedRefusal, CallbackRefusal, Accepted
<1>4. OpenSession(0)
  BY <1>2, <1>3 DEF PinVerified
<1>5. QED BY <1>1, <1>4 DEF OpenSession, Attempt, DemoAttempt

LEMMA SessionOpenedHere ==
    ASSUME auth = DemoAttempt("OpeningSession"), SessionOpened(AUTH, SESSION, WALLET)
    PROVE  /\ auth' = DemoSession /\ effect' = [tag |-> "SessionReady"]
           /\ UNCHANGED <<lifecycle, flow, policy>>
<1>1. /\ auth.tag = "OpeningSession" /\ auth.id = AUTH /\ auth.host = HOST
      /\ auth.trust = "Trusted"
  BY DEF DemoAttempt
<1>2. CallbackRefusal(auth.tag = "OpeningSession", auth.id, AUTH) = Accepted
  BY <1>1 DEF CallbackRefusal
<1>3. QED BY <1>1, <1>2 DEF SessionOpened, DemoSession

LEMMA SessionFields ==
    /\ DemoSession.tag = "Unlocked" /\ DemoSession.host = HOST
    /\ DemoSession.wallet = WALLET /\ DemoSession.trust = "Trusted"
BY DEF DemoSession

LEMMA OperationFields ==
    ASSUME NEW kind, NEW stage
    PROVE  /\ DemoOperation(kind, stage).tag = "Operation"
           /\ DemoOperation(kind, stage).id = OPERATION
           /\ DemoOperation(kind, stage).host = HOST
           /\ DemoOperation(kind, stage).wallet = WALLET
           /\ DemoOperation(kind, stage).kind = kind
           /\ DemoOperation(kind, stage).stage = stage
BY DEF DemoOperation

LEMMA OperationAdvances ==
    ASSUME NEW kind, NEW stage, NEW k, NEW s, NEW report,
           flow = DemoOperation(kind, stage), AdvanceOperation(k, s, report)
    PROVE  /\ flow' = DemoOperation(k, s) /\ effect' = report
           /\ UNCHANGED <<lifecycle, auth, policy>>
BY DEF DemoOperation, AdvanceOperation

LEMMA OperationRequestedHere ==
    ASSUME auth = DemoSession, flow = Idle, OperationRequested(OPERATION, HOST)
    PROVE  /\ flow' = DemoOperation("None", [tag |-> "PreparingReview"])
           /\ effect' = [tag |-> "PrepareOperationReview", id |-> OPERATION]
           /\ UNCHANGED <<lifecycle, auth, policy>>
<1>1. RequestRefusal(HOST) = Accepted
  BY SessionFields DEF RequestRefusal, IsUnlocked, Accepted
<1>2. QED BY <1>1, SessionFields DEF OperationRequested, DemoOperation

\* The demo's plan is confirmed and uses a key; nothing speaks against it.
LEMMA DemoPlanFacts ==
    /\ EnforcedPlan(DemoPlan).interaction = "Confirm"
    /\ DemoPlan.kind = "SignTransaction" /\ DemoPlan.assurance = "Full"
    /\ EnforcedPlan(DemoPlan) \in ReviewPlan
<1>1. /\ DemoPlan.kind = "SignTransaction" /\ DemoPlan.assurance = "Full"
      /\ DemoPlan.interaction = "Confirm"
  BY DEF DemoPlan
<1>2. PlanUsesKey(DemoPlan) \in BOOLEAN
  BY <1>1 DEF PlanUsesKey, UsesPrivateKey, KeyKind
<1>3. StrongestInteraction("Confirm", MinimumInteraction(DemoPlan.kind, PlanUsesKey(DemoPlan)))
        = "Confirm"
  BY DEF StrongestInteraction
<1>4. QED
  BY <1>1, <1>2, <1>3, DemoIsTyped
     DEF EnforcedPlan, ReviewPlan, ReviewAssurance, Interaction

LEMMA ReviewPreparedHere ==
    ASSUME auth = DemoSession, policy = Strict,
           flow = DemoOperation("None", [tag |-> "PreparingReview"]),
           ReviewPrepared(OPERATION, DemoPlan)
    PROVE  /\ flow' = DemoReview("Displaying")
           /\ effect' = [tag |-> "RenderOperationReview", id |-> OPERATION]
           /\ UNCHANGED <<lifecycle, auth, policy>>
<1>1. /\ flow.tag = "Operation" /\ flow.id = OPERATION /\ flow.host = HOST
      /\ flow.wallet = WALLET /\ flow.stage.tag = "PreparingReview"
  BY OperationFields
<1>2. OperationRefusal(OPERATION) = Accepted
  BY <1>1 DEF OperationRefusal, CallbackRefusal, IsOperation
<1>3. SessionRefusal = Accepted
  BY <1>1, SessionFields DEF SessionRefusal, IsUnlocked
<1>4. policy.signing_hosts = "AnySessionHost"
  BY DEF Strict
<1>5. PolicyRefusal(DemoPlan) = Accepted
  BY <1>3, <1>4, DemoPlanFacts DEF PolicyRefusal, Accepted
<1>6. AdvanceOperation(DemoPlan.kind,
          [tag |-> "Displaying", plan |-> EnforcedPlan(DemoPlan)],
          [tag |-> "RenderOperationReview", id |-> OPERATION])
  BY <1>1, <1>2, <1>5, DemoPlanFacts DEF ReviewPrepared, RefuseOperation, IsAwaited
<1>7. QED
  BY <1>6, OperationAdvances, DemoPlanFacts DEF DemoReview

LEMMA ReviewFields ==
    ASSUME NEW stage
    PROVE  /\ DemoReview(stage).tag = "Operation" /\ DemoReview(stage).id = OPERATION
           /\ DemoReview(stage).host = HOST /\ DemoReview(stage).wallet = WALLET
           /\ DemoReview(stage).kind = "SignTransaction"
           /\ DemoReview(stage).stage.tag = stage
           /\ DemoReview(stage).stage.plan = EnforcedPlan(DemoPlan)
BY OperationFields DEF DemoReview

LEMMA ReviewDisplayedHere ==
    ASSUME flow = DemoReview("Displaying"), ReviewDisplayed(OPERATION)
    PROVE  /\ flow' = DemoReview("Reviewing") /\ effect' = NoEffect
           /\ UNCHANGED <<lifecycle, auth, policy>>
<1>1. OperationRefusal(OPERATION) = Accepted /\ flow.stage.tag = "Displaying"
      /\ flow.stage.plan = EnforcedPlan(DemoPlan) /\ flow.kind = "SignTransaction"
  BY ReviewFields DEF OperationRefusal, CallbackRefusal, IsOperation
<1>2. AdvanceOperation("SignTransaction",
          [tag |-> "Reviewing", plan |-> EnforcedPlan(DemoPlan)], NoEffect)
  BY <1>1, DemoPlanFacts DEF ReviewDisplayed, RefuseOperation, IsAwaited
<1>3. QED BY <1>2, OperationAdvances DEF DemoReview

LEMMA OperationConfirmedHere ==
    ASSUME auth = DemoSession, flow = DemoReview("Reviewing"),
           OperationConfirmed(OPERATION)
    PROVE  /\ flow' = DemoExecution
           /\ effect' = [tag |-> "ExecuteOperation", id |-> OPERATION]
           /\ UNCHANGED <<lifecycle, auth, policy>>
<1>1. OperationRefusal(OPERATION) = Accepted /\ flow.stage.tag = "Reviewing"
      /\ flow.stage.plan = EnforcedPlan(DemoPlan) /\ flow.kind = "SignTransaction"
  BY ReviewFields DEF OperationRefusal, CallbackRefusal, IsOperation
<1>2. SessionRefusal = Accepted
  BY ReviewFields, SessionFields DEF SessionRefusal, IsUnlocked
<1>3. Execute(OPERATION, "SignTransaction")
  BY <1>1, <1>2, DemoPlanFacts DEF OperationConfirmed, RefuseOperation, IsAwaited
<1>4. QED
  BY <1>3, OperationAdvances DEF Execute, DemoReview, DemoExecution

LEMMA OperationRejectedHere ==
    ASSUME flow = DemoReview("Reviewing"), OperationRejected(OPERATION)
    PROVE  /\ flow' = Idle
           /\ effect' = [tag |-> "RejectOperation", id |-> OPERATION,
                         reason |-> "UserRejected"]
           /\ UNCHANGED <<lifecycle, auth, policy>>
<1>1. OperationRefusal(OPERATION) = Accepted /\ flow.stage.tag = "Reviewing"
  BY ReviewFields DEF OperationRefusal, CallbackRefusal, IsOperation
<1>2. QED
  BY <1>1 DEF OperationRejected, RefuseOperation, OperationDropped, EndOperation

LEMMA OperationCompletedHere ==
    ASSUME flow = DemoExecution, OperationCompleted(OPERATION)
    PROVE  /\ flow' = Idle
           /\ effect' = [tag |-> "CompleteOperation", id |-> OPERATION]
           /\ UNCHANGED <<lifecycle, auth, policy>>
<1>1. OperationRefusal(OPERATION) = Accepted /\ flow.stage.tag = "Executing"
  BY OperationFields DEF OperationRefusal, CallbackRefusal, IsOperation, DemoExecution
<1>2. QED
  BY <1>1 DEF OperationCompleted, OperationFinished, RefuseOperation, EndOperation

LEMMA LockRequestedHere ==
    ASSUME auth = DemoSession, LockRequested
    PROVE  /\ auth' = Locked(0) /\ flow' = Idle
           /\ effect' = [tag |-> "ClearSensitiveState"]
           /\ UNCHANGED <<lifecycle, policy>>
<1>1. auth.tag = "Unlocked" /\ FailedAttempts(auth) = 0
  BY SessionFields DEF FailedAttempts
<1>2. QED BY <1>1 DEF LockRequested, LockWallet

-----------------------------------------------------------------------------
(* apply *)

\* In the middle of a handler.
Running ==
    /\ demo \in WalletDemoFields /\ call \in [event: Calls, show: ScreenState]
    /\ SetupFirst /\ WalletFollowsScreen /\ PinKnown /\ PageExists

\* The handler goes on with its next event.
Proceed ==
    /\ demo' = demo
    /\ call' \in [event: Calls \ {"OperationConfirmed"}, show: ScreenState]
    /\ effect' \in Effect /\ effect'.tag # "ExecuteOperation"
    /\ SetupFirst' /\ WalletFollowsScreen' /\ PinKnown' /\ PageExists'
    /\ call.event \notin {"OperationCompleted", "LockRequested"}

\* The handler ends on the screen it was to show, which is another one.
Finish ==
    /\ demo' \in WalletDemoFields /\ call' = NoCall
    /\ demo'.screen = call.show /\ demo'.screen # demo.screen
    /\ demo'.sequence = (demo.sequence + 1) % SequenceSpan
    /\ demo'.setup_complete
    /\ effect' \in Effect
    /\ effect'.tag = "ExecuteOperation" => Calling("OperationConfirmed")
    /\ SetupFirst' /\ WalletFollowsScreen' /\ PinKnown' /\ PageExists'

LEMMA RunningFacts ==
    ASSUME Running
    PROVE  /\ demo.setup_complete /\ Set /\ policy = Strict
           /\ demo.pin = demo.pin_confirmation /\ call # NoCall
<1>1. call.event # "None" /\ NoCall.event = "None"
  BY DEF Running, Calls, NoCall
<1>2. demo.setup_complete
  BY <1>1 DEF Running, SetupFirst
<1>3. QED BY <1>1, <1>2 DEF Running, SetupFirst, PinKnown, Set

LEMMA RunningRows ==
    ASSUME Running
    PROVE  /\ Calling("UnlockRequested") => BeforeUnlock("UnlockRequested", Locked(0))
           /\ Calling("HostTrustResolved") =>
                 BeforeUnlock("HostTrustResolved", [tag |-> "ResolvingHost",
                              id |-> AUTH, host |-> HOST, failed |-> 0])
           /\ Calling("PinVerified") =>
                 BeforeUnlock("PinVerified", DemoAttempt("VerifyingPin"))
           /\ Calling("SessionOpened") =>
                 BeforeUnlock("SessionOpened", DemoAttempt("OpeningSession"))
           /\ Calling("OperationRequested") =>
                 Before("OperationRequested", {"BitcoinApp"}, {"Review"}, DemoSession, Idle)
           /\ Calling("ReviewPrepared") =>
                 Before("ReviewPrepared", {"BitcoinApp"}, {"Review"}, DemoSession,
                        DemoOperation("None", [tag |-> "PreparingReview"]))
           /\ Calling("ReviewDisplayed") =>
                 Before("ReviewDisplayed", {"BitcoinApp"}, {"Review"}, DemoSession,
                        DemoReview("Displaying"))
           /\ Calling("OperationConfirmed") =>
                 Before("OperationConfirmed", {"Review"}, {"Signing"}, DemoSession,
                        DemoReview("Reviewing"))
           /\ Calling("OperationRejected") =>
                 Before("OperationRejected", {"Review"}, {"Rejected"}, DemoSession,
                        DemoReview("Reviewing"))
           /\ Calling("OperationCompleted") =>
                 Before("OperationCompleted", {"Signing"}, {"Signed"}, DemoSession,
                        DemoExecution)
           /\ Calling("LockRequested") =>
                 Before("LockRequested", OpenScreens, {"Locked", "Sleeping"},
                        DemoSession, FlowOf(demo.screen))
<1>1. demo.setup_complete
  BY RunningFacts
<1>2. QED BY <1>1 DEF Running, WalletFollowsScreen, BeforeUnlock, Before, Calling

\* The unlock runs on one of two screens.
LEMMA UnlockRow ==
    ASSUME NEW event, NEW a, BeforeUnlock(event, a)
    PROVE  /\ call.event = event /\ auth = a /\ flow = Idle
           /\ \/ demo.screen = "RecoveryCheck" /\ call.show = "SetupComplete"
              \/ demo.screen = "PinUnlock" /\ call.show = "Dashboard"
BY DEF BeforeUnlock, Before, Calling

LEMMA ProceedIs ==
    ASSUME Running, NEW next \in Calls \ {"OperationConfirmed"},
           call.event \notin {"OperationCompleted", "LockRequested"},
           demo' = demo, call' = [call EXCEPT !.event = next],
           UNCHANGED <<lifecycle, policy>>,
           effect' \in Effect, effect'.tag # "ExecuteOperation",
           \/ BeforeUnlock("HostTrustResolved", [tag |-> "ResolvingHost",
                              id |-> AUTH, host |-> HOST, failed |-> 0])'
           \/ BeforeUnlock("PinVerified", DemoAttempt("VerifyingPin"))'
           \/ BeforeUnlock("SessionOpened", DemoAttempt("OpeningSession"))'
           \/ Before("ReviewPrepared", {"BitcoinApp"}, {"Review"}, DemoSession,
                        DemoOperation("None", [tag |-> "PreparingReview"]))'
           \/ Before("ReviewDisplayed", {"BitcoinApp"}, {"Review"}, DemoSession,
                        DemoReview("Displaying"))'
    PROVE  Proceed
<1>1. call'.show = call.show
      /\ call' \in [event: Calls \ {"OperationConfirmed"}, show: ScreenState]
  BY DEF Running
<1>2. demo.setup_complete
  BY RunningFacts
<1>3. WalletFollowsScreen'
  BY DEF WalletFollowsScreen
<1>4. SetupFirst' /\ PinKnown' /\ PageExists'
  BY <1>1, <1>2 DEF Running, SetupFirst, PinKnown, PageExists
<1>5. QED BY <1>1, <1>3, <1>4 DEF Proceed

LEMMA FinishIs ==
    ASSUME Running, NEW e \in WalletDemoFields, demo' = e, call' = NoCall,
           e.screen = call.show, e.screen # demo.screen, e.page = 0,
           e.sequence = (demo.sequence + 1) % SequenceSpan, SamePins(e, demo),
           UNCHANGED <<lifecycle, policy>>,
           \/ e.screen \in LockScreens /\ auth' = Locked(0) /\ flow' = Idle
           \/ /\ e.screen \in OpenScreens /\ auth' = DemoSession
              /\ flow' = FlowOf(e.screen),
           effect' \in Effect,
           effect'.tag = "ExecuteOperation" => Calling("OperationConfirmed")
    PROVE  Finish
<1>1. demo.setup_complete /\ demo.pin = demo.pin_confirmation
  BY RunningFacts
<1>2. call'.event = "None" /\ call'.show = "None"
  BY DEF NoCall
<1>3. \/ Before("None", LockScreens, {"None"}, Locked(0), Idle)'
      \/ Before("None", OpenScreens, {"None"}, DemoSession, FlowOf(demo.screen))'
  BY <1>2 DEF Before, Calling, Locked, Idle, DemoSession, FlowOf
<1>4. WalletFollowsScreen'
  BY <1>3 DEF WalletFollowsScreen
<1>5. SetupFirst' /\ PinKnown' /\ PageExists'
  BY <1>1, <1>2 DEF Running, SetupFirst, PinKnown, PageExists, SamePins
<1>6. QED BY <1>1, <1>4, <1>5 DEF Finish, SamePins

\* The end of an unlock shows the screen that was asked for.
LEMMA AfterUnlockScreen ==
    ASSUME Running, call.show # demo.screen, AfterUnlock(TRUE)
    PROVE  /\ demo' \in WalletDemoFields /\ call' = NoCall
           /\ demo'.screen = call.show /\ demo'.page = 0
           /\ demo'.sequence = (demo.sequence + 1) % SequenceSpan
           /\ SamePins(demo', demo)
<1> DEFINE v == IF TRUE /\ call.show = "Dashboard" THEN 0 ELSE demo.home_index
           e == [demo EXCEPT !.home_index = v]
<1>1. v \in 0..2
  BY FieldTypes DEF Running
<1>2. demo' = SetScreen(e, call.show) /\ call' = NoCall
  BY DEF AfterUnlock, Return
<1> HIDE DEF v
<1>3. e \in WalletDemoFields
  BY <1>1, FieldUpdates, Zenon DEF Running
<1>4. e.screen = demo.screen /\ e.sequence = demo.sequence /\ SamePins(e, demo)
  BY DEF SamePins, Running, WalletDemoFields
<1>5. call.show \in ScreenState
  BY DEF Running
<1> HIDE DEF e
<1>6. QED BY <1>2, <1>3, <1>4, <1>5, SetScreenFacts DEF SamePins

LEMMA ApplyUnlockOutcome ==
    ASSUME Running, ApplyUnlock
    PROVE  Proceed \/ Finish
<1>1. CASE Calling("UnlockRequested")
  <2>1. /\ call.event = "UnlockRequested" /\ auth = Locked(0) /\ flow = Idle
        /\ \/ demo.screen = "RecoveryCheck" /\ call.show = "SetupComplete"
           \/ demo.screen = "PinUnlock" /\ call.show = "Dashboard"
    BY <1>1, RunningRows, UnlockRow
  <2>2. ~IsUnlocked
    BY <2>1 DEF IsUnlocked, Locked
  <2>3. /\ UnlockRequested(AUTH, HOST)
        /\ ContinueIf(effect'.tag = "ResolveHostTrust", "HostTrustResolved")
    BY <2>1, <2>2 DEF ApplyUnlock, Calling
  <2>4. /\ auth' = [tag |-> "ResolvingHost", id |-> AUTH, host |-> HOST, failed |-> 0]
        /\ effect' = [tag |-> "ResolveHostTrust", id |-> AUTH, host |-> HOST]
        /\ UNCHANGED <<lifecycle, flow, policy>>
    BY <2>1, <2>3, RunningFacts, UnlockRequestedHere
  <2>5. effect'.tag = "ResolveHostTrust" /\ effect' \in Effect
    BY <2>4, DemoIsTyped DEF Effect
  <2>6. demo' = demo /\ call' = [call EXCEPT !.event = "HostTrustResolved"]
    BY <2>3, <2>5 DEF ContinueIf
  <2>7. call'.event = "HostTrustResolved" /\ call'.show = call.show
    BY <2>6 DEF Running
  <2>8. BeforeUnlock("HostTrustResolved", [tag |-> "ResolvingHost", id |-> AUTH,
                                           host |-> HOST, failed |-> 0])'
    BY <2>1, <2>4, <2>6, <2>7 DEF BeforeUnlock, Before, Calling, Idle, AUTH, HOST
  <2>9. "HostTrustResolved" \in Calls \ {"OperationConfirmed"}
    BY DEF Calls
  <2>10. QED BY <2>1, <2>4, <2>5, <2>6, <2>8, <2>9, ProceedIs
<1>2. CASE Calling("HostTrustResolved")
  <2>1. /\ call.event = "HostTrustResolved" /\ flow = Idle
        /\ auth = [tag |-> "ResolvingHost", id |-> AUTH, host |-> HOST, failed |-> 0]
        /\ \/ demo.screen = "RecoveryCheck" /\ call.show = "SetupComplete"
           \/ demo.screen = "PinUnlock" /\ call.show = "Dashboard"
    BY <1>2, RunningRows, UnlockRow
  <2>2. HostTrustResolved(AUTH, "Trusted") /\ ContinueIf(TRUE, "PinVerified")
    BY <2>1 DEF ApplyUnlock, Calling
  <2>3. /\ auth' = DemoAttempt("VerifyingPin")
        /\ effect' = [tag |-> "VerifyPin", id |-> AUTH, host |-> HOST]
        /\ UNCHANGED <<lifecycle, flow, policy>>
    BY <2>1, <2>2, HostTrustResolvedHere
  <2>4. effect'.tag = "VerifyPin" /\ effect' \in Effect
    BY <2>3, DemoIsTyped DEF Effect
  <2>5. demo' = demo /\ call' = [call EXCEPT !.event = "PinVerified"]
    BY <2>2 DEF ContinueIf
  <2>6. call'.event = "PinVerified" /\ call'.show = call.show
    BY <2>5 DEF Running
  <2>7. BeforeUnlock("PinVerified", DemoAttempt("VerifyingPin"))'
    BY <2>1, <2>3, <2>5, <2>6 DEF BeforeUnlock, Before, Calling, Idle, DemoAttempt
  <2>8. "PinVerified" \in Calls \ {"OperationConfirmed"}
    BY DEF Calls
  <2>9. QED BY <2>1, <2>3, <2>4, <2>5, <2>7, <2>8, ProceedIs
<1>3. CASE Calling("PinVerified")
  <2>1. /\ call.event = "PinVerified" /\ flow = Idle
        /\ auth = DemoAttempt("VerifyingPin")
        /\ \/ demo.screen = "RecoveryCheck" /\ call.show = "SetupComplete"
           \/ demo.screen = "PinUnlock" /\ call.show = "Dashboard"
    BY <1>3, RunningRows, UnlockRow
  <2>2. PinVerified(AUTH) /\ ContinueIf(TRUE, "SessionOpened")
    BY <2>1 DEF ApplyUnlock, Calling
  <2>3. /\ auth' = DemoAttempt("OpeningSession")
        /\ effect' = [tag |-> "OpenSession", id |-> AUTH, host |-> HOST]
        /\ UNCHANGED <<lifecycle, flow, policy>>
    BY <2>1, <2>2, RunningFacts, PinVerifiedHere
  <2>4. effect'.tag = "OpenSession" /\ effect' \in Effect
    BY <2>3, DemoIsTyped DEF Effect
  <2>5. demo' = demo /\ call' = [call EXCEPT !.event = "SessionOpened"]
    BY <2>2 DEF ContinueIf
  <2>6. call'.event = "SessionOpened" /\ call'.show = call.show
    BY <2>5 DEF Running
  <2>7. BeforeUnlock("SessionOpened", DemoAttempt("OpeningSession"))'
    BY <2>1, <2>3, <2>5, <2>6 DEF BeforeUnlock, Before, Calling, Idle, DemoAttempt
  <2>8. "SessionOpened" \in Calls \ {"OperationConfirmed"}
    BY DEF Calls
  <2>9. QED BY <2>1, <2>3, <2>4, <2>5, <2>7, <2>8, ProceedIs
<1>4. CASE Calling("SessionOpened")
  <2>1. /\ call.event = "SessionOpened" /\ flow = Idle
        /\ auth = DemoAttempt("OpeningSession")
        /\ \/ demo.screen = "RecoveryCheck" /\ call.show = "SetupComplete"
           \/ demo.screen = "PinUnlock" /\ call.show = "Dashboard"
    BY <1>4, RunningRows, UnlockRow
  <2>2. SessionOpened(AUTH, SESSION, WALLET) /\ AfterUnlock(auth'.tag = "Unlocked")
    BY <2>1 DEF ApplyUnlock, Calling
  <2>3. /\ auth' = DemoSession /\ effect' = [tag |-> "SessionReady"]
        /\ UNCHANGED <<lifecycle, flow, policy>>
    BY <2>1, <2>2, SessionOpenedHere
  <2>4. effect'.tag = "SessionReady" /\ effect' \in Effect
    BY <2>3 DEF Effect
  <2>5. AfterUnlock(TRUE)
    BY <2>2, <2>3, SessionFields DEF AfterUnlock
  <2>6. /\ demo' \in WalletDemoFields /\ call' = NoCall
        /\ demo'.screen = call.show /\ demo'.page = 0
        /\ demo'.sequence = (demo.sequence + 1) % SequenceSpan
        /\ SamePins(demo', demo)
    BY <2>1, <2>5, AfterUnlockScreen
  <2>7. demo'.screen \in OpenScreens /\ FlowOf(demo'.screen) = Idle
    BY <2>1, <2>6 DEF OpenScreens, SessionScreens, FlowOf
  <2>8. QED BY <2>1, <2>3, <2>4, <2>6, <2>7, FinishIs
<1>5. QED BY <1>1, <1>2, <1>3, <1>4 DEF ApplyUnlock

\* A handler ends on the screen it was to show.
LEMMA ReturnScreen ==
    ASSUME Running, NEW d \in WalletDemoFields, d.screen = demo.screen,
           d.sequence = demo.sequence, SamePins(d, demo),
           call.show # demo.screen, Return(SetScreen(d, call.show))
    PROVE  /\ demo' \in WalletDemoFields /\ call' = NoCall
           /\ demo'.screen = call.show /\ demo'.page = 0
           /\ demo'.sequence = (demo.sequence + 1) % SequenceSpan
           /\ SamePins(demo', demo)
<1>1. demo' = SetScreen(d, call.show) /\ call' = NoCall /\ call.show \in ScreenState
  BY DEF Return, Running
<1>2. QED BY <1>1, SetScreenFacts DEF SamePins

LEMMA ApplyReviewOutcome ==
    ASSUME Running, ApplyReview
    PROVE  Proceed \/ Finish
<1>1. CASE Calling("OperationRequested")
  <2>1. /\ call.event = "OperationRequested" /\ demo.screen = "BitcoinApp"
        /\ call.show = "Review" /\ auth = DemoSession /\ flow = Idle
    BY <1>1, RunningRows DEF Before, Calling
  <2>2. /\ OperationRequested(OPERATION, HOST)
        /\ ContinueIf(effect'.tag = "PrepareOperationReview", "ReviewPrepared")
    BY <2>1 DEF ApplyReview, Calling
  <2>3. /\ flow' = DemoOperation("None", [tag |-> "PreparingReview"])
        /\ effect' = [tag |-> "PrepareOperationReview", id |-> OPERATION]
        /\ UNCHANGED <<lifecycle, auth, policy>>
    BY <2>1, <2>2, OperationRequestedHere
  <2>4. effect'.tag = "PrepareOperationReview" /\ effect' \in Effect
    BY <2>3, DemoIsTyped DEF Effect
  <2>5. demo' = demo /\ call' = [call EXCEPT !.event = "ReviewPrepared"]
    BY <2>2, <2>4 DEF ContinueIf
  <2>6. call'.event = "ReviewPrepared" /\ call'.show = call.show
    BY <2>5 DEF Running
  <2>7. Before("ReviewPrepared", {"BitcoinApp"}, {"Review"}, DemoSession,
               DemoOperation("None", [tag |-> "PreparingReview"]))'
    BY <2>1, <2>3, <2>5, <2>6 DEF Before, Calling, DemoSession, DemoOperation
  <2>8. "ReviewPrepared" \in Calls \ {"OperationConfirmed"}
    BY DEF Calls
  <2>9. QED BY <2>1, <2>3, <2>4, <2>5, <2>7, <2>8, ProceedIs
<1>2. CASE Calling("ReviewPrepared")
  <2>1. /\ call.event = "ReviewPrepared" /\ demo.screen = "BitcoinApp"
        /\ call.show = "Review" /\ auth = DemoSession
        /\ flow = DemoOperation("None", [tag |-> "PreparingReview"])
    BY <1>2, RunningRows DEF Before, Calling
  <2>2. /\ ReviewPrepared(OPERATION, DemoPlan)
        /\ ContinueIf(effect'.tag = "RenderOperationReview", "ReviewDisplayed")
    BY <2>1 DEF ApplyReview, Calling
  <2>3. /\ flow' = DemoReview("Displaying")
        /\ effect' = [tag |-> "RenderOperationReview", id |-> OPERATION]
        /\ UNCHANGED <<lifecycle, auth, policy>>
    BY <2>1, <2>2, RunningFacts, ReviewPreparedHere
  <2>4. effect'.tag = "RenderOperationReview" /\ effect' \in Effect
    BY <2>3, DemoIsTyped DEF Effect
  <2>5. demo' = demo /\ call' = [call EXCEPT !.event = "ReviewDisplayed"]
    BY <2>2, <2>4 DEF ContinueIf
  <2>6. call'.event = "ReviewDisplayed" /\ call'.show = call.show
    BY <2>5 DEF Running
  <2>7. Before("ReviewDisplayed", {"BitcoinApp"}, {"Review"}, DemoSession,
               DemoReview("Displaying"))'
    BY <2>1, <2>3, <2>5, <2>6 DEF Before, Calling, DemoSession, DemoReview
  <2>8. "ReviewDisplayed" \in Calls \ {"OperationConfirmed"}
    BY DEF Calls
  <2>9. QED BY <2>1, <2>3, <2>4, <2>5, <2>7, <2>8, ProceedIs
<1>3. CASE Calling("ReviewDisplayed")
  <2> DEFINE e == SetScreen(demo, "Review")
  <2>1. /\ call.event = "ReviewDisplayed" /\ demo.screen = "BitcoinApp"
        /\ call.show = "Review" /\ auth = DemoSession /\ flow = DemoReview("Displaying")
    BY <1>3, RunningRows DEF Before, Calling
  <2>2. /\ ReviewDisplayed(OPERATION)
        /\ IF flow'.tag = "Operation" /\ effect' = NoEffect
           THEN Return([e EXCEPT !.page = 0]) ELSE ShowIf(FALSE)
    BY <2>1 DEF ApplyReview, Calling
  <2>3. /\ flow' = DemoReview("Reviewing") /\ effect' = NoEffect
        /\ UNCHANGED <<lifecycle, auth, policy>>
    BY <2>1, <2>2, ReviewDisplayedHere
  <2>4. demo' = [e EXCEPT !.page = 0] /\ call' = NoCall
    BY <2>2, <2>3, ReviewFields DEF Return
  <2>5. "Review" \in ScreenState /\ demo \in WalletDemoFields
    BY DEF ScreenState, Running
  <2>6. /\ e \in WalletDemoFields /\ e.screen = "Review" /\ SamePins(e, demo)
        /\ e.sequence = (demo.sequence + 1) % SequenceSpan
    BY <2>1, <2>5, SetScreenFacts
  <2> HIDE DEF e
  <2>7. [e EXCEPT !.page = 0] \in WalletDemoFields
    BY <2>6, 0 \in 0..4, FieldUpdates, Zenon
  <2>8. demo'.screen = "Review" /\ demo'.page = 0 /\ SamePins(demo', demo)
        /\ demo'.sequence = (demo.sequence + 1) % SequenceSpan
    BY <2>4, <2>6 DEF SamePins, WalletDemoFields
  <2>9. effect' \in Effect /\ effect'.tag = "None"
    BY <2>3 DEF Effect, NoEffect
  <2>10. "Review" \in OpenScreens /\ FlowOf("Review") = DemoReview("Reviewing")
    BY DEF OpenScreens, SessionScreens, FlowOf
  <2>11. QED BY <2>1, <2>3, <2>4, <2>7, <2>8, <2>9, <2>10, FinishIs
<1>4. QED BY <1>1, <1>2, <1>3 DEF ApplyReview

LEMMA ApplyDecisionOutcome ==
    ASSUME Running, ApplyDecision
    PROVE  Proceed \/ Finish
<1> USE DEF Running
<1>1. CASE Calling("OperationConfirmed")
  <2> DEFINE e == [demo EXCEPT !.signing_ticks = 0]
  <2>1. /\ call.event = "OperationConfirmed" /\ demo.screen = "Review"
        /\ call.show = "Signing" /\ auth = DemoSession /\ flow = DemoReview("Reviewing")
    BY <1>1, RunningRows DEF Before, Calling
  <2>2. /\ OperationConfirmed(OPERATION)
        /\ IF effect'.tag = "ExecuteOperation"
           THEN Return(SetScreen(e, "Signing")) ELSE ShowIf(FALSE)
    BY <2>1 DEF ApplyDecision, Calling
  <2>3. /\ flow' = DemoExecution
        /\ effect' = [tag |-> "ExecuteOperation", id |-> OPERATION]
        /\ UNCHANGED <<lifecycle, auth, policy>>
    BY <2>1, <2>2, OperationConfirmedHere
  <2>4. effect'.tag = "ExecuteOperation" /\ effect' \in Effect
    BY <2>3, DemoIsTyped DEF Effect
  <2>5. Return(SetScreen(e, "Signing"))
    BY <2>2, <2>4
  <2>6. e \in WalletDemoFields
    BY SmallValues, FieldUpdates, Zenon
  <2>7. e.screen = demo.screen /\ e.sequence = demo.sequence /\ SamePins(e, demo)
    BY DEF SamePins, WalletDemoFields
  <2> HIDE DEF e
  <2>8. /\ demo' \in WalletDemoFields /\ call' = NoCall
        /\ demo'.screen = call.show /\ demo'.page = 0
        /\ demo'.sequence = (demo.sequence + 1) % SequenceSpan
        /\ SamePins(demo', demo)
    BY <2>1, <2>5, <2>6, <2>7, ReturnScreen
  <2>9. "Signing" \in OpenScreens /\ FlowOf("Signing") = DemoExecution
    BY DEF OpenScreens, SessionScreens, FlowOf
  <2>10. QED BY <1>1, <2>1, <2>3, <2>4, <2>8, <2>9, FinishIs
<1>2. CASE Calling("OperationRejected")
  <2>1. /\ call.event = "OperationRejected" /\ demo.screen = "Review"
        /\ call.show = "Rejected" /\ auth = DemoSession /\ flow = DemoReview("Reviewing")
    BY <1>2, RunningRows DEF Before, Calling
  <2>2. /\ OperationRejected(OPERATION)
        /\ ShowIf(effect'.tag = "RejectOperation" /\ effect'.reason = "UserRejected")
    BY <2>1 DEF ApplyDecision, Calling
  <2>3. /\ flow' = Idle
        /\ effect' = [tag |-> "RejectOperation", id |-> OPERATION,
                      reason |-> "UserRejected"]
        /\ UNCHANGED <<lifecycle, auth, policy>>
    BY <2>1, <2>2, OperationRejectedHere
  <2>4. effect'.tag = "RejectOperation" /\ effect' \in Effect
        /\ effect'.reason = "UserRejected"
    BY <2>3, DemoIsTyped DEF Effect, RejectReason
  <2>5. Return(SetScreen(demo, call.show))
    BY <2>2, <2>4 DEF ShowIf
  <2>6. /\ demo' \in WalletDemoFields /\ call' = NoCall
        /\ demo'.screen = call.show /\ demo'.page = 0
        /\ demo'.sequence = (demo.sequence + 1) % SequenceSpan
        /\ SamePins(demo', demo)
    BY <2>1, <2>5, ReturnScreen DEF SamePins
  <2>7. "Rejected" \in OpenScreens /\ FlowOf("Rejected") = Idle
    BY DEF OpenScreens, SessionScreens, FlowOf
  <2>8. QED BY <2>1, <2>3, <2>4, <2>6, <2>7, FinishIs
<1>3. CASE Calling("OperationCompleted")
  <2>1. /\ call.event = "OperationCompleted" /\ demo.screen = "Signing"
        /\ call.show = "Signed" /\ auth = DemoSession /\ flow = DemoExecution
    BY <1>3, RunningRows DEF Before, Calling
  <2>2. OperationCompleted(OPERATION) /\ ShowIf(effect'.tag = "CompleteOperation")
    BY <2>1 DEF ApplyDecision, Calling
  <2>3. /\ flow' = Idle
        /\ effect' = [tag |-> "CompleteOperation", id |-> OPERATION]
        /\ UNCHANGED <<lifecycle, auth, policy>>
    BY <2>1, <2>2, OperationCompletedHere
  <2>4. effect'.tag = "CompleteOperation" /\ effect' \in Effect
    BY <2>3, DemoIsTyped DEF Effect
  <2>5. Return(SetScreen(demo, call.show))
    BY <2>2, <2>4 DEF ShowIf
  <2>6. /\ demo' \in WalletDemoFields /\ call' = NoCall
        /\ demo'.screen = call.show /\ demo'.page = 0
        /\ demo'.sequence = (demo.sequence + 1) % SequenceSpan
        /\ SamePins(demo', demo)
    BY <2>1, <2>5, ReturnScreen DEF SamePins
  <2>7. "Signed" \in OpenScreens /\ FlowOf("Signed") = Idle
    BY DEF OpenScreens, SessionScreens, FlowOf
  <2>8. QED BY <2>1, <2>3, <2>4, <2>6, <2>7, FinishIs
<1>4. QED BY <1>1, <1>2, <1>3 DEF ApplyDecision

LEMMA ApplyLockOutcome ==
    ASSUME Running, ApplyLock
    PROVE  Finish
<1> DEFINE e == [demo EXCEPT !.inactivity_ms = 0]
<1>1. /\ call.event = "LockRequested" /\ demo.screen \in OpenScreens
      /\ call.show \in {"Locked", "Sleeping"} /\ auth = DemoSession
  BY RunningRows DEF Before, Calling, ApplyLock
<1>2. /\ auth' = Locked(0) /\ flow' = Idle
      /\ effect' = [tag |-> "ClearSensitiveState"]
      /\ UNCHANGED <<lifecycle, policy>>
  BY <1>1, LockRequestedHere DEF ApplyLock
<1>3. effect' \in Effect /\ effect'.tag = "ClearSensitiveState"
  BY <1>2 DEF Effect
<1>4. LockScreen = "Locked"
  BY <1>2 DEF LockScreen, Locked
<1>5. Return(SetScreen(e, call.show)) \/ Return(SetScreen(demo, call.show))
  BY <1>4 DEF ApplyLock
<1>6. e \in WalletDemoFields /\ demo \in WalletDemoFields
  BY SmallValues, FieldUpdates, Zenon DEF Running
<1>7. e.screen = demo.screen /\ e.sequence = demo.sequence /\ SamePins(e, demo)
  BY <1>6 DEF SamePins, WalletDemoFields
<1> HIDE DEF e
<1>8. call.show # demo.screen /\ call.show \in LockScreens
  BY <1>1 DEF OpenScreens, SessionScreens, LockScreens
<1>9. /\ demo' \in WalletDemoFields /\ call' = NoCall
      /\ demo'.screen = call.show /\ demo'.page = 0
      /\ demo'.sequence = (demo.sequence + 1) % SequenceSpan
      /\ SamePins(demo', demo)
  <2>1. CASE Return(SetScreen(e, call.show))
    BY <1>6, <1>7, <1>8, <2>1, ReturnScreen
  <2>2. CASE Return(SetScreen(demo, call.show))
    BY <1>6, <1>8, <2>2, ReturnScreen DEF SamePins
  <2>3. QED BY <1>5, <2>1, <2>2
<1>10. QED BY <1>1, <1>2, <1>3, <1>8, <1>9, FinishIs

LEMMA ApplyOutcome ==
    ASSUME Running, Apply
    PROVE  Proceed \/ Finish
BY ApplyUnlockOutcome, ApplyReviewOutcome, ApplyDecisionOutcome, ApplyLockOutcome
   DEF Apply

-----------------------------------------------------------------------------
(* The parts of the invariant that speak of the wallet *)

LEMMA StoryTypes ==
    SetupFirst /\ WalletFollowsScreen =>
        /\ lifecycle \in Lifecycle /\ auth \in AuthState /\ flow \in FlowState
        /\ policy \in SecurityPolicy
<1> SUFFICES ASSUME SetupFirst, WalletFollowsScreen
             PROVE  /\ lifecycle \in Lifecycle /\ auth \in AuthState
                    /\ flow \in FlowState /\ policy \in SecurityPolicy
  OBVIOUS
<1>1. policy \in SecurityPolicy
  BY DEF SetupFirst, Strict, SecurityPolicy
<1>2. lifecycle \in Lifecycle
  <2>1. Empty \in Lifecycle
    BY DEF Lifecycle, Empty
  <2>2. ProvisionedMetadata \in WalletMetadata
    BY DEF ProvisionedMetadata, WalletMetadata, WalletOrigin, BackupStatus, PassphraseMode
  <2>3. Provisioned(ProvisionedMetadata) \in Lifecycle
    BY <2>2 DEF Lifecycle, Provisioned
  <2>4. QED BY <2>1, <2>3 DEF SetupFirst
<1>3. 0 \in RetryCount
  BY RetryAssumption DEF RetryCount
<1>4. Idle \in FlowState /\ Unavailable \in AuthState
  BY DEF Idle, FlowState, Unavailable, AuthState
<1>5. /\ Locked(0) \in AuthState /\ DemoSession \in AuthState
      /\ DemoAttempt("VerifyingPin") \in AuthState
      /\ DemoAttempt("OpeningSession") \in AuthState
      /\ [tag |-> "ResolvingHost", id |-> AUTH, host |-> HOST, failed |-> 0] \in AuthState
  <2>1. Locked(0) \in AuthState
    BY <1>3 DEF Locked, AuthState
  <2>2. DemoSession \in AuthState
    BY DemoIsTyped DEF DemoSession, AuthState, HostTrust
  <2>3. /\ DemoAttempt("VerifyingPin") \in AuthState
        /\ DemoAttempt("OpeningSession") \in AuthState
    BY <1>3, DemoIsTyped DEF DemoAttempt, AuthState, HostTrust
  <2>4. [tag |-> "ResolvingHost", id |-> AUTH, host |-> HOST, failed |-> 0] \in AuthState
    BY <1>3, DemoIsTyped DEF AuthState
  <2>5. QED BY <2>1, <2>2, <2>3, <2>4
<1>6. ASSUME NEW kind \in Kinds \cup {"None"}, NEW stage \in OperationStage
      PROVE  DemoOperation(kind, stage) \in FlowState
  BY DemoIsTyped DEF DemoOperation, FlowState
<1>7. /\ "SignTransaction" \in Kinds /\ [tag |-> "PreparingReview"] \in OperationStage
      /\ [tag |-> "Executing"] \in OperationStage
      /\ [tag |-> "Displaying", plan |-> EnforcedPlan(DemoPlan)] \in OperationStage
      /\ [tag |-> "Reviewing", plan |-> EnforcedPlan(DemoPlan)] \in OperationStage
  BY DemoIsTyped, DemoPlanFacts DEF OperationStage
<1>8. /\ DemoOperation("None", [tag |-> "PreparingReview"]) \in FlowState
      /\ DemoReview("Displaying") \in FlowState /\ DemoReview("Reviewing") \in FlowState
      /\ DemoExecution \in FlowState
  BY <1>6, <1>7 DEF DemoReview, DemoExecution
<1>9. FlowOf(demo.screen) \in FlowState
  BY <1>4, <1>8 DEF FlowOf
<1>10. CASE ~demo.setup_complete
  BY <1>1, <1>2, <1>4, <1>10 DEF SetupFirst
<1>11. CASE demo.setup_complete
  <2>1. auth \in AuthState /\ flow \in FlowState
    BY <1>4, <1>5, <1>8, <1>9, <1>11 DEF WalletFollowsScreen, BeforeUnlock, Before
  <2>2. QED BY <1>1, <1>2, <2>1
<1>12. QED BY <1>10, <1>11

LEMMA StoryTypesNext ==
    (SetupFirst /\ WalletFollowsScreen)' =>
        (/\ lifecycle \in Lifecycle /\ auth \in AuthState /\ flow \in FlowState
         /\ policy \in SecurityPolicy)'
BY StoryTypes, PTL

\* A press that only turns to another screen leaves the wallet's story true.
LEMMA TurnKeepsStory ==
    ASSUME Ready, Turn
    PROVE  SetupFirst' /\ WalletFollowsScreen' /\ PinKnown' /\ PageExists'
<1>1. /\ UNCHANGED <<lifecycle, auth, flow, policy>> /\ call' = NoCall
      /\ demo'.setup_complete = demo.setup_complete /\ SameRegion(demo'.screen)
  BY DEF Turn, wallet
<1>2. call'.event = "None" /\ call'.show = "None"
  BY <1>1 DEF NoCall
<1>3. PinKnown' /\ PageExists'
  BY <1>2 DEF Turn, PinAgrees, PinScreens, PageFits, PinKnown, PageExists
<1>4. SetupFirst'
  <2>1. CASE ~demo.setup_complete
    <3>1. demo.screen \in SetupScreens
      BY <2>1, ReadyRegions
    <3>2. demo'.screen \in SetupScreens
      BY <1>1, <2>1, <3>1 DEF SameRegion
    <3>3. QED BY <1>1, <2>1, <3>2 DEF SetupFirst, Ready, SetupScreens
  <2>2. CASE demo.setup_complete
    BY <1>1, <2>2 DEF SetupFirst, Ready
  <2>3. QED BY <2>1, <2>2
<1>5. WalletFollowsScreen'
  <2>1. CASE ~demo.setup_complete
    BY <1>1, <2>1 DEF WalletFollowsScreen
  <2>2. CASE demo.setup_complete /\ demo.screen \in LockScreens
    <3>1. auth = Locked(0) /\ flow = Idle
      BY <2>2, ScreenTells
    <3>2. demo'.screen \in LockScreens
      BY <1>1, <2>2 DEF SameRegion, LockScreens, OpenScreens, SessionScreens
    <3>3. Before("None", LockScreens, {"None"}, Locked(0), Idle)'
      BY <1>1, <1>2, <3>1, <3>2 DEF Before, Calling, LockScreens, Locked, Idle
    <3>4. QED BY <3>3 DEF WalletFollowsScreen
  <2>3. CASE demo.setup_complete /\ demo.screen \notin LockScreens
    <3>1. demo.screen \in OpenScreens /\ auth = DemoSession /\ flow = FlowOf(demo.screen)
      BY <2>3, ReadyRegions
    <3>2. demo'.screen \in OpenScreens /\ FlowOf(demo'.screen) = FlowOf(demo.screen)
      BY <1>1, <2>3, <3>1 DEF SameRegion, FlowOf
    <3>3. Before("None", OpenScreens, {"None"}, DemoSession, FlowOf(demo.screen))'
      BY <1>1, <1>2, <3>1, <3>2
         DEF Before, Calling, OpenScreens, SessionScreens, DemoSession, FlowOf
    <3>4. QED BY <3>3 DEF WalletFollowsScreen
  <2>4. QED BY <2>1, <2>2, <2>3
<1>6. QED BY <1>3, <1>4, <1>5

-----------------------------------------------------------------------------
(* The display *)

LEMMA CopyType ==
    ASSUME demo \in WalletDemoFields, PageExists
    PROVE  Copy \in Labels \X Nat \X Nat
<1>1. /\ demo.setup_choice \in Nat /\ demo.pin_position \in Nat
      /\ demo.selected_digit \in Nat /\ demo.recovery_index \in Nat
      /\ demo.recovery_check_step \in Nat /\ demo.recovery_check_choice \in Nat
  BY FieldTypes, DemoAssumption
<1>2. /\ demo.home_index \in 0..2 /\ demo.settings_index \in 0..3 /\ demo.page \in 0..4
  BY FieldTypes
<1>3. /\ \A i \in 0..2 : Entry(DashboardCopy, i) \in Labels \X Nat \X Nat
      /\ \A i \in 0..3 : Entry(SettingsCopy, i) \in Labels \X Nat \X Nat
      /\ \A i \in 0..2 : Entry(SecurityCopy, i) \in Labels \X Nat \X Nat
      /\ \A i \in 0..3 : Entry(DisplayCopy, i) \in Labels \X Nat \X Nat
      /\ \A i \in 0..2 : Entry(PowerCopy, i) \in Labels \X Nat \X Nat
      /\ \A i \in 0..3 : Entry(ControlCopy, i) \in Labels \X Nat \X Nat
      /\ \A i \in 0..4 : Entry(ReviewCopy, i) \in Labels \X Nat \X Nat
  <2>1. /\ \A i \in 0..2 : DashboardCopy[i + 1] \in Labels
        /\ \A i \in 0..3 : SettingsCopy[i + 1] \in Labels
        /\ \A i \in 0..2 : SecurityCopy[i + 1] \in Labels
        /\ \A i \in 0..3 : DisplayCopy[i + 1] \in Labels
        /\ \A i \in 0..2 : PowerCopy[i + 1] \in Labels
        /\ \A i \in 0..3 : ControlCopy[i + 1] \in Labels
        /\ \A i \in 0..4 : ReviewCopy[i + 1] \in Labels
    BY DEF Labels
  <2>2. QED BY <2>1 DEF Entry
<1>4. /\ <<"SETUP", demo.setup_choice, 0>> \in Labels \X Nat \X Nat
      /\ PinCopy \in Labels \X Nat \X Nat
      /\ RecoveryTitle \in Labels \X Nat \X Nat
      /\ RecoveryCandidate \in Labels \X Nat \X Nat
      /\ <<"", 0, 0>> \in Labels \X Nat \X Nat
  <2>1. {"", "SETUP", "DIGIT", "WORD", "VERIFY"} \subseteq Labels
    BY DEF Labels
  <2>2. QED BY <1>1, <2>1 DEF PinCopy, RecoveryTitle, RecoveryCandidate
<1>5. /\ demo.screen \in {"SecuritySettings", "PowerSettings"} => demo.page \in 0..2
      /\ demo.screen \in {"DisplaySettings", "ControlCenter"} => demo.page \in 0..3
  BY DEF PageExists
<1>6. QED BY <1>2, <1>3, <1>4, <1>5 DEF Copy, Shows

LEMMA FrameType ==
    ASSUME demo \in WalletDemoFields, PageExists
    PROVE  Frame \in Frames
<1>1. /\ demo.sequence \in 0..SequenceSpan - 1 /\ demo.screen \in ScreenState
      /\ demo.wake_count \in 0..MaxWakeCount
  BY FieldTypes
<1>2. demo.setup_complete \in BOOLEAN
  BY DEF WalletDemoFields
<1>3. IsUnlocked \in BOOLEAN
  BY DEF IsUnlocked
<1>4. Copy \in Labels \X Nat \X Nat
  BY CopyType
<1>5. QED BY <1>1, <1>2, <1>3, <1>4, Zenon DEF Frame, Frames

LEMMA FrameFields ==
    /\ Frame.sequence = demo.sequence /\ Frame.screen = demo.screen /\ Frame.text = Copy
BY DEF Frame

\* The counter seen from the display.
LEMMA AheadMoves ==
    ASSUME display.sequence \in 0..SequenceSpan - 1, display' = display,
           demo'.sequence = (demo.sequence + 1) % SequenceSpan
    PROVE  /\ Ahead(0) => Ahead(1)' /\ ~Ahead(0)'
           /\ Ahead(1) => Ahead(2)' /\ ~Ahead(0)'
<1>1. demo.sequence = (display.sequence + 0) % SequenceSpan =>
          demo'.sequence = (display.sequence + 1) % SequenceSpan
  BY CounterWraps
<1>2. demo.sequence = (display.sequence + 1) % SequenceSpan =>
          demo'.sequence = (display.sequence + 2) % SequenceSpan
  BY CounterWraps
<1>3. QED BY <1>1, <1>2, CounterWraps DEF Ahead

LEMMA AheadZero ==
    ASSUME display.sequence \in 0..SequenceSpan - 1
    PROVE  Ahead(0) <=> demo.sequence = display.sequence
BY CounterWraps DEF Ahead

-----------------------------------------------------------------------------
(* The loop preserves DemoInv *)

Gestures == [mask: SUBSET Buttons, held: 0..CONTROL_CENTER_HOLD_MS,
             long_sent: BOOLEAN]

\* What every step keeps of the demo and the reducer.
Sound ==
    /\ demo \in WalletDemoFields
    /\ call \in [event: Calls, show: ScreenState] \cup {NoCall}
    /\ effect \in Effect
    /\ SetupFirst /\ WalletFollowsScreen /\ PinKnown /\ PageExists

LEMMA InvIsSound ==
    ASSUME DemoInv
    PROVE  /\ Sound
           /\ call = NoCall => Ready
           /\ call # NoCall => Running
           /\ display \in Frames /\ origin \in Frames
           /\ display.sequence \in 0..SequenceSpan - 1
           /\ gesture \in Gestures
           /\ phase \in {"tick", "poll", "publish", "wfi"}
BY DEF DemoInv, DemoTypeOK, Sound, Ready, Running, Frames, Gestures

LEMMA SoundIsTyped ==
    ASSUME Sound', gesture' \in Gestures, display' \in Frames, origin' \in Frames,
           phase' \in {"tick", "poll", "publish", "wfi"}
    PROVE  DemoTypeOK'
<1>1. (/\ lifecycle \in Lifecycle /\ auth \in AuthState /\ flow \in FlowState
       /\ policy \in SecurityPolicy)'
  BY StoryTypesNext DEF Sound
<1>2. QED BY <1>1 DEF Sound, DemoTypeOK, Gestures, Buttons

LEMMA TurnIsSound ==
    ASSUME Ready, effect \in Effect, Turn
    PROVE  Sound'
<1>1. demo' \in WalletDemoFields /\ call' = NoCall /\ effect' = effect
  BY DEF Turn
<1>2. call' \in [event: Calls, show: ScreenState] \cup {NoCall}
  BY <1>1
<1>3. QED BY <1>1, <1>2, TurnKeepsStory DEF Sound, Effect, NoCall, Calls, ScreenState,
             WalletDemoFields

LEMMA StartIsSound ==
    ASSUME effect \in Effect, Start
    PROVE  Sound'
BY DEF Sound, Start, Effect, NoCall, Calls, ScreenState, WalletDemoFields

LEMMA HandlerIsSound ==
    ASSUME Running, Apply
    PROVE  Sound'
<1>1. Proceed \/ Finish
  BY ApplyOutcome
<1>2. CASE Proceed
  BY <1>2 DEF Sound, Proceed, Running, Effect, NoCall, Calls, ScreenState,
     WalletDemoFields
<1>3. CASE Finish
  BY <1>3 DEF Sound, Finish, Effect, NoCall, Calls, ScreenState, WalletDemoFields
<1>4. QED BY <1>1, <1>2, <1>3

\* Nothing that a frame shows has moved.
LEMMA AlikeKeepsOrigin ==
    ASSUME Alike(demo', demo), UNCHANGED <<display, origin>>
    PROVE  /\ \A n \in 0..2 : Ahead(n)' <=> Ahead(n)
           /\ ShowsEntry(display)' <=> ShowsEntry(display)
           /\ OriginHolds' <=> OriginHolds
<1>1. Copy' = Copy
  BY CopyOfAlike
<1>2. /\ demo'.screen = demo.screen /\ demo'.sequence = demo.sequence
      /\ demo'.setup_complete = demo.setup_complete
  BY DEF Alike
<1>3. /\ \A n \in 0..2 : Ahead(n)' <=> Ahead(n)
      /\ Ahead(0)' <=> Ahead(0)
  BY <1>2 DEF Ahead
<1>4. /\ ShowsEntry(display)' <=> ShowsEntry(display)
      /\ ShowsEntry(origin)' <=> ShowsEntry(origin)
  BY <1>1, <1>2 DEF ShowsEntry, Shows
<1>5. QED BY <1>2, <1>3, <1>4 DEF OriginHolds, Shows

LEMMA HeldRange ==
    ASSUME NEW held \in 0..CONTROL_CENTER_HOLD_MS, NEW elapsed \in Nat
    PROVE  Smaller(held + elapsed, CONTROL_CENTER_HOLD_MS) \in 0..CONTROL_CENTER_HOLD_MS
BY LoopAssumption DEF Smaller

LEMMA TickStep ==
    ASSUME DemoInv, NEW elapsed \in Elapsed, Tick(elapsed)
    PROVE  DemoInv'
<1>1. /\ Ready /\ effect \in Effect /\ display \in Frames /\ origin \in Frames
      /\ gesture \in Gestures
  BY InvIsSound DEF Tick, At, Sound
<1>2. elapsed \in Nat /\ (Ui(demo) \/ DemoTick(elapsed))
  BY LoopAssumption DEF Tick
<1>3. Alike(demo', demo) /\ (Turn \/ TickStart)
  BY <1>1, <1>2, TickOutcome
<1>4. /\ phase = "tick" /\ phase' = "poll" /\ call = NoCall
      /\ UNCHANGED <<display, origin>>
  BY DEF Tick, At
<1>5. gesture' \in Gestures /\ gesture'.long_sent = gesture.long_sent
  <2> DEFINE h == Smaller(gesture.held + elapsed, CONTROL_CENTER_HOLD_MS)
  <2>1. h \in 0..CONTROL_CENTER_HOLD_MS
    BY <1>1, <1>2, HeldRange DEF Gestures
  <2>2. gesture' = gesture \/ gesture' = [gesture EXCEPT !.held = h]
    BY DEF Tick
  <2> HIDE DEF h
  <2>3. QED BY <1>1, <2>1, <2>2 DEF Gestures
<1>6. DemoTypeOK' /\ Sound'
  <2>1. Sound'
    BY <1>1, <1>3, TurnIsSound, StartIsSound DEF TickStart
  <2>2. QED BY <1>1, <1>4, <1>5, <2>1, SoundIsTyped
<1>7. /\ \A n \in 0..2 : Ahead(n)' <=> Ahead(n)
      /\ ShowsEntry(display)' <=> ShowsEntry(display)
      /\ OriginHolds' <=> OriginHolds
  BY <1>3, <1>4, AlikeKeepsOrigin
<1>8. call' = NoCall \/ demo.setup_complete
  BY <1>3 DEF Turn, TickStart, Start, Alike
<1>9. FrameCounted'
  <2>1. Ahead(0)' \/ (Ahead(1)' /\ call' = NoCall)
    BY <1>4, <1>7, <1>8 DEF DemoInv, FrameCounted
  <2>2. ShowsEntry(display)'
    BY <1>4, <1>7 DEF DemoInv, FrameCounted
  <2>3. QED BY <1>4, <2>1, <2>2 DEF FrameCounted
<1>10. CallHasCause'
  BY <1>3, <1>4 DEF CallHasCause, Turn, TickStart, Calling
<1>11. GestureHasOrigin'
  BY <1>4, <1>5, <1>7 DEF DemoInv, GestureHasOrigin
<1>12. ConfirmationShown'
  <2>1. call'.event # "OperationConfirmed"
    BY <1>3 DEF Turn, TickStart, NoCall
  <2>2. QED BY <2>1 DEF ConfirmationShown, Calling
<1>13. QED BY <1>6, <1>9, <1>10, <1>11, <1>12 DEF DemoInv, Sound

LEMMA WakeStep ==
    ASSUME DemoInv, Wake
    PROVE  DemoInv'
<1>1. /\ phase = "wfi" /\ phase' = "tick"
      /\ UNCHANGED <<lifecycle, auth, flow, policy, effect, demo, call>>
      /\ UNCHANGED <<gesture, display, origin>>
  BY DEF Wake, demoVars
<1>2. Alike(demo', demo)
  BY <1>1 DEF Alike
<1>3. /\ \A n \in 0..2 : Ahead(n)' <=> Ahead(n)
      /\ ShowsEntry(display)' <=> ShowsEntry(display)
      /\ OriginHolds' <=> OriginHolds
  BY <1>1, <1>2, AlikeKeepsOrigin
<1>4. Sound'
  <2>1. Sound
    BY InvIsSound
  <2>2. QED BY <1>1, <2>1 DEF Sound, SetupFirst, WalletFollowsScreen, BeforeUnlock,
               Before, PinKnown, PageExists, Calling
<1>5. DemoTypeOK'
  BY <1>1, <1>4, InvIsSound, SoundIsTyped
<1>6. FrameCounted' /\ CallHasCause' /\ GestureHasOrigin'
  BY <1>1, <1>3 DEF DemoInv, FrameCounted, CallHasCause, GestureHasOrigin
<1>7. ConfirmationShown'
  BY <1>1 DEF DemoInv, ConfirmationShown, Calling
<1>8. QED BY <1>4, <1>5, <1>6, <1>7 DEF DemoInv, Sound

LEMMA StutterStep ==
    ASSUME DemoInv, UNCHANGED vars
    PROVE  DemoInv'
<1>1. /\ UNCHANGED <<lifecycle, auth, flow, policy, effect, demo, call>>
      /\ UNCHANGED <<phase, gesture, display, origin>>
  BY DEF vars
<1>2. Alike(demo', demo)
  BY <1>1 DEF Alike
<1>3. /\ \A n \in 0..2 : Ahead(n)' <=> Ahead(n)
      /\ ShowsEntry(display)' <=> ShowsEntry(display)
      /\ OriginHolds' <=> OriginHolds
  BY <1>1, <1>2, AlikeKeepsOrigin
<1>4. Sound'
  <2>1. Sound
    BY InvIsSound
  <2>2. QED BY <1>1, <2>1 DEF Sound, SetupFirst, WalletFollowsScreen, BeforeUnlock,
               Before, PinKnown, PageExists, Calling
<1>5. DemoTypeOK'
  BY <1>1, <1>4, InvIsSound, SoundIsTyped
<1>6. FrameCounted' /\ CallHasCause' /\ GestureHasOrigin'
  BY <1>1, <1>3 DEF DemoInv, FrameCounted, CallHasCause, GestureHasOrigin, Calling
<1>7. ConfirmationShown'
  BY <1>1 DEF DemoInv, ConfirmationShown, Calling
<1>8. QED BY <1>4, <1>5, <1>6, <1>7 DEF DemoInv, Sound

\* What polling the buttons comes to: no press, or that of a gesture which has
\* ended or was held long enough, for the first time.
LEMMA PollOutcome ==
    ASSUME DemoInv, NEW active \in SUBSET Buttons, Poll(active)
    PROVE  /\ gesture' \in Gestures
           /\ \/ /\ Ui(demo)
                 /\ gesture'.mask # {} => gesture'.long_sent = gesture.long_sent
              \/ /\ ~gesture.long_sent
                 /\ gesture'.mask = {} \/ gesture'.long_sent
                 /\ \E b \in Button : Press(b)
<1>1. gesture \in Gestures
  BY InvIsSound
<1>2. CASE ButtonsDown(active)
  <2> DEFINE mask == MaskWith(active)
             held == IF gesture.mask = {} THEN 0 ELSE gesture.held
             long == /\ mask = Buttons /\ ~gesture.long_sent
                     /\ held >= CONTROL_CENTER_HOLD_MS
  <2>1. mask \in SUBSET Buttons
    BY <1>1 DEF MaskWith, Gestures
  <2>2. held \in 0..CONTROL_CENTER_HOLD_MS
    BY <1>1, LoopAssumption DEF Gestures
  <2>3. /\ gesture' = [mask |-> mask, held |-> held,
                       long_sent |-> gesture.long_sent \/ long]
        /\ IF long THEN Press("BothHeld") ELSE Ui(demo)
    BY <1>2 DEF ButtonsDown
  <2>4. long => ~gesture.long_sent
    OBVIOUS
  <2>5. (gesture.long_sent \/ long) \in BOOLEAN /\ gesture.long_sent \in BOOLEAN
    BY <1>1 DEF Gestures
  <2> HIDE DEF mask, held, long
  <2>6. gesture' \in Gestures
    BY <2>1, <2>2, <2>3, <2>5 DEF Gestures
  <2>7. CASE long
    BY <2>3, <2>4, <2>6, <2>7 DEF Button
  <2>8. CASE ~long
    <3>1. gesture'.long_sent = (gesture.long_sent \/ long)
      BY <2>3
    <3>2. gesture'.long_sent = gesture.long_sent
      BY <2>5, <2>8, <3>1
    <3>3. QED BY <2>3, <2>6, <2>8, <3>2
  <2>9. QED BY <2>7, <2>8
<1>3. CASE ButtonsUp
  <2>1. 0 \in 0..CONTROL_CENTER_HOLD_MS
    BY LoopAssumption
  <2>2. gesture' = NoGesture /\ NoGesture \in Gestures /\ NoGesture.mask = {}
    BY <1>3, <2>1 DEF ButtonsUp, NoGesture, Gestures
  <2>3. CASE ReleasedAs(gesture.mask) = {} /\ Ui(demo)
    BY <2>2, <2>3
  <2>4. ASSUME NEW b \in ReleasedAs(gesture.mask), Press(b)
        PROVE  ~gesture.long_sent /\ b \in Button
    BY <2>4 DEF ReleasedAs, Button
  <2>5. QED BY <1>3, <2>2, <2>3, <2>4 DEF ButtonsUp
<1>4. QED BY <1>2, <1>3 DEF Poll

\* The confirmation starts on the page the user saw when the gesture began.
LEMMA PressStep ==
    ASSUME DemoInv, At("poll"), ~gesture.long_sent,
           gesture' \in Gestures, gesture'.mask = {} \/ gesture'.long_sent,
           NEW b \in Button, Press(b),
           phase' = "publish", UNCHANGED <<display, origin>>
    PROVE  DemoInv'
<1>1. /\ Ready /\ effect \in Effect /\ display \in Frames /\ origin \in Frames
      /\ display.sequence \in 0..SequenceSpan - 1
      /\ phase = "poll" /\ call = NoCall
  BY InvIsSound DEF At, Sound
<1>2. Turn \/ Start
  BY <1>1, PressOutcome
<1>3. DemoTypeOK' /\ Sound'
  <2>1. Sound'
    BY <1>1, <1>2, TurnIsSound, StartIsSound
  <2>2. QED BY <1>1, <2>1, SoundIsTyped
<1>4. Ahead(0) \/ Ahead(1)
  BY <1>1 DEF DemoInv, FrameCounted
<1>5. Ahead(0) => ShowsEntry(display)
  BY <1>1 DEF DemoInv, FrameCounted
<1>6. OriginHolds
  BY <1>1 DEF DemoInv, GestureHasOrigin
<1>7. FrameCounted'
  <2>1. CASE Start
    <3>1. demo'.sequence = demo.sequence /\ call'.event \in Calls
      BY <2>1 DEF Start
    <3>2. (Ahead(0)' \/ Ahead(1)') /\ call' # NoCall
      BY <1>4, <3>1 DEF Ahead, Calls, NoCall
    <3>3. QED BY <3>2 DEF FrameCounted
  <2>2. CASE Turn /\ demo'.sequence = (demo.sequence + 1) % SequenceSpan
    <3>1. call' = NoCall
      BY <2>2 DEF Turn
    <3>2. (Ahead(1)' \/ Ahead(2)') /\ ~Ahead(0)'
      BY <1>1, <1>4, <2>2, AheadMoves
    <3>3. QED BY <3>1, <3>2 DEF FrameCounted
  <2>3. CASE Turn /\ demo'.sequence # (demo.sequence + 1) % SequenceSpan
    <3>1. /\ call' = NoCall /\ demo'.sequence = demo.sequence
          /\ demo'.screen = demo.screen /\ (Copy' = Copy \/ Shows("ControlCenter"))
      BY <2>3 DEF Turn
    <3>2. /\ Ahead(0)' <=> Ahead(0)
          /\ Ahead(1)' <=> Ahead(1)
      BY <3>1 DEF Ahead
    <3>3. ShowsEntry(display) => ShowsEntry(display)'
      BY <3>1 DEF ShowsEntry, Shows
    <3>4. QED BY <1>4, <1>5, <3>1, <3>2, <3>3 DEF FrameCounted
  <2>4. QED BY <1>2, <2>1, <2>2, <2>3
<1>8. CallHasCause' /\ GestureHasOrigin'
  BY DEF CallHasCause, GestureHasOrigin
<1>9. ConfirmationShown'
  <2>1. SUFFICES ASSUME call'.event = "OperationConfirmed" PROVE ConfirmationShown'
    BY DEF ConfirmationShown, Calling
  <2>2. Start /\ Shows("Review") /\ demo.page = 3
    BY <1>2, <2>1 DEF Turn, NoCall, Start
  <2>3. demo.setup_complete
    BY <1>1, <2>2, ScreenTells DEF Shows, SessionScreens
  <2>4. ShowsEntry(origin) /\ origin = display
    BY <1>6, <2>2, <2>3 DEF OriginHolds, Shows
  <2>5. origin.screen = "Review" /\ origin.text = Copy
    BY <2>2, <2>4 DEF ShowsEntry, Shows
  <2>6. Copy = Entry(ReviewCopy, 3)
    BY <2>2 DEF Copy, Shows
  <2>7. Entry(ReviewCopy, 3)[1] = "APPROVE"
    BY DEF Entry, ReviewCopy
  <2>8. QED BY <2>4, <2>5, <2>6, <2>7 DEF ConfirmationShown
<1>10. QED BY <1>3, <1>7, <1>8, <1>9 DEF DemoInv, Sound

LEMMA PollStep ==
    ASSUME DemoInv, NEW active \in SUBSET Buttons, Poll(active)
    PROVE  DemoInv'
<1>1. /\ At("poll") /\ phase = "poll" /\ call = NoCall /\ phase' = "publish"
      /\ UNCHANGED <<display, origin>>
  BY DEF Poll, At
<1>2. gesture' \in Gestures
  BY PollOutcome
<1>3. CASE /\ Ui(demo)
           /\ gesture'.mask # {} => gesture'.long_sent = gesture.long_sent
  <2>1. Ready /\ effect \in Effect /\ display \in Frames /\ origin \in Frames
    BY <1>1, InvIsSound DEF Sound
  <2>2. Alike(demo, demo) /\ demo \in WalletDemoFields /\ demo' = demo
    BY <1>3, <2>1 DEF Alike, Ui, Return, Ready
  <2>3. Turn /\ call' = NoCall
    BY <1>3, <2>1, <2>2, QuietTurns DEF Turn
  <2>4. DemoTypeOK' /\ Sound'
    BY <1>1, <1>2, <2>1, <2>3, TurnIsSound, SoundIsTyped
  <2>5. /\ \A n \in 0..2 : Ahead(n)' <=> Ahead(n)
        /\ ShowsEntry(display)' <=> ShowsEntry(display)
        /\ OriginHolds' <=> OriginHolds
    BY <1>1, <2>2, AlikeKeepsOrigin
  <2>6. FrameCounted'
    BY <1>1, <2>3, <2>5 DEF DemoInv, FrameCounted
  <2>7. CallHasCause'
    BY <2>3 DEF CallHasCause
  <2>8. GestureHasOrigin'
    BY <1>1, <1>3, <2>5 DEF DemoInv, GestureHasOrigin
  <2>9. ConfirmationShown'
    BY <2>3 DEF ConfirmationShown, Calling, NoCall
  <2>10. QED BY <2>4, <2>6, <2>7, <2>8, <2>9 DEF DemoInv, Sound
<1>4. CASE /\ ~gesture.long_sent
           /\ gesture'.mask = {} \/ gesture'.long_sent
           /\ \E b \in Button : Press(b)
  BY <1>1, <1>2, <1>4, PressStep
<1>5. QED BY <1>3, <1>4, PollOutcome

LEMMA PublishStep ==
    ASSUME DemoInv, Publish
    PROVE  DemoInv'
<1>1. /\ phase = "publish" /\ call = NoCall /\ phase' \in {"tick", "wfi"}
      /\ UNCHANGED <<lifecycle, auth, flow, policy, effect, demo, call>>
      /\ UNCHANGED gesture
      /\ display' = IF demo.sequence # display.sequence THEN Frame ELSE display
      /\ origin' = IF gesture.mask = {} THEN display' ELSE origin
  BY DEF Publish, At, demoVars
<1>2. /\ Sound /\ display \in Frames /\ origin \in Frames /\ gesture \in Gestures
      /\ display.sequence \in 0..SequenceSpan - 1
  BY InvIsSound
<1>3. Frame \in Frames
  BY <1>2, FrameType DEF Sound
<1>4. Sound'
  BY <1>1, <1>2 DEF Sound, SetupFirst, WalletFollowsScreen, BeforeUnlock,
     Before, PinKnown, PageExists, Calling
<1>5. DemoTypeOK'
  BY <1>1, <1>2, <1>3, <1>4, SoundIsTyped
<1>6. Copy' = Copy /\ (Shows("ControlCenter")' <=> Shows("ControlCenter"))
  <2>1. Alike(demo', demo)
    BY <1>1 DEF Alike
  <2>2. QED BY <1>1, <2>1, CopyOfAlike DEF Shows
<1>7. display'.sequence = demo.sequence
  BY <1>1, FrameFields
<1>8. Ahead(0)'
  <2>1. display'.sequence \in 0..SequenceSpan - 1
    BY <1>1, <1>2, <1>3 DEF Frames
  <2>2. QED BY <1>1, <1>7, <2>1, CounterWraps DEF Ahead
<1>9. ShowsEntry(display)'
  <2>1. CASE demo.sequence # display.sequence
    BY <1>1, <1>6, <2>1, FrameFields DEF ShowsEntry
  <2>2. CASE demo.sequence = display.sequence
    <3>1. ShowsEntry(display)
      BY <1>1, <1>2, <2>2, AheadZero DEF DemoInv, FrameCounted
    <3>2. display' = display
      BY <1>1, <2>2
    <3>3. QED BY <1>1, <1>6, <3>1, <3>2 DEF ShowsEntry
  <2>3. QED BY <2>1, <2>2
<1>10. FrameCounted' /\ CallHasCause'
  BY <1>1, <1>8, <1>9 DEF FrameCounted, CallHasCause
<1>11. GestureHasOrigin'
  <2>1. CASE gesture.mask = {}
    <3>1. origin' = display'
      BY <1>1, <2>1
    <3>2. ShowsEntry(origin)'
      BY <1>9, <3>1 DEF ShowsEntry
    <3>3. QED BY <1>8, <3>1, <3>2 DEF GestureHasOrigin, OriginHolds
  <2>2. CASE gesture.mask # {} /\ ~gesture.long_sent
    <3>1. OriginHolds /\ origin' = origin
      BY <1>1, <2>2 DEF DemoInv, GestureHasOrigin
    <3>2. ShowsEntry(origin)' <=> ShowsEntry(origin)
      BY <1>1, <1>6, <3>1 DEF ShowsEntry
    <3>3. Ahead(0) => display' = display
      BY <1>1, <1>2, AheadZero
    <3>4. OriginHolds'
      BY <1>1, <1>8, <3>1, <3>2, <3>3 DEF OriginHolds, Shows
    <3>5. QED BY <3>4 DEF GestureHasOrigin
  <2>3. CASE gesture.long_sent
    BY <1>1, <2>3 DEF GestureHasOrigin
  <2>4. QED BY <2>1, <2>2, <2>3
<1>12. ConfirmationShown'
  BY <1>1 DEF ConfirmationShown, Calling, NoCall
<1>13. QED BY <1>4, <1>5, <1>10, <1>11, <1>12 DEF DemoInv, Sound

\* A handler runs to its end; one that the clock started takes the screen away.
LEMMA HandlerStep ==
    ASSUME DemoInv, Handler
    PROVE  DemoInv'
<1>1. Apply /\ UNCHANGED <<phase, gesture, display, origin>>
  BY DEF Handler, loopVars
<1>2. /\ Sound /\ display \in Frames /\ origin \in Frames /\ gesture \in Gestures
      /\ display.sequence \in 0..SequenceSpan - 1
      /\ phase \in {"tick", "poll", "publish", "wfi"}
  BY InvIsSound
<1>3. call # NoCall
  <2>1. ApplyUnlock \/ ApplyReview => \E e \in Calls : Calling(e)
    BY Zenon DEF ApplyUnlock, ApplyReview, Calls
  <2>2. ApplyDecision \/ ApplyLock => \E e \in Calls : Calling(e)
    BY Zenon DEF ApplyDecision, ApplyLock, Calls
  <2>3. \E e \in Calls : Calling(e)
    BY <1>1, <2>1, <2>2 DEF Apply
  <2>4. NoCall.event \notin Calls
    BY DEF NoCall, Calls
  <2>5. QED BY <2>3, <2>4 DEF Calling
<1>4. Running
  BY <1>3, InvIsSound
<1>5. Sound' /\ DemoTypeOK'
  BY <1>1, <1>2, <1>4, HandlerIsSound, SoundIsTyped
<1>6. /\ phase \in {"poll", "publish"}
      /\ Ahead(0) \/ Ahead(1)
      /\ phase = "poll" => Ahead(0)
  BY <1>2, <1>3 DEF DemoInv, FrameCounted
<1>7. CASE Proceed
  <2>1. /\ demo' = demo /\ call'.event # "OperationConfirmed" /\ call' # NoCall
        /\ call.event \notin {"OperationCompleted", "LockRequested"}
    BY <1>7 DEF Proceed, Calls, NoCall
  <2>2. phase = "publish"
    BY <1>3, <1>6, <2>1 DEF DemoInv, CallHasCause, Calling
  <2>3. Alike(demo', demo)
    BY <2>1 DEF Alike
  <2>4. /\ \A n \in 0..2 : Ahead(n)' <=> Ahead(n)
        /\ ShowsEntry(display)' <=> ShowsEntry(display)
        /\ OriginHolds' <=> OriginHolds
    BY <1>1, <2>3, AlikeKeepsOrigin
  <2>5. FrameCounted'
    BY <1>1, <1>6, <2>1, <2>2, <2>4 DEF FrameCounted
  <2>6. CallHasCause' /\ GestureHasOrigin'
    BY <1>1, <1>3, <2>2, <2>4 DEF DemoInv, CallHasCause, GestureHasOrigin
  <2>7. ConfirmationShown'
    BY <2>1 DEF ConfirmationShown, Calling
  <2>8. QED BY <1>5, <2>5, <2>6, <2>7 DEF DemoInv, Sound
<1>8. CASE Finish
  <2>1. /\ call' = NoCall /\ demo'.screen = call.show
        /\ demo'.sequence = (demo.sequence + 1) % SequenceSpan
    BY <1>8 DEF Finish
  <2>2. /\ Ahead(0) => Ahead(1)' /\ ~Ahead(0)'
        /\ Ahead(1) => Ahead(2)' /\ ~Ahead(0)'
    BY <1>1, <1>2, <2>1, AheadMoves
  <2>3. FrameCounted'
    BY <1>1, <1>6, <2>1, <2>2 DEF FrameCounted
  <2>4. CallHasCause'
    BY <2>1 DEF CallHasCause
  <2>5. GestureHasOrigin'
    <3>1. CASE phase = "publish"
      BY <1>1, <1>3, <3>1 DEF DemoInv, CallHasCause, GestureHasOrigin
    <3>2. CASE phase = "poll" /\ Calling("OperationCompleted") /\ ~gesture.long_sent
      <4>1. demo.screen = "Signing" /\ call.show = "Signed"
        BY <1>4, <3>2, RunningRows DEF Before
      <4>2. OriginHolds
        BY <3>2 DEF DemoInv, GestureHasOrigin
      <4>3. origin.screen = "Signing"
        BY <4>1, <4>2 DEF OriginHolds, ShowsEntry, Shows
      <4>4. OriginHolds'
        BY <1>1, <2>1, <4>1, <4>3 DEF OriginHolds, Shows
      <4>5. QED BY <4>4 DEF GestureHasOrigin
    <3>3. CASE phase = "poll" /\ call.show = "Sleeping"
      BY <2>1, <3>3 DEF GestureHasOrigin, OriginHolds, Shows
    <3>4. CASE gesture.long_sent
      BY <1>1, <3>4 DEF GestureHasOrigin
    <3>5. QED BY <1>3, <1>6, <3>1, <3>2, <3>3, <3>4 DEF DemoInv, CallHasCause
  <2>6. ConfirmationShown'
    BY <2>1 DEF ConfirmationShown, Calling, NoCall
  <2>7. QED BY <1>5, <2>3, <2>4, <2>5, <2>6 DEF DemoInv, Sound
<1>9. QED BY <1>4, <1>1, <1>7, <1>8, ApplyOutcome

-----------------------------------------------------------------------------
(* The invariant and what follows from it *)

LEMMA InitInv == Init => DemoInv
<1> SUFFICES ASSUME Init PROVE DemoInv
  OBVIOUS
<1>1. /\ lifecycle = Empty /\ auth = Unavailable /\ flow = Idle /\ policy = Strict
      /\ effect = NoEffect /\ call = NoCall /\ phase = "tick" /\ gesture = NoGesture
      /\ display = [Frame EXCEPT !.sequence = SequenceSpan - 1] /\ origin = display
  BY DEF Init, DemoInit, NewWallet, NoEffect
<1>2. /\ demo.screen = "Welcome" /\ demo.sequence = 0 /\ demo.page = 0
      /\ demo.setup_complete = FALSE
  BY DEF Init, DemoInit
<1>3. NoPin \in Pin
  BY DemoAssumption DEF NoPin, Pin
<1>4. demo \in WalletDemoFields
  <2>1. /\ 0 \in 0..SequenceSpan - 1 /\ 0 \in 0..MaxTicks /\ 0 \in 0..AUTO_SLEEP_MS
        /\ 0 \in 0..PIN_DIGITS - 1 /\ 0 \in 0..DigitBase - 1
        /\ 0 \in 0..RecoveryWords - 1 /\ 0 \in 0..MaxWakeCount
    BY DemoAssumption
  <2>2. /\ 0 \in 0..1 /\ 0 \in 0..2 /\ 0 \in 0..3 /\ 0 \in 0..4 /\ 1 \in 0..2
        /\ "Welcome" \in ScreenState /\ FALSE \in BOOLEAN
    BY DEF ScreenState
  <2>3. QED BY <1>3, <2>1, <2>2, Zenon DEF Init, DemoInit, WalletDemoFields
<1>5. call.event = "None" /\ call.show = "None"
  BY <1>1 DEF NoCall
<1>6. Sound
  <2>1. NoEffect \in Effect
    BY DEF NoEffect, Effect
  <2>2. PinKnown
    BY <1>2, <1>5 DEF PinKnown
  <2>3. SetupFirst /\ WalletFollowsScreen /\ PageExists
    BY <1>1, <1>2 DEF SetupFirst, WalletFollowsScreen, PageExists, SetupScreens
  <2>4. QED BY <1>1, <1>4, <2>1, <2>2, <2>3 DEF Sound
<1>7. Frame \in Frames
  BY <1>4, <1>6, FrameType DEF Sound
<1>8. /\ display \in Frames /\ display.sequence = SequenceSpan - 1
      /\ display.screen = demo.screen /\ display.text = Copy
  <2>1. SequenceSpan - 1 \in 0..SequenceSpan - 1
    BY DemoAssumption
  <2>2. QED BY <1>1, <1>7, <2>1, FrameFields DEF Frames
<1>9. DemoTypeOK
  <2>1. NoGesture \in Gestures
    BY LoopAssumption DEF NoGesture, Gestures
  <2>2. QED BY <1>1, <1>6, <1>8, <2>1, StoryTypes DEF DemoTypeOK, Sound, Gestures
<1>10. Ahead(1) /\ ~Ahead(0) /\ ShowsEntry(display)
  <2>1. (SequenceSpan - 1 + 1) % SequenceSpan = 0
    BY DemoAssumption
  <2>2. (SequenceSpan - 1 + 0) % SequenceSpan # 0
    <3>1. SequenceSpan - 1 \in 0..SequenceSpan - 1 /\ SequenceSpan - 1 # 0
      BY DemoAssumption
    <3>2. QED BY <3>1, CounterWraps
  <2>3. ~Ahead(0)
    BY <1>2, <1>8, <2>2, Zenon DEF Ahead
  <2>4. Ahead(1)
    BY <1>2, <1>8, <2>1, Zenon DEF Ahead
  <2>5. QED BY <1>8, <2>3, <2>4 DEF ShowsEntry
<1>11. FrameCounted /\ CallHasCause
  BY <1>1, <1>2, <1>10 DEF FrameCounted, CallHasCause
<1>12. GestureHasOrigin
  BY <1>1, <1>2, <1>10 DEF GestureHasOrigin, OriginHolds, ShowsEntry
<1>13. ConfirmationShown
  BY <1>5 DEF ConfirmationShown, Calling
<1>14. QED BY <1>6, <1>9, <1>11, <1>12, <1>13 DEF DemoInv, Sound

LEMMA NextInv == DemoInv /\ [Next]_vars => DemoInv'
<1> SUFFICES ASSUME DemoInv, [Next]_vars PROVE DemoInv'
  OBVIOUS
<1>1. ASSUME NEW e \in Elapsed, Tick(e) PROVE DemoInv'
  BY <1>1, TickStep
<1>2. ASSUME NEW active \in SUBSET Buttons, Poll(active) PROVE DemoInv'
  BY <1>2, PollStep
<1>3. CASE Publish
  BY <1>3, PublishStep
<1>4. CASE Handler
  BY <1>4, HandlerStep
<1>5. CASE Wake
  BY <1>5, WakeStep
<1>6. CASE UNCHANGED vars
  BY <1>6, StutterStep
<1>7. QED BY <1>1, <1>2, <1>3, <1>4, <1>5, <1>6 DEF Next, Loop

\* DemoInv is inductive: the reducer stands where the screen and the running
\* handler say, the frame counter is at most two ahead of the display, and the
\* present gesture began on what it will act on.
THEOREM DemoInductive == Spec => []DemoInv
BY InitInv, NextInv, PTL DEF Spec

\* Every field of the demo, of the reducer behind it and of the main loop keeps
\* its type: no index of a menu, digit or word and no clock leaves its range.
THEOREM DemoTypes == Spec => []DemoTypeOK
<1>1. DemoInv => DemoTypeOK
  BY DEF DemoInv
<1>2. QED BY <1>1, DemoInductive, PTL

\* Between two handlers the screen shows what the reducer is doing: session
\* screens only while a session is open, Review and Signing exactly during
\* these stages of an operation, and never the fail-closed Error screen.
THEOREM ScreenIsHonest == Spec => []ScreenMatchesWallet
<1>1. DemoInv => ScreenMatchesWallet
  <2> SUFFICES ASSUME DemoInv, call = NoCall
               PROVE  /\ ~Shows("Error")
                      /\ demo.screen \in SessionScreens => IsUnlocked
                      /\ IsUnlocked => demo.screen \in SessionScreens \cup {"Information"}
                      /\ Shows("Review") <=> IsOperation /\ flow.stage.tag = "Reviewing"
                      /\ Shows("Signing") <=> IsOperation /\ flow.stage.tag = "Executing"
                      /\ demo.screen \notin {"Review", "Signing"} => flow = Idle
    BY DEF ScreenMatchesWallet
  <2>1. Ready
    BY InvIsSound
  <2>2. Idle.tag = "Idle"
    BY DEF Idle
  <2>3. CASE ~demo.setup_complete
    <3>1. flow = Idle /\ demo.screen \in SetupScreens /\ ~IsUnlocked
      BY <2>1, <2>3, ReadyRegions DEF Ready, SetupFirst
    <3>2. QED BY <2>2, <3>1 DEF SetupScreens, SessionScreens, Shows, IsOperation
  <2>4. CASE demo.setup_complete /\ demo.screen \in LockScreens
    <3>1. flow = Idle /\ ~IsUnlocked
      BY <2>1, <2>4, ReadyRegions DEF LockScreens, OpenScreens, SessionScreens
    <3>2. QED BY <2>2, <2>4, <3>1 DEF LockScreens, SessionScreens, Shows, IsOperation
  <2>5. CASE demo.setup_complete /\ demo.screen \notin LockScreens
    <3>1. flow = FlowOf(demo.screen) /\ demo.screen \in OpenScreens /\ IsUnlocked
      BY <2>1, <2>5, ReadyRegions
    <3>2. /\ DemoReview("Reviewing").tag = "Operation"
          /\ DemoReview("Reviewing").stage.tag = "Reviewing"
          /\ DemoExecution.tag = "Operation" /\ DemoExecution.stage.tag = "Executing"
      BY DEF DemoReview, DemoExecution, DemoOperation
    <3>3. CASE Shows("Review")
      <4>1. flow = DemoReview("Reviewing")
        BY <3>1, <3>3 DEF FlowOf, Shows
      <4>2. QED BY <3>1, <3>2, <3>3, <4>1 DEF Shows, IsOperation, OpenScreens
    <3>4. CASE Shows("Signing")
      <4>1. flow = DemoExecution
        BY <3>1, <3>4 DEF FlowOf, Shows
      <4>2. QED BY <3>1, <3>2, <3>4, <4>1 DEF Shows, IsOperation, OpenScreens
    <3>5. CASE ~Shows("Review") /\ ~Shows("Signing")
      BY <2>2, <3>1, <3>5 DEF FlowOf, Shows, IsOperation, OpenScreens, SessionScreens
    <3>6. QED BY <3>3, <3>4, <3>5
  <2>6. QED BY <2>3, <2>4, <2>5
<1>2. QED BY <1>1, DemoInductive, PTL

\* Only a step of a handler gives the reducer's effect or opens a session.
LEMMA QuietSteps ==
    ASSUME DemoInv, [Next]_vars, ~Handler
    PROVE  /\ effect' = effect
           /\ \/ UNCHANGED <<auth, flow>>
              \/ ~IsUnlocked /\ auth' = Locked(0) /\ flow = Idle /\ flow' = Idle
<1>1. ASSUME Turn \/ Start
      PROVE  /\ effect' = effect
             /\ \/ UNCHANGED <<auth, flow>>
                \/ ~IsUnlocked /\ auth' = Locked(0) /\ flow = Idle /\ flow' = Idle
  BY <1>1 DEF Turn, Start, wallet
<1>2. ASSUME NEW e \in Elapsed, Tick(e) PROVE Turn \/ Start
  <2>1. Ready /\ e \in Nat /\ (Ui(demo) \/ DemoTick(e))
    BY <1>2, InvIsSound, LoopAssumption DEF Tick, At
  <2>2. QED BY <2>1, TickOutcome DEF TickStart
<1>3. ASSUME NEW active \in SUBSET Buttons, Poll(active) PROVE Turn \/ Start
  <2>1. Ready
    BY <1>3, InvIsSound DEF Poll, At
  <2>2. Ui(demo) => Turn
    BY <2>1, QuietTurns DEF Alike, Ready
  <2>3. QED BY <1>3, <2>1, <2>2, PollOutcome, PressOutcome
<1>4. Publish \/ Wake \/ UNCHANGED vars => UNCHANGED <<effect, auth, flow>>
  BY DEF Publish, Wake, vars, demoVars
<1>5. QED BY <1>1, <1>2, <1>3, <1>4 DEF Next, Loop

LEMMA HandlerRuns ==
    ASSUME DemoInv, Handler
    PROVE  Running /\ (Proceed \/ Finish)
<1>1. call # NoCall
  <2>1. call.event # "None"
    BY Zenon DEF Handler, Apply, ApplyUnlock, ApplyReview, ApplyDecision, ApplyLock, Calling
  <2>2. QED BY <2>1 DEF NoCall
<1>2. QED BY <1>1, InvIsSound, ApplyOutcome DEF Handler

\* A signature is executed only for a gesture that began when the approval
\* page was on the display, and that page is still the one in the mailbox.
THEOREM ApprovalTheorem == Spec => ApprovalIsDeliberate
<1>1. DemoInv /\ [Next]_vars =>
          [effect' # effect /\ effect'.tag = "ExecuteOperation" =>
              /\ display.screen = "Review" /\ display.text[1] = "APPROVE"
              /\ origin = display]_vars
  <2> SUFFICES ASSUME DemoInv, [Next]_vars, effect' # effect,
                      effect'.tag = "ExecuteOperation"
               PROVE  /\ display.screen = "Review" /\ display.text[1] = "APPROVE"
                      /\ origin = display
    OBVIOUS
  <2>1. Handler
    BY QuietSteps
  <2>2. Calling("OperationConfirmed")
    BY <2>1, HandlerRuns DEF Proceed, Finish
  <2>3. QED BY <2>2 DEF DemoInv, ConfirmationShown
<1>2. QED BY <1>1, DemoInductive, PTL DEF Spec, ApprovalIsDeliberate

\* A session opens only when the two PINs of the setup agreed, and on the
\* unlock screen only after the digits entered equal them.
THEOREM PinTheorem == Spec => PinOpensSession
<1>1. DemoInv /\ [Next]_vars =>
          [~IsUnlocked /\ auth'.tag = "Unlocked" =>
              /\ demo.pin = demo.pin_confirmation
              /\ Shows("PinUnlock") => demo.pin_entry = demo.pin]_vars
  <2> SUFFICES ASSUME DemoInv, [Next]_vars, ~IsUnlocked, auth'.tag = "Unlocked"
               PROVE  /\ demo.pin = demo.pin_confirmation
                      /\ Shows("PinUnlock") => demo.pin_entry = demo.pin
    OBVIOUS
  <2>1. Handler
    BY QuietSteps DEF IsUnlocked, Locked
  <2>2. Running /\ demo.pin = demo.pin_confirmation
    BY <2>1, HandlerRuns, RunningFacts
  <2>3. ASSUME Shows("PinUnlock") PROVE call.show = "Dashboard"
    <3>1. "PinUnlock" \notin OpenScreens
      BY DEF OpenScreens, SessionScreens
    <3>2. call.event \in Calls
      BY <2>2 DEF Running
    <3>3. QED BY <2>2, <2>3, <3>1, <3>2, RunningRows, UnlockRow
              DEF Before, Calls, Calling, Shows
  <2>4. QED BY <2>2, <2>3 DEF DemoInv, PinKnown
<1>2. QED BY <1>1, DemoInductive, PTL DEF Spec, PinOpensSession

\* A press acts on the screen and entry the user saw when the gesture began,
\* unless the clock put the device to sleep or finished the signature meanwhile.
THEOREM GestureTheorem == Spec => GestureActsOnWhatWasShown
<1>1. DemoInv /\ [Next]_vars =>
          [phase = "poll" /\ phase' # phase /\ <<demo', call'>> # <<demo, call>> =>
              \/ Shows("Sleeping")
              \/ /\ origin.screen = demo.screen
                 /\ origin.text = Copy \/ Shows("ControlCenter")
              \/ origin.screen = "Signing" /\ Shows("Signed")]_vars
  <2> SUFFICES ASSUME DemoInv, [Next]_vars, phase = "poll", phase' # phase,
                      <<demo', call'>> # <<demo, call>>
               PROVE  \/ Shows("Sleeping")
                      \/ /\ origin.screen = demo.screen
                         /\ origin.text = Copy \/ Shows("ControlCenter")
                      \/ origin.screen = "Signing" /\ Shows("Signed")
    OBVIOUS
  <2>1. PICK active \in SUBSET Buttons : Poll(active)
    BY DEF Next, Loop, Tick, At, Publish, Handler, Wake, loopVars, vars
  <2>2. ~Ui(demo)
    BY <2>1 DEF Ui, Return, Poll, At
  <2>3. ~gesture.long_sent
    BY <2>1, <2>2, PollOutcome
  <2>4. OriginHolds
    BY <2>3 DEF DemoInv, GestureHasOrigin
  <2>5. QED BY <2>4 DEF OriginHolds, ShowsEntry
<1>2. QED BY <1>1, DemoInductive, PTL DEF Spec, GestureActsOnWhatWasShown

-----------------------------------------------------------------------------
(* The demo implements SigningGate *)

SessionOf(a) ==
    IF a.tag = "Unlocked"
    THEN [tag |-> "Open", host |-> a.host, wallet |-> a.wallet, trust |-> a.trust]
    ELSE [tag |-> "Closed"]
JobOf(f) ==
    IF f.tag = "Operation"
    THEN [tag |-> Phase[f.stage.tag], host |-> f.host, wallet |-> f.wallet,
          key |-> f.stage.tag # "PreparingReview"]
    ELSE [tag |-> "None"]
DemoJob(phase_of_job, key) ==
    [tag |-> phase_of_job, host |-> HOST, wallet |-> WALLET, key |-> key]

\* What the gate sees of the few states the demo keeps the reducer in.
LEMMA GateValues ==
    /\ GateSession = SessionOf(auth) /\ GateSession' = SessionOf(auth')
    /\ GateJob = JobOf(flow) /\ GateJob' = JobOf(flow')
    /\ SessionOf(DemoSession) = [tag |-> "Open", host |-> HOST, wallet |-> WALLET,
                                 trust |-> "Trusted"]
    /\ SessionOf(Locked(0)) = [tag |-> "Closed"]
    /\ \A a : a.tag # "Unlocked" => SessionOf(a) = [tag |-> "Closed"]
    /\ JobOf(Idle) = [tag |-> "None"]
    /\ JobOf(DemoOperation("None", [tag |-> "PreparingReview"])) = DemoJob("Submitted", FALSE)
    /\ JobOf(DemoReview("Displaying")) = DemoJob("Planned", TRUE)
    /\ JobOf(DemoReview("Reviewing")) = DemoJob("Presented", TRUE)
    /\ JobOf(DemoExecution) = DemoJob("Running", TRUE)
<1>1. /\ GateSession = SessionOf(auth) /\ GateSession' = SessionOf(auth')
      /\ GateJob = JobOf(flow) /\ GateJob' = JobOf(flow')
  BY DEF GateSession, SessionOf, GateJob, JobOf, IsUnlocked, IsOperation
<1>2. /\ SessionOf(DemoSession) = [tag |-> "Open", host |-> HOST, wallet |-> WALLET,
                                   trust |-> "Trusted"]
      /\ SessionOf(Locked(0)) = [tag |-> "Closed"]
      /\ \A a : a.tag # "Unlocked" => SessionOf(a) = [tag |-> "Closed"]
      /\ JobOf(Idle) = [tag |-> "None"]
  BY DEF SessionOf, DemoSession, Locked, JobOf, Idle
<1>3. /\ JobOf(DemoOperation("None", [tag |-> "PreparingReview"])) = DemoJob("Submitted", FALSE)
      /\ JobOf(DemoReview("Displaying")) = DemoJob("Planned", TRUE)
      /\ JobOf(DemoReview("Reviewing")) = DemoJob("Presented", TRUE)
      /\ JobOf(DemoExecution) = DemoJob("Running", TRUE)
  BY DEF JobOf, DemoJob, DemoReview, DemoExecution, DemoOperation, Phase
<1>4. QED BY <1>1, <1>2, <1>3

GateStep == [Gate!Next]_(Gate!gateVars)

\* The sessions of the demo.
LEMMA SessionSteps ==
    /\ SessionOf(auth') = SessionOf(auth) /\ JobOf(flow') = JobOf(flow) => GateStep
    /\ auth.tag # "Unlocked" /\ auth' = DemoSession /\ flow' = flow => GateStep
    /\ auth' = Locked(0) /\ flow' = Idle => GateStep
<1>1. ASSUME SessionOf(auth') = SessionOf(auth), JobOf(flow') = JobOf(flow)
      PROVE  GateStep
  BY <1>1, GateValues DEF GateStep, Gate!gateVars
<1>2. ASSUME auth.tag # "Unlocked", auth' = DemoSession, flow' = flow
      PROVE  GateStep
  <2>1. Gate!OpenSession(HOST, WALLET, "Trusted")
    BY <1>2, GateValues DEF Gate!OpenSession, Gate!Closed
  <2>2. HOST \in Hosts /\ WALLET \in Wallets /\ "Trusted" \in Gate!Trusts
    BY DemoIsTyped DEF Gate!Trusts
  <2>3. QED BY <2>1, <2>2 DEF GateStep, Gate!Next
<1>3. ASSUME auth' = Locked(0), flow' = Idle PROVE GateStep
  <2>1. Gate!CloseSession
    BY <1>3, GateValues DEF Gate!CloseSession, Gate!Closed, Gate!NoJob
  <2>2. QED BY <2>1 DEF GateStep, Gate!Next
<1>4. QED BY <1>1, <1>2, <1>3

\* The operations of the demo.
LEMMA JobSteps ==
    ASSUME auth = DemoSession, auth' = auth
    PROVE  /\ flow = Idle /\ flow' = DemoOperation("None", [tag |-> "PreparingReview"])
                => GateStep
           /\ flow = DemoOperation("None", [tag |-> "PreparingReview"])
                /\ flow' = DemoReview("Displaying")
                => GateStep
           /\ flow = DemoReview("Displaying") /\ flow' = DemoReview("Reviewing")
                => GateStep
           /\ flow = DemoReview("Reviewing") /\ flow' = DemoExecution => GateStep
           /\ flow' = Idle => GateStep
<1>1. /\ GateSession = [tag |-> "Open", host |-> HOST, wallet |-> WALLET,
                        trust |-> "Trusted"]
      /\ GateSession' = GateSession
  BY GateValues
<1>2. ASSUME flow = Idle, flow' = DemoOperation("None", [tag |-> "PreparingReview"])
      PROVE  GateStep
  <2>1. Gate!Submit
    BY <1>1, <1>2, GateValues DEF Gate!Submit, Gate!Closed, Gate!NoJob, DemoJob
  <2>2. QED BY <2>1 DEF GateStep, Gate!Next
<1>3. ASSUME flow = DemoOperation("None", [tag |-> "PreparingReview"]),
             flow' = DemoReview("Displaying")
      PROVE  GateStep
  <2>1. Gate!Become("Planned", TRUE) /\ GateJob.tag = "Submitted"
    BY <1>1, <1>3, GateValues DEF Gate!Become, DemoJob
  <2>2. Gate!Plan
    BY <2>1 DEF Gate!Plan
  <2>3. QED BY <2>2 DEF GateStep, Gate!Next
<1>4. ASSUME flow = DemoReview("Displaying"), flow' = DemoReview("Reviewing")
      PROVE  GateStep
  <2>1. Gate!Become("Presented", TRUE) /\ GateJob.tag = "Planned" /\ GateJob.key = TRUE
    BY <1>1, <1>4, GateValues DEF Gate!Become, DemoJob
  <2>2. Gate!Present
    BY <2>1 DEF Gate!Present
  <2>3. QED BY <2>2 DEF GateStep, Gate!Next
<1>5. ASSUME flow = DemoReview("Reviewing"), flow' = DemoExecution
      PROVE  GateStep
  <2>1. GateJob = DemoJob("Presented", TRUE) /\ GateJob' = DemoJob("Running", TRUE)
    BY <1>5, GateValues, Zenon
  <2>2. Gate!Become("Running", TRUE) /\ GateJob.tag = "Presented" /\ GateJob.key = TRUE
    BY <1>1, <2>1 DEF Gate!Become, DemoJob
  <2>3. Gate!Consent
    BY <2>2 DEF Gate!Consent
  <2>4. QED BY <2>3 DEF GateStep, Gate!Next
<1>6. ASSUME flow' = Idle PROVE GateStep
  <2>1. GateJob' = [tag |-> "None"]
    BY <1>6, GateValues, Zenon
  <2>2. Gate!EndJob
    BY <1>1, <2>1 DEF Gate!EndJob, Gate!NoJob
  <2>3. QED BY <2>2 DEF GateStep, Gate!Next
<1>7. QED BY <1>2, <1>3, <1>4, <1>5, <1>6

LEMMA UnlockIsGateStep ==
    ASSUME Running, ApplyUnlock
    PROVE  GateStep
<1>1. CASE Calling("UnlockRequested")
  <2>1. auth = Locked(0) /\ flow = Idle
    BY <1>1, RunningRows, UnlockRow
  <2>2. UnlockRequested(AUTH, HOST)
    BY <1>1, <2>1 DEF ApplyUnlock, Calling, IsUnlocked, Locked
  <2>3. auth'.tag = "ResolvingHost" /\ flow' = flow
    BY <2>1, <2>2, RunningFacts, UnlockRequestedHere
  <2>4. QED BY <2>1, <2>3, GateValues, SessionSteps
<1>2. CASE Calling("HostTrustResolved")
  <2>1. auth = [tag |-> "ResolvingHost", id |-> AUTH, host |-> HOST, failed |-> 0]
    BY <1>2, RunningRows, UnlockRow
  <2>2. HostTrustResolved(AUTH, "Trusted")
    BY <1>2 DEF ApplyUnlock, Calling
  <2>3. auth' = DemoAttempt("VerifyingPin") /\ flow' = flow
    BY <2>1, <2>2, HostTrustResolvedHere
  <2>4. auth.tag # "Unlocked" /\ auth'.tag # "Unlocked"
    BY <2>1, <2>3 DEF DemoAttempt
  <2>5. QED BY <2>3, <2>4, GateValues, SessionSteps
<1>3. CASE Calling("PinVerified")
  <2>1. auth = DemoAttempt("VerifyingPin")
    BY <1>3, RunningRows, UnlockRow
  <2>2. PinVerified(AUTH)
    BY <1>3 DEF ApplyUnlock, Calling
  <2>3. auth' = DemoAttempt("OpeningSession") /\ flow' = flow
    BY <2>1, <2>2, RunningFacts, PinVerifiedHere
  <2>4. auth.tag # "Unlocked" /\ auth'.tag # "Unlocked"
    BY <2>1, <2>3 DEF DemoAttempt
  <2>5. QED BY <2>3, <2>4, GateValues, SessionSteps
<1>4. CASE Calling("SessionOpened")
  <2>1. auth = DemoAttempt("OpeningSession")
    BY <1>4, RunningRows, UnlockRow
  <2>2. SessionOpened(AUTH, SESSION, WALLET)
    BY <1>4 DEF ApplyUnlock, Calling
  <2>3. auth' = DemoSession /\ flow' = flow
    BY <2>1, <2>2, SessionOpenedHere
  <2>4. auth.tag # "Unlocked"
    BY <2>1 DEF DemoAttempt
  <2>5. QED BY <2>3, <2>4, SessionSteps
<1>5. QED BY <1>1, <1>2, <1>3, <1>4 DEF ApplyUnlock

LEMMA OperationIsGateStep ==
    ASSUME Running, ApplyReview \/ ApplyDecision \/ ApplyLock
    PROVE  GateStep
<1>1. CASE Calling("OperationRequested")
  <2>1. auth = DemoSession /\ flow = Idle
    BY <1>1, RunningRows DEF Before
  <2>2. OperationRequested(OPERATION, HOST)
    BY <1>1 DEF ApplyReview, ApplyDecision, ApplyLock, Calling
  <2>3. QED BY <2>1, <2>2, OperationRequestedHere, JobSteps
<1>2. CASE Calling("ReviewPrepared")
  <2>1. auth = DemoSession /\ flow = DemoOperation("None", [tag |-> "PreparingReview"])
    BY <1>2, RunningRows DEF Before
  <2>2. ReviewPrepared(OPERATION, DemoPlan)
    BY <1>2 DEF ApplyReview, ApplyDecision, ApplyLock, Calling
  <2>3. QED BY <2>1, <2>2, RunningFacts, ReviewPreparedHere, JobSteps
<1>3. CASE Calling("ReviewDisplayed")
  <2>1. auth = DemoSession /\ flow = DemoReview("Displaying")
    BY <1>3, RunningRows DEF Before
  <2>2. ReviewDisplayed(OPERATION)
    BY <1>3 DEF ApplyReview, ApplyDecision, ApplyLock, Calling
  <2>3. QED BY <2>1, <2>2, ReviewDisplayedHere, JobSteps
<1>4. CASE Calling("OperationConfirmed")
  <2>1. auth = DemoSession /\ flow = DemoReview("Reviewing")
    BY <1>4, RunningRows DEF Before
  <2>2. OperationConfirmed(OPERATION)
    BY <1>4 DEF ApplyReview, ApplyDecision, ApplyLock, Calling
  <2>3. QED BY <2>1, <2>2, OperationConfirmedHere, JobSteps
<1>5. CASE Calling("OperationRejected")
  <2>1. auth = DemoSession /\ flow = DemoReview("Reviewing")
    BY <1>5, RunningRows DEF Before
  <2>2. OperationRejected(OPERATION)
    BY <1>5 DEF ApplyReview, ApplyDecision, ApplyLock, Calling
  <2>3. QED BY <2>1, <2>2, OperationRejectedHere, JobSteps
<1>6. CASE Calling("OperationCompleted")
  <2>1. auth = DemoSession /\ flow = DemoExecution
    BY <1>6, RunningRows DEF Before
  <2>2. OperationCompleted(OPERATION)
    BY <1>6 DEF ApplyReview, ApplyDecision, ApplyLock, Calling
  <2>3. QED BY <2>1, <2>2, OperationCompletedHere, JobSteps
<1>7. CASE Calling("LockRequested")
  <2>1. auth = DemoSession
    BY <1>7, RunningRows DEF Before
  <2>2. LockRequested
    BY <1>7 DEF ApplyReview, ApplyDecision, ApplyLock, Calling
  <2>3. QED BY <2>1, <2>2, LockRequestedHere, SessionSteps
<1>8. QED
  BY <1>1, <1>2, <1>3, <1>4, <1>5, <1>6, <1>7, Zenon
     DEF ApplyReview, ApplyDecision, ApplyLock

\* The demo refines SigningGate: whatever the buttons and the clock do, every
\* step of the loop and of its handlers is one the gate allows, so a key is used
\* only for a job that was presented and agreed to in the session it belongs to.
THEOREM DemoIsGated == Spec => ImplementsGate
<1>1. Init => Gate!Init
  BY GateValues
     DEF Init, DemoInit, NewWallet, Unavailable, Gate!Init, Gate!Closed, Gate!NoJob
<1>2. DemoInv /\ [Next]_vars => [Gate!Next]_(Gate!gateVars)
  <2> SUFFICES ASSUME DemoInv, [Next]_vars PROVE GateStep
    BY DEF GateStep
  <2>1. CASE Handler
    BY <2>1, HandlerRuns, UnlockIsGateStep, OperationIsGateStep DEF Handler, Apply
  <2>2. CASE ~Handler
    <3>1. \/ UNCHANGED <<auth, flow>>
          \/ ~IsUnlocked /\ auth' = Locked(0) /\ flow = Idle /\ flow' = Idle
      BY <2>2, QuietSteps
    <3>2. QED BY <3>1, SessionSteps
  <2>3. QED BY <2>1, <2>2
<1>3. QED BY <1>1, <1>2, DemoInductive, PTL DEF Spec, ImplementsGate, Gate!Spec
=============================================================================
