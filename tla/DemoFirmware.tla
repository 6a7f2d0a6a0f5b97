---------------------------- MODULE DemoFirmware ----------------------------
(***************************************************************************)
(* The main loop of demos/browser-wallet/src/main.rs: read the clock, poll *)
(* the two buttons and turn their levels into gestures, send a frame when  *)
(* the demo asked for one, and stop the core in WFI while asleep.          *)
(*                                                                         *)
(* The buttons and the clock may change between any two reads.  `origin'   *)
(* is an observer: the frame that was on the display when the present      *)
(* gesture began, or is there now while no button is down.                 *)
(***************************************************************************)
EXTENDS WalletDemo

CONSTANTS
    CONTROL_CENTER_HOLD_MS,  \* how long both buttons are held (1500)
    Elapsed                  \* clock advances seen by one pass of the loop

ASSUME LoopAssumption ==
    /\ CONTROL_CENTER_HOLD_MS \in Nat \ {0}
    /\ Elapsed \subseteq Nat /\ 0 \in Elapsed

VARIABLES
    phase,     \* what the loop does next
    gesture,   \* gesture_mask, the time since gesture_started and
               \* long_gesture_sent
    display,   \* the last frame in the mailbox
    origin

loopVars == <<phase, gesture, display, origin>>
vars == <<lifecycle, auth, flow, policy, effect, demo, call,
          phase, gesture, display, origin>>

Buttons == {"L", "R"}
NoGesture == [mask |-> {}, held |-> 0, long_sent |-> FALSE]

Frames == [sequence: 0..SequenceSpan - 1, screen: ScreenState,
           session_unlocked: BOOLEAN, setup_complete: BOOLEAN,
           wake_count: 0..MaxWakeCount, text: Labels \X Nat \X Nat]

\* last_frame_sequence starts at u8::MAX, which no first frame carries.
Init ==
    /\ DemoInit
    /\ phase = "tick"
    /\ gesture = NoGesture
    /\ display = [Frame EXCEPT !.sequence = SequenceSpan - 1]
    /\ origin = display

\* The loop is at this point and no handler is running.
At(p) == phase = p /\ call = NoCall

Tick(elapsed) ==
    /\ At("tick")
    /\ \/ elapsed = 0 /\ Ui(demo)
       \/ elapsed # 0 /\ DemoTick(elapsed)
    /\ gesture' = IF gesture.mask = {} THEN gesture
                  ELSE [gesture EXCEPT !.held =
                           Smaller(@ + elapsed, CONTROL_CENTER_HOLD_MS)]
    /\ phase' = "poll"
    /\ UNCHANGED <<display, origin>>

\* A gesture is every button that was down since it began.
MaskWith(active) == gesture.mask \cup active

ButtonsDown(active) ==
    LET mask == MaskWith(active)
        held == IF gesture.mask = {} THEN 0 ELSE gesture.held
        long == /\ mask = Buttons /\ ~gesture.long_sent
                /\ held >= CONTROL_CENTER_HOLD_MS
    IN /\ gesture' = [mask |-> mask, held |-> held,
                      long_sent |-> gesture.long_sent \/ long]
       /\ IF long THEN Press("BothHeld") ELSE Ui(demo)

\* Mutant: the release of a held gesture counts as a press as well.
ReleasedAs_Again(mask) ==
    IF mask = {} THEN {}
    ELSE IF mask = {"L"} THEN {"Left"}
    ELSE IF mask = {"R"} THEN {"Right"} ELSE {"Both"}
\* The press that the release of these buttons stands for, if any.
ReleasedAs(mask) ==
    IF mask = {} \/ gesture.long_sent THEN {}
    ELSE IF mask = {"L"} THEN {"Left"}
    ELSE IF mask = {"R"} THEN {"Right"} ELSE {"Both"}

ButtonsUp ==
    /\ gesture' = NoGesture
    /\ \/ \E b \in ReleasedAs(gesture.mask) : Press(b)
       \/ ReleasedAs(gesture.mask) = {} /\ Ui(demo)

Poll(active) ==
    /\ At("poll")
    /\ \/ active # {} /\ ButtonsDown(active)
       \/ active = {} /\ ButtonsUp
    /\ phase' = "publish"
    /\ UNCHANGED <<display, origin>>

\* mailbox_send when the frame counter moved, then WFI if the display is off
\* and no button is down.
Publish ==
    /\ At("publish")
    /\ display' = IF demo.sequence # display.sequence THEN Frame ELSE display
    /\ phase' = IF Shows("Sleeping") /\ gesture.mask = {} THEN "wfi" ELSE "tick"
    /\ origin' = IF gesture.mask = {} THEN display' ELSE origin
    /\ UNCHANGED <<demoVars, gesture>>

\* An edge on a button ends WFI.
Wake ==
    /\ phase = "wfi"
    /\ phase' = "tick"
    /\ UNCHANGED <<demoVars, gesture, display, origin>>

\* A step of the handler that tick or press started.
Handler == Apply /\ UNCHANGED loopVars

Loop == \/ \E e \in Elapsed : Tick(e)
        \/ \E active \in SUBSET Buttons : Poll(active)
        \/ Publish
        \/ Handler

Next == Loop \/ Wake

Spec == Init /\ [][Next]_vars

\* The clock advances while the loop runs, and the loop never stops outside
\* WFI.
FairSpec ==
    /\ Spec
    /\ WF_vars(Loop)
    /\ SF_vars(\E e \in Elapsed \ {0} : Tick(e))

-----------------------------------------------------------------------------
(* Properties *)

DemoTypeOK ==
    /\ lifecycle \in Lifecycle /\ auth \in AuthState /\ flow \in FlowState
    /\ policy \in SecurityPolicy /\ effect \in Effect
    /\ demo \in WalletDemoFields
    /\ call \in [event: Calls, show: ScreenState] \cup {NoCall}
    /\ phase \in {"tick", "poll", "publish", "wfi"}
    /\ gesture \in [mask: SUBSET Buttons, held: 0..CONTROL_CENTER_HOLD_MS,
                    long_sent: BOOLEAN]
    /\ {display, origin} \subseteq Frames

SessionScreens ==
    {"SetupComplete", "Dashboard", "BitcoinApp", "Settings",
     "SecuritySettings", "DisplaySettings", "PowerSettings", "About",
     "ControlCenter", "Review", "Signing", "Signed", "Rejected"}

\* Between two handlers the screen and the reducer tell the same story: what
\* belongs to a session is shown only while it is open, an open session never
\* hides behind a lock, setup or sleep screen, the review and signing screens
\* mirror the stage of the operation, no operation survives any other screen,
\* and the fail-closed screen is never needed.
ScreenMatchesWallet ==
    call = NoCall =>
        /\ ~Shows("Error")
        /\ demo.screen \in SessionScreens => IsUnlocked
        /\ IsUnlocked => demo.screen \in SessionScreens \cup {"Information"}
        /\ Shows("Review") <=> IsOperation /\ flow.stage.tag = "Reviewing"
        /\ Shows("Signing") <=> IsOperation /\ flow.stage.tag = "Executing"
        /\ demo.screen \notin {"Review", "Signing"} => flow = Idle

\* A signature is approved only by a gesture that began when the approval page
\* of the review was already on the display and is still there: neither
\* paging, nor a gesture begun before the review, nor the wake-up from an
\* automatic sleep in the middle of it can approve.
ApprovalIsDeliberate ==
    [][effect' # effect /\ effect'.tag = "ExecuteOperation" =>
           /\ display.screen = "Review" /\ display.text[1] = "APPROVE"
           /\ origin = display]_vars

\* A gesture acts on the entry the user saw when it began.  The clock may
\* intervene in two ways only: the device fell asleep and the gesture merely
\* wakes it, or the signature it was waiting for is ready.  (The text of the
\* control center is left out: DisplayIsCurrent shows it can be stale.)
GestureActsOnWhatWasShown ==
    [][phase = "poll" /\ phase' # phase /\ <<demo', call'>> # <<demo, call>> =>
           \/ Shows("Sleeping")
           \/ /\ origin.screen = demo.screen
              /\ origin.text = Copy \/ Shows("ControlCenter")
           \/ origin.screen = "Signing" /\ Shows("Signed")]_vars

\* A session opens only with the PIN that was typed twice during setup, however
\* many mismatches, wrong entries and sleeps came between.
PinOpensSession ==
    [][~IsUnlocked /\ auth'.tag = "Unlocked" =>
           /\ demo.pin = demo.pin_confirmation
           /\ Shows("PinUnlock") => demo.pin_entry = demo.pin]_vars

\* The signing screen, on which the buttons do nothing, is always left.
SigningEnds == Shows("Signing") ~> ~Shows("Signing")

\* A device whose buttons are left alone, released or stuck, does not stay
\* unlocked.
IdleDeviceLocks ==
    \A m \in SUBSET Buttons : <>[](gesture.mask = m) => []<>~IsUnlocked

\* After each pass of the loop the display shows the present frame: "The
\* browser decodes this frame but does not invent device state or review copy"
\* (demos/browser-wallet/README.md).
DisplayIsCurrent ==
    phase \in {"tick", "wfi"} /\ call = NoCall =>
        [display EXCEPT !.sequence = 0] = [Frame EXCEPT !.sequence = 0]

-----------------------------------------------------------------------------
(* What the invariants need to be inductive *)

SetupScreens ==
    {"Welcome", "SetupChoice", "PinCreate", "PinConfirm", "PinMismatch",
     "RecoveryIntro", "RecoveryWord", "RecoveryCheck", "RecoveryCheckFailed",
     "Information"}
LockScreens == {"Locked", "PinUnlock", "PinWrong", "Sleeping"}
OpenScreens == SessionScreens \cup {"Information"}

\* The only values the demo's fixed ids let the reducer's state take.
DemoSession == [tag |-> "Unlocked", session |-> SESSION, host |-> HOST,
                wallet |-> WALLET, trust |-> "Trusted"]
DemoAttempt(stage) == [tag |-> stage, id |-> AUTH, host |-> HOST,
                       trust |-> "Trusted", failed |-> 0]
DemoOperation(kind, stage) ==
    [tag |-> "Operation", id |-> OPERATION, host |-> HOST, wallet |-> WALLET,
     kind |-> kind, stage |-> stage]
DemoReview(stage) ==
    DemoOperation("SignTransaction", [tag |-> stage, plan |-> EnforcedPlan(DemoPlan)])
DemoExecution == DemoOperation("SignTransaction", [tag |-> "Executing"])

\* The operation a screen stands for.
FlowOf(screen) == IF screen = "Review" THEN DemoReview("Reviewing")
                  ELSE IF screen = "Signing" THEN DemoExecution ELSE Idle

\* Until the setup is complete the reducer is not fed anything.
SetupFirst ==
    /\ policy = Strict
    /\ ~demo.setup_complete =>
          /\ lifecycle = Empty /\ auth = Unavailable /\ flow = Idle
          /\ demo.screen \in SetupScreens /\ call = NoCall
    /\ demo.setup_complete => lifecycle = Provisioned(ProvisionedMetadata)

\* A handler that still has `event' to apply was started on one of `screens',
\* and finds the reducer with this authentication and flow.
Before(event, screens, shows, a, f) ==
    /\ Calling(event) /\ demo.screen \in screens /\ call.show \in shows
    /\ auth = a /\ flow = f

\* The unlock is part of the setup, or follows the PIN.
BeforeUnlock(event, a) ==
    \/ Before(event, {"RecoveryCheck"}, {"SetupComplete"}, a, Idle)
    \/ Before(event, {"PinUnlock"}, {"Dashboard"}, a, Idle)

WalletFollowsScreen ==
    demo.setup_complete =>
      \/ Before("None", LockScreens, {"None"}, Locked(0), Idle)
      \/ Before("None", OpenScreens, {"None"}, DemoSession, FlowOf(demo.screen))
      \/ BeforeUnlock("UnlockRequested", Locked(0))
      \/ BeforeUnlock("HostTrustResolved", [tag |-> "ResolvingHost", id |-> AUTH,
                                            host |-> HOST, failed |-> 0])
      \/ BeforeUnlock("PinVerified", DemoAttempt("VerifyingPin"))
      \/ BeforeUnlock("SessionOpened", DemoAttempt("OpeningSession"))
      \/ Before("OperationRequested", {"BitcoinApp"}, {"Review"}, DemoSession, Idle)
      \/ Before("ReviewPrepared", {"BitcoinApp"}, {"Review"}, DemoSession,
                DemoOperation("None", [tag |-> "PreparingReview"]))
      \/ Before("ReviewDisplayed", {"BitcoinApp"}, {"Review"}, DemoSession,
                DemoReview("Displaying"))
      \/ Before("OperationConfirmed", {"Review"}, {"Signing"}, DemoSession,
                DemoReview("Reviewing"))
      \/ Before("OperationRejected", {"Review"}, {"Rejected"}, DemoSession,
                DemoReview("Reviewing"))
      \/ Before("OperationCompleted", {"Signing"}, {"Signed"}, DemoSession,
                DemoExecution)
      \/ Before("LockRequested", OpenScreens, {"Locked", "Sleeping"}, DemoSession,
                FlowOf(demo.screen))

\* From the second entry on the two PINs agree, and the handler that will show
\* the dashboard has compared the entry with them.
PinKnown ==
    /\ demo.setup_complete
         \/ demo.screen \in {"RecoveryIntro", "RecoveryWord", "RecoveryCheck",
                             "RecoveryCheckFailed"}
       => demo.pin = demo.pin_confirmation
    /\ call.show = "Dashboard" => demo.pin_entry = demo.pin

\* Each menu has the entry that is selected.
PageExists ==
    /\ demo.screen \in {"SecuritySettings", "PowerSettings"} => demo.page \in 0..2
    /\ demo.screen \in {"DisplaySettings", "ControlCenter"} => demo.page \in 0..3

\* The frame counter moved n times since the last frame was sent.
Ahead(n) == demo.sequence = (display.sequence + n) % SequenceSpan

\* The frame shows what a press acts on.
ShowsEntry(frame) ==
    frame.screen = demo.screen /\ (frame.text = Copy \/ Shows("ControlCenter"))

\* One pass of the loop moves the counter twice at most, so equal counters mean
\* that nothing changed; a running handler has not moved it yet.
FrameCounted ==
    /\ phase \in {"tick", "wfi"} =>
          /\ call = NoCall /\ ShowsEntry(display)
          /\ Ahead(0) \/ (Ahead(1) /\ ~demo.setup_complete)
    /\ phase = "poll" => Ahead(0) \/ (Ahead(1) /\ call = NoCall)
    /\ phase = "publish" => Ahead(0) \/ Ahead(1) \/ (Ahead(2) /\ call = NoCall)
    /\ call = NoCall /\ Ahead(0) => ShowsEntry(display)

\* The clock starts two handlers only, and a gesture starts one when it has
\* ended or was long enough.
CallHasCause ==
    call # NoCall =>
        /\ phase = "poll" => \/ Calling("OperationCompleted")
                             \/ Calling("LockRequested") /\ call.show = "Sleeping"
        /\ phase = "publish" => gesture.mask = {} \/ gesture.long_sent

\* What the user saw when the gesture began is what the gesture will act on,
\* and it was not sent again meanwhile, or the clock took the screen away.
OriginHolds ==
    \/ Shows("Sleeping")
    \/ origin.screen = "Signing" /\ Shows("Signed")
    \/ /\ ShowsEntry(origin)
       /\ (origin = display /\ Ahead(0)) \/ ~demo.setup_complete

GestureHasOrigin ==
    ~gesture.long_sent /\ (phase = "publish" => gesture.mask # {}) => OriginHolds

\* The confirmation was started on the approval page.
ConfirmationShown ==
    Calling("OperationConfirmed") =>
        /\ display.screen = "Review" /\ display.text[1] = "APPROVE"
        /\ origin = display

DemoInv ==
    /\ DemoTypeOK
    /\ SetupFirst /\ WalletFollowsScreen /\ PinKnown /\ PageExists
    /\ FrameCounted /\ CallHasCause /\ GestureHasOrigin /\ ConfirmationShown

-----------------------------------------------------------------------------
(* Refinement *)

\* The demo's only plan uses a key.
GateJob ==
    IF IsOperation
    THEN [tag |-> Phase[flow.stage.tag], host |-> flow.host,
          wallet |-> flow.wallet, key |-> flow.stage.tag # "PreparingReview"]
    ELSE [tag |-> "None"]

Gate == INSTANCE SigningGate WITH session <- GateSession, job <- GateJob

\* The demo, its screens and its loop included, keeps what SigningGate promises:
\* one session, jobs of that session only, and no key used before the user was
\* asked and agreed.
ImplementsGate == Gate!Spec
=============================================================================
