----------------------------- MODULE WalletDemo -----------------------------
(***************************************************************************)
(* The two-button wallet of demos/browser-wallet/src/lib.rs: a screen      *)
(* machine in front of the wallet-core reducer.  `demo' holds the fields   *)
(* of WalletDemo other than the reducer's state and its last effect.       *)
(*                                                                         *)
(* A handler runs to its end before anything else happens, but it may feed *)
(* the reducer several events.  `call' is the part of the running handler  *)
(* that is still ahead: the event it applies next and the screen it shows  *)
(* when the reducer agreed.                                                *)
(*                                                                         *)
(* security_index, display_index, power_index, review_index and            *)
(* control_index are set on entering their screen and read only on it, so  *)
(* one field, `page', stands for the one on display; it is 0 elsewhere.    *)
(***************************************************************************)
EXTENDS Auth, Operation

CONSTANTS
    PIN_DIGITS,      \* length of the PIN (4 in the code)
    DigitBase,       \* digits to choose from (10)
    RecoveryWords,   \* words of the recovery phrase (24)
    AUTO_SLEEP_MS,   \* idle time before an unlocked device sleeps (30000)
    SigningTime,     \* ticks the signing delay takes (180)
    MaxTicks,        \* largest value of the u16 tick counter (65535)
    SequenceSpan,    \* values of the u8 frame counter (256)
    MaxWakeCount     \* where the u8 wake counter saturates (255)

ASSUME DemoAssumption ==
    /\ {PIN_DIGITS, DigitBase, RecoveryWords, AUTO_SLEEP_MS, SigningTime,
        MaxTicks, SequenceSpan, MaxWakeCount} \subseteq Nat \ {0}
    /\ SigningTime <= MaxTicks
    /\ SequenceSpan > 2   \* one pass of the loop bumps the counter twice

VARIABLES demo, call

demoVars == <<lifecycle, auth, flow, policy, effect, demo, call>>

HOST == 1
AUTH == 1
SESSION == 1
WALLET == 1
OPERATION == 1

Button == {"Left", "Right", "Both", "BothHeld"}
ScreenState ==
    {"Welcome", "SetupChoice", "PinCreate", "PinConfirm", "PinMismatch",
     "RecoveryIntro", "RecoveryWord", "RecoveryCheck", "RecoveryCheckFailed",
     "SetupComplete", "Dashboard", "BitcoinApp", "Settings",
     "SecuritySettings", "DisplaySettings", "PowerSettings", "About",
     "Information", "ControlCenter", "Locked", "PinUnlock", "PinWrong",
     "Review", "Signing", "Signed", "Rejected", "Sleeping", "Error"}

Pin == [1..PIN_DIGITS -> 0..DigitBase - 1]
NoPin == [i \in 1..PIN_DIGITS |-> 0]

Calls == {"UnlockRequested", "HostTrustResolved", "PinVerified",
          "SessionOpened", "OperationRequested", "ReviewPrepared",
          "ReviewDisplayed", "OperationConfirmed", "OperationRejected",
          "OperationCompleted", "LockRequested"}
NoCall == [event |-> "None", show |-> "None"]

WalletDemoFields ==
    [screen: ScreenState, sequence: 0..SequenceSpan - 1,
     signing_ticks: 0..MaxTicks, inactivity_ms: 0..AUTO_SLEEP_MS,
     setup_choice: 0..1, pin: Pin, pin_confirmation: Pin, pin_entry: Pin,
     pin_position: 0..PIN_DIGITS - 1, selected_digit: 0..DigitBase - 1,
     recovery_index: 0..RecoveryWords - 1, recovery_check_step: 0..1,
     recovery_check_choice: 0..3, home_index: 0..2, settings_index: 0..3,
     page: 0..4, brightness: 0..2, wake_count: 0..MaxWakeCount,
     setup_complete: BOOLEAN]

Strict == [pin_exhaustion |-> "Wipe", disconnect |-> "Lock",
           signing_hosts |-> "AnySessionHost", blind_signing |-> "Deny"]

\* WalletDemo::new over blank_state.
DemoInit ==
    /\ NewWallet
    /\ policy = Strict
    /\ call = NoCall
    /\ demo = [screen |-> "Welcome", sequence |-> 0, signing_ticks |-> 0,
               inactivity_ms |-> 0, setup_choice |-> 0, pin |-> NoPin,
               pin_confirmation |-> NoPin, pin_entry |-> NoPin,
               pin_position |-> 0, selected_digit |-> 0, recovery_index |-> 0,
               recovery_check_step |-> 0, recovery_check_choice |-> 0,
               home_index |-> 0, settings_index |-> 0, page |-> 0,
               brightness |-> 1, wake_count |-> 0, setup_complete |-> FALSE]

-----------------------------------------------------------------------------
(* Helpers of the handlers *)

Smaller(a, b) == IF a < b THEN a ELSE b

\* bump_frame: wrapping_add(1)
BumpFrame(d) == [d EXCEPT !.sequence = (@ + 1) % SequenceSpan]

\* set_screen: only a change of screen asks for a new frame.
SetScreen(d, screen) ==
    IF d.screen = screen THEN d
    ELSE BumpFrame([d EXCEPT !.screen = screen, !.page = 0])

Previous(value, count) == IF value = 0 THEN count - 1 ELSE value - 1
Following(value, count) == (value + 1) % count

\* Every press on a waking device restarts the idle clock.
Touched == [demo EXCEPT !.inactivity_ms = 0]

\* The handler ends here.
Return(d) ==
    /\ demo' = d
    /\ call' = NoCall

\* The handler changes the screens only.
Ui(d) ==
    /\ Return(d)
    /\ UNCHANGED <<wallet, effect>>

\* The handler goes on to feed `event' to the reducer.
Then(d, event, show) ==
    /\ demo' = d
    /\ call' = [event |-> event, show |-> show]
    /\ UNCHANGED <<wallet, effect>>

Shows(screen) == demo.screen = screen

\* Left and right walk through the entries of a menu, around its ends.
Browse(b, index, count) ==
    \/ b = "Left" /\ Ui(BumpFrame([Touched EXCEPT ![index] = Previous(@, count)]))
    \/ b = "Right" /\ Ui(BumpFrame([Touched EXCEPT ![index] = Following(@, count)]))
    \/ b = "BothHeld" /\ Ui(Touched)

\* Entering a screen with its page index set.
Enter(screen, page) == Ui([SetScreen(Touched, screen) EXCEPT !.page = page])
Go(screen) == Ui(SetScreen(Touched, screen))

\* Mutant: sleeping leaves the session open.
EnterSleep_KeepsSession(d) == Ui(SetScreen([d EXCEPT !.inactivity_ms = 0],
                                           "Sleeping"))
EnterSleep(d) ==
    IF IsUnlocked THEN Then(d, "LockRequested", "Sleeping")
    ELSE Ui(SetScreen([d EXCEPT !.inactivity_ms = 0], "Sleeping"))

-----------------------------------------------------------------------------
(* Onboarding *)

\* start_pin_creation
StartPinCreation ==
    Ui(SetScreen([Touched EXCEPT !.pin = NoPin, !.pin_confirmation = NoPin,
                                 !.pin_position = 0, !.selected_digit = 0],
                 "PinCreate"))

SetupChoiceInput(b) ==
    \/ b \in {"Left", "Right"}
       /\ Ui(BumpFrame([Touched EXCEPT !.setup_choice = 1 - @]))
    \/ b = "Both" /\ demo.setup_choice = 0 /\ StartPinCreation
    \/ b = "Both" /\ demo.setup_choice = 1 /\ Go("Information")
    \/ b = "BothHeld" /\ Ui(Touched)

\* Mutant: the cursor is not returned to the first digit.
WithDigit_NoReset(buffer) ==
    [Touched EXCEPT ![buffer] = [@ EXCEPT ![demo.pin_position + 1] =
                                            demo.selected_digit],
                    !.pin_position = @ + 1,
                    !.selected_digit = 0]
\* The selected digit written into one of the three PIN buffers, and the
\* cursor moved on; after the last digit it is back at the first.
WithDigit(buffer) ==
    [Touched EXCEPT ![buffer] = [@ EXCEPT ![demo.pin_position + 1] =
                                            demo.selected_digit],
                    !.pin_position = (@ + 1) % PIN_DIGITS,
                    !.selected_digit = 0]
IsLastDigit == demo.pin_position + 1 = PIN_DIGITS

\* edit_pin for the first and for the second entry of a new PIN, and the
\* part of unlock_pin_input that it shares with them.
DigitInput(b, buffer) ==
    \/ Browse(b, "selected_digit", DigitBase)
    \/ b = "Both" /\ ~IsLastDigit /\ Ui(BumpFrame(WithDigit(buffer)))

EditPin(b) ==
    \/ DigitInput(b, "pin")
    \/ b = "Both" /\ IsLastDigit /\ Ui(SetScreen(WithDigit("pin"), "PinConfirm"))

\* Mutant: only the last digit of the confirmation is compared.
ConfirmPin_LastDigit(b) ==
    \/ DigitInput(b, "pin_confirmation")
    \/ /\ b = "Both" /\ IsLastDigit
       /\ LET d == WithDigit("pin_confirmation")
          IN Ui(SetScreen(d, IF d.pin[PIN_DIGITS] = d.pin_confirmation[PIN_DIGITS]
                             THEN "RecoveryIntro" ELSE "PinMismatch"))
ConfirmPin(b) ==
    \/ DigitInput(b, "pin_confirmation")
    \/ /\ b = "Both" /\ IsLastDigit
       /\ LET d == WithDigit("pin_confirmation")
          IN Ui(SetScreen(d, IF d.pin = d.pin_confirmation
                             THEN "RecoveryIntro" ELSE "PinMismatch"))

RecoveryWordInput(b) ==
    \/ b = "Left"
       /\ Ui(BumpFrame([Touched EXCEPT !.recovery_index =
                                           IF @ = 0 THEN 0 ELSE @ - 1]))
    \/ b = "Right"
       /\ Ui(BumpFrame([Touched EXCEPT !.recovery_index =
                                           Smaller(@ + 1, RecoveryWords - 1)]))
    \/ /\ b = "Both" /\ demo.recovery_index = RecoveryWords - 1
       /\ Ui(SetScreen([Touched EXCEPT !.recovery_check_step = 0,
                                       !.recovery_check_choice = 0],
                       "RecoveryCheck"))
    \/ /\ b = "Both" => demo.recovery_index # RecoveryWords - 1
       /\ b \in {"Both", "BothHeld"}
       /\ Ui(Touched)

\* complete_setup: provisioned_state replaces the reducer's state, then the
\* session is opened.
ProvisionedMetadata == [origin |-> "Generated", backup |-> "Verified",
                        passphrase |-> "Disabled"]
CompleteSetup ==
    /\ lifecycle' = Provisioned(ProvisionedMetadata)
    /\ auth' = Locked(0)
    /\ flow' = Idle
    /\ policy' = Strict
    /\ demo' = [Touched EXCEPT !.setup_complete = TRUE]
    /\ call' = [event |-> "UnlockRequested", show |-> "SetupComplete"]
    /\ UNCHANGED effect

\* The right word is the third of the four on offer, twice.
VerifyRecoveryWord(b) ==
    \/ Browse(b, "recovery_check_choice", 4)
    \/ b = "Both" /\ demo.recovery_check_choice # 2 /\ Go("RecoveryCheckFailed")
    \/ /\ b = "Both" /\ demo.recovery_check_choice = 2
       /\ demo.recovery_check_step = 0
       /\ Ui(BumpFrame([Touched EXCEPT !.recovery_check_step = 1,
                                       !.recovery_check_choice = 0]))
    \/ /\ b = "Both" /\ demo.recovery_check_choice = 2
       /\ demo.recovery_check_step = 1
       /\ CompleteSetup

-----------------------------------------------------------------------------
(* Screens that only wait to be dismissed *)

Home == IF demo.setup_complete THEN "Dashboard" ELSE "SetupChoice"

\* A fresh PIN entry.
PinUnlockScreen ==
    SetScreen([Touched EXCEPT !.pin_entry = NoPin, !.pin_position = 0,
                              !.selected_digit = 0], "PinUnlock")

\* The buttons a notice answers to, and the demo it leaves behind.
DismissedBy ==
    [s \in ScreenState |->
        IF s \in {"About", "Information"} THEN {"Both", "Left"}
        ELSE IF s \in {"Signed", "Rejected"} THEN {"Left", "Right", "Both"}
        ELSE {"Both"}]

Notices == {"Welcome", "PinMismatch", "RecoveryIntro", "RecoveryCheckFailed",
            "SetupComplete", "About", "Information", "Locked", "PinWrong",
            "Signed", "Rejected", "Error"}

Dismiss ==
    \/ Shows("Welcome") /\ Go("SetupChoice")
    \/ Shows("PinMismatch") /\ StartPinCreation
    \/ /\ Shows("RecoveryIntro")
       /\ Ui(SetScreen([Touched EXCEPT !.recovery_index = 0], "RecoveryWord"))
    \/ /\ Shows("RecoveryCheckFailed")
       /\ Ui(SetScreen([Touched EXCEPT !.recovery_check_choice = 0],
                       "RecoveryCheck"))
    \/ /\ Shows("SetupComplete")
       /\ Ui(SetScreen([Touched EXCEPT !.home_index = 0], "Dashboard"))
    \/ demo.screen \in {"About", "Information"} /\ Go(Home)
    \/ demo.screen \in {"Locked", "PinWrong"} /\ Ui(PinUnlockScreen)
    \/ demo.screen \in {"Signed", "Rejected"} /\ Go("BitcoinApp")
    \/ /\ Shows("Error")
       /\ Go(IF demo.setup_complete THEN "Locked" ELSE "Welcome")

NoticeInput(b) ==
    /\ demo.screen \in Notices
    /\ \/ b \in DismissedBy[demo.screen] /\ Dismiss
       \/ b \notin DismissedBy[demo.screen] /\ Ui(Touched)

-----------------------------------------------------------------------------
(* Menus *)

DashboardInput(b) ==
    \/ Browse(b, "home_index", 3)
    \/ b = "Both" /\ demo.home_index = 0 /\ Go("BitcoinApp")
    \/ /\ b = "Both" /\ demo.home_index = 1
       /\ Ui(SetScreen([Touched EXCEPT !.settings_index = 0], "Settings"))
    \/ b = "Both" /\ demo.home_index = 2 /\ Go("About")

SettingsInput(b) ==
    \/ Browse(b, "settings_index", 4)
    \/ b = "Both" /\ demo.settings_index = 0 /\ Enter("SecuritySettings", 0)
    \/ /\ b = "Both" /\ demo.settings_index = 1
       /\ Enter("DisplaySettings", demo.brightness)
    \/ b = "Both" /\ demo.settings_index = 2 /\ Enter("PowerSettings", 0)
    \/ b = "Both" /\ demo.settings_index = 3 /\ Go("Dashboard")

SecurityInput(b) ==
    \/ Browse(b, "page", 3)
    \/ b = "Both" /\ Go(IF demo.page = 2 THEN "Settings" ELSE "Information")

DisplayInput(b) ==
    \/ Browse(b, "page", 4)
    \/ b = "Both" /\ demo.page = 3 /\ Go("Settings")
    \/ /\ b = "Both" /\ demo.page # 3
       /\ Ui(SetScreen([Touched EXCEPT !.brightness = demo.page], "Settings"))

PowerInput(b) ==
    \/ Browse(b, "page", 3)
    \/ b = "Both" /\ demo.page = 0 /\ EnterSleep(Touched)
    \/ b = "Both" /\ demo.page = 1 /\ Go("Information")
    \/ b = "Both" /\ demo.page = 2 /\ Go("Settings")

\* lock: the screen follows the reducer.
LockScreen == IF auth'.tag = "Locked" THEN "Locked" ELSE "Error"
Lock ==
    \/ IsUnlocked /\ Then(Touched, "LockRequested", "Locked")
    \/ /\ ~IsUnlocked
       /\ UNCHANGED <<wallet, effect>>
       /\ Return(SetScreen(Touched, LockScreen))

ControlInput(b) ==
    \/ Browse(b, "page", 4)
    \/ b = "Both" /\ demo.page = 0 /\ Lock
    \/ /\ b = "Both" /\ demo.page = 1
       /\ Ui(SetScreen([Touched EXCEPT !.settings_index = 0], "Settings"))
    \/ b = "Both" /\ demo.page = 2 /\ EnterSleep(Touched)
    \/ b = "Both" /\ demo.page = 3 /\ Go("Dashboard")

BitcoinAppInput(b) ==
    \/ b = "Left" /\ Go("Dashboard")
    \/ b = "Both" /\ Then(Touched, "OperationRequested", "Review")
    \/ b \in {"Right", "BothHeld"} /\ Ui(Touched)

UnlockPinInput(b) ==
    \/ DigitInput(b, "pin_entry")
    \/ /\ b = "Both" /\ IsLastDigit
       /\ LET d == WithDigit("pin_entry")
          IN IF d.pin_entry = d.pin
             THEN Then(d, "UnlockRequested", "Dashboard")
             ELSE Ui(SetScreen(d, "PinWrong"))

\* Mutant: the page before the approval approves.
ReviewInput_EarlyPage(b) ==
    \/ Browse(b, "page", 5)
    \/ b = "Both" /\ demo.page = 2 /\ Then(Touched, "OperationConfirmed", "Signing")
    \/ b = "Both" /\ demo.page = 4 /\ Then(Touched, "OperationRejected", "Rejected")
    \/ b = "Both" /\ demo.page \notin {2, 4} /\ Ui(Touched)
ReviewInput(b) ==
    \/ Browse(b, "page", 5)
    \/ b = "Both" /\ demo.page = 3 /\ Then(Touched, "OperationConfirmed", "Signing")
    \/ b = "Both" /\ demo.page = 4 /\ Then(Touched, "OperationRejected", "Rejected")
    \/ b = "Both" /\ demo.page \notin {3, 4} /\ Ui(Touched)

ScreenInput(b) ==
    \/ NoticeInput(b)
    \/ Shows("SetupChoice") /\ SetupChoiceInput(b)
    \/ Shows("PinCreate") /\ EditPin(b)
    \/ Shows("PinConfirm") /\ ConfirmPin(b)
    \/ Shows("RecoveryWord") /\ RecoveryWordInput(b)
    \/ Shows("RecoveryCheck") /\ VerifyRecoveryWord(b)
    \/ Shows("Dashboard") /\ DashboardInput(b)
    \/ Shows("BitcoinApp") /\ BitcoinAppInput(b)
    \/ Shows("Settings") /\ SettingsInput(b)
    \/ Shows("SecuritySettings") /\ SecurityInput(b)
    \/ Shows("DisplaySettings") /\ DisplayInput(b)
    \/ Shows("PowerSettings") /\ PowerInput(b)
    \/ Shows("ControlCenter") /\ ControlInput(b)
    \/ Shows("PinUnlock") /\ UnlockPinInput(b)
    \/ Shows("Review") /\ ReviewInput(b)
    \/ Shows("Signing") /\ Ui(Touched)

-----------------------------------------------------------------------------
(* press and tick *)

CanOpenControlCenter ==
    /\ demo.setup_complete /\ IsUnlocked
    /\ demo.screen \notin {"Signing", "Review", "PinUnlock", "Sleeping"}

Press(b) ==
    \/ /\ Shows("Sleeping")
       /\ Ui(SetScreen([Touched EXCEPT !.wake_count =
                                           Smaller(@ + 1, MaxWakeCount)],
                       "Locked"))
    \/ /\ ~Shows("Sleeping")
       /\ b = "BothHeld" /\ CanOpenControlCenter
       /\ Enter("ControlCenter", 0)
    \/ /\ ~Shows("Sleeping")
       /\ ~(b = "BothHeld" /\ CanOpenControlCenter)
       /\ ScreenInput(b)

\* The idle clock runs on the screens of an unlocked, set up device.
IdleClockRuns ==
    /\ demo.setup_complete /\ IsUnlocked
    /\ demo.screen \notin {"Welcome", "SetupChoice", "PinCreate", "PinConfirm",
                           "RecoveryIntro", "RecoveryWord", "RecoveryCheck",
                           "Sleeping"}

\* Mutant: the signing delay starts over with every tick.
SigningTick_Restarts(ticks) ==
    LET d == [demo EXCEPT !.signing_ticks = Smaller(ticks, MaxTicks)]
    IN IF d.signing_ticks >= SigningTime
       THEN Then(d, "OperationCompleted", "Signed") ELSE Ui(d)
SigningTick(ticks) ==
    LET d == [demo EXCEPT !.signing_ticks = Smaller(@ + ticks, MaxTicks)]
    IN IF d.signing_ticks >= SigningTime
       THEN Then(d, "OperationCompleted", "Signed") ELSE Ui(d)

\* Mutant: the idle clock restarts with every tick.
IdleTick_Restarts(ticks) ==
    IF ticks >= AUTO_SLEEP_MS THEN EnterSleep(demo) ELSE Ui(demo)
\* A clock that reaches its end puts the device to sleep and restarts.
IdleTick(ticks) ==
    IF demo.inactivity_ms + ticks >= AUTO_SLEEP_MS THEN EnterSleep(demo)
    ELSE Ui([demo EXCEPT !.inactivity_ms = @ + ticks])

DemoTick(ticks) ==
    \/ Shows("Signing") /\ SigningTick(ticks)
    \/ ~Shows("Signing") /\ IdleClockRuns /\ IdleTick(ticks)
    \/ ~Shows("Signing") /\ ~IdleClockRuns /\ Ui(demo)

-----------------------------------------------------------------------------
(* apply: the running handler feeds the reducer *)

Calling(event) == call.event = event

\* The handler shows its screen if the reducer agreed, or fails closed.
ShowIf(agreed) ==
    Return(SetScreen(demo, IF agreed THEN call.show ELSE "Error"))

\* It has further events to apply if the reducer agreed.
ContinueIf(agreed, event) ==
    \/ /\ agreed
       /\ call' = [call EXCEPT !.event = event]
       /\ UNCHANGED demo
    \/ ~agreed /\ ShowIf(FALSE)

\* What the callers of unlock_domain do with the session; unlock_pin_input
\* also returns the dashboard to its first entry.
AfterUnlock(unlocked) ==
    Return(SetScreen([demo EXCEPT !.home_index =
                          IF unlocked /\ call.show = "Dashboard" THEN 0 ELSE @],
                     IF unlocked THEN call.show ELSE "Error"))

\* unlock_domain.  A wallet already unlocked is left alone, a refused
\* request ends the attempt; the answers that follow are not looked at.
ApplyUnlock ==
    \/ /\ Calling("UnlockRequested") /\ IsUnlocked
       /\ AfterUnlock(TRUE)
       /\ UNCHANGED <<wallet, effect>>
    \/ /\ Calling("UnlockRequested") /\ ~IsUnlocked
       /\ UnlockRequested(AUTH, HOST)
       /\ ContinueIf(effect'.tag = "ResolveHostTrust", "HostTrustResolved")
    \/ /\ Calling("HostTrustResolved")
       /\ HostTrustResolved(AUTH, "Trusted")
       /\ ContinueIf(TRUE, "PinVerified")
    \/ /\ Calling("PinVerified")
       /\ PinVerified(AUTH)
       /\ ContinueIf(TRUE, "SessionOpened")
    \/ /\ Calling("SessionOpened")
       /\ SessionOpened(AUTH, SESSION, WALLET)
       /\ AfterUnlock(auth'.tag = "Unlocked")

DemoPlan == [kind |-> "SignTransaction", uses_private_key |-> TRUE,
             assurance |-> "Full", interaction |-> "Confirm"]

\* The fixed ids and the kind of the demo are among those of the reducer.
ASSUME DemoIsTyped ==
    /\ HOST \in Hosts /\ {AUTH, SESSION, OPERATION} \subseteq Ids
    /\ WALLET \in Wallets /\ DemoPlan.kind \in Kinds

\* begin_review
ApplyReview ==
    \/ /\ Calling("OperationRequested")
       /\ OperationRequested(OPERATION, HOST)
       /\ ContinueIf(effect'.tag = "PrepareOperationReview", "ReviewPrepared")
    \/ /\ Calling("ReviewPrepared")
       /\ ReviewPrepared(OPERATION, DemoPlan)
       /\ ContinueIf(effect'.tag = "RenderOperationReview", "ReviewDisplayed")
    \/ /\ Calling("ReviewDisplayed")
       /\ ReviewDisplayed(OPERATION)
       /\ IF flow'.tag = "Operation" /\ effect' = NoEffect
          THEN Return([SetScreen(demo, "Review") EXCEPT !.page = 0])
          ELSE ShowIf(FALSE)

\* confirm, reject and the completion in tick
ApplyDecision ==
    \/ /\ Calling("OperationConfirmed")
       /\ OperationConfirmed(OPERATION)
       /\ IF effect'.tag = "ExecuteOperation"
          THEN Return(SetScreen([demo EXCEPT !.signing_ticks = 0], "Signing"))
          ELSE ShowIf(FALSE)
    \/ /\ Calling("OperationRejected")
       /\ OperationRejected(OPERATION)
       /\ ShowIf(effect'.tag = "RejectOperation"
                   /\ effect'.reason = "UserRejected")
    \/ /\ Calling("OperationCompleted")
       /\ OperationCompleted(OPERATION)
       /\ ShowIf(effect'.tag = "CompleteOperation")

\* lock and enter_sleep
ApplyLock ==
    /\ Calling("LockRequested")
    /\ LockRequested
    /\ \/ /\ call.show = "Sleeping"
          /\ Return(SetScreen([demo EXCEPT !.inactivity_ms = 0], "Sleeping"))
       \/ /\ call.show = "Locked"
          /\ Return(SetScreen(demo, LockScreen))

Apply == ApplyUnlock \/ ApplyReview \/ ApplyDecision \/ ApplyLock

-----------------------------------------------------------------------------
(* frame *)

\* The entries of the menus and the pages of the review, by their texts.
DashboardCopy == <<"BITCOIN", "SETTINGS", "ABOUT">>
SettingsCopy == <<"SECURITY", "DISPLAY", "POWER", "BACK TO DASHBOARD">>
SecurityCopy == <<"CHANGE PIN", "PASSPHRASE", "BACK">>
DisplayCopy == <<"BRIGHTNESS LOW", "BRIGHTNESS MEDIUM", "BRIGHTNESS HIGH", "BACK">>
PowerCopy == <<"SLEEP NOW", "AUTO-SLEEP 30 SECONDS", "BACK">>
ControlCopy == <<"LOCK DEVICE", "SETTINGS", "SLEEP", "CLOSE">>
ReviewCopy == <<"REVIEW TRANSACTION", "AMOUNT", "RECIPIENT", "APPROVE", "REJECT">>

\* The progress and the digit of a PIN entry; the number of a recovery word.
PinCopy == <<"DIGIT", demo.pin_position, demo.selected_digit>>
RecoveryTitle == <<"WORD", demo.recovery_index, 0>>
RecoveryCandidate == <<"VERIFY", demo.recovery_check_step,
                       demo.recovery_check_choice>>

Entry(items, index) == <<items[index + 1], 0, 0>>

\* Every first part of a text.
Labels ==
    {"", "SETUP", "DIGIT", "WORD", "VERIFY"}
    \cup {DashboardCopy[i] : i \in 1..3} \cup {SettingsCopy[i] : i \in 1..4}
    \cup {SecurityCopy[i] : i \in 1..3} \cup {DisplayCopy[i] : i \in 1..4}
    \cup {PowerCopy[i] : i \in 1..3} \cup {ControlCopy[i] : i \in 1..4}
    \cup {ReviewCopy[i] : i \in 1..5}

\* copy: what tells two texts of one screen apart.
Copy ==
    CASE Shows("SetupChoice") -> <<"SETUP", demo.setup_choice, 0>>
      [] demo.screen \in {"PinCreate", "PinConfirm", "PinUnlock"} -> PinCopy
      [] Shows("RecoveryWord") -> RecoveryTitle
      [] Shows("RecoveryCheck") -> RecoveryCandidate
      [] Shows("Dashboard") -> Entry(DashboardCopy, demo.home_index)
      [] Shows("Settings") -> Entry(SettingsCopy, demo.settings_index)
      [] Shows("SecuritySettings") -> Entry(SecurityCopy, demo.page)
      [] Shows("DisplaySettings") -> Entry(DisplayCopy, demo.page)
      [] Shows("PowerSettings") -> Entry(PowerCopy, demo.page)
      [] Shows("ControlCenter") -> Entry(ControlCopy, demo.page)
      [] Shows("Review") -> Entry(ReviewCopy, demo.page)
      [] OTHER -> <<"", 0, 0>>

\* Frame and the flags encode derives from it.
Frame ==
    [sequence |-> demo.sequence, screen |-> demo.screen,
     session_unlocked |-> IsUnlocked, setup_complete |-> demo.setup_complete,
     wake_count |-> demo.wake_count, text |-> Copy]
=============================================================================
