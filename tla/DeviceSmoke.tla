---------------------------- MODULE DeviceSmoke ----------------------------
(***************************************************************************)
(* run_moto_g_device_smoke.py: it drives the app through adb (swipes,      *)
(* taps, typed text) and judges what it finds in dumps of the screen.  A   *)
(* dump shows some of the newest task cards, and only when the header of   *)
(* the timeline is in view; it may show the command field and the Hub      *)
(* setup card or not, and it may fail and then shows nothing.              *)
(***************************************************************************)
EXTENDS MotoG

CONSTANTS
    MaxSmokes,     \* bound on the scripts started
    Swipes,        \* scroll attempts of a search (3 to 5 in the code)
    MaxCards       \* bound on the task cards

ASSUME DeviceSmokeAssumption == MaxSmokes \in Nat /\ Swipes \in Nat /\ MaxCards \in Nat

VARIABLES
    smoke,         \* the script
    screen         \* the app

smokeVars == <<smoke, screen>>

Commands == {"battery", "remember", "memories", "mac"}
Active == {"running", "approval"}

(* The text fields of the setup card, and the command field. *)
TextFields == {"endpoint", "challenge", "token", "field"}

(* A freshly launched app: the setup card is open unless the Hub is        *)
(* configured, and its endpoint is filled in.                              *)
Blank(linked) == [app |-> TRUE, cards |-> <<>>, field |-> "", endpoint |-> "default", focus |-> "none",
                  open |-> ~linked, linked |-> linked, token |-> "none"]

SmokeIdle == [pc |-> "idle"]

SmokeInit ==
    /\ smoke = SmokeIdle
    /\ \E linked \in BOOLEAN : screen = Blank(linked)

-----------------------------------------------------------------------------
(* Dumps of the screen. *)

NoDump == [cards |-> <<>>, field |-> "?", send |-> FALSE, setup |-> FALSE]

(* The setup card shows its fields only while the Hub is not configured. *)
Expanded == screen.open /\ ~screen.linked

(* find_command_field takes the first text field that is neither a         *)
(* password nor shows the default endpoint.                                *)
FieldInReach == IF Expanded /\ screen.endpoint # "default" THEN "endpoint" ELSE "field"

(* find_send_control: Send is enabled while the app's command is not empty. *)
SendEnabled == screen.field # ""

(* What a dump can show: the k newest cards, the field in reach, Send, the  *)
(* setup card.                                                             *)
View(k, field, send, setup) ==
    [cards |-> SubSeq(screen.cards, 1, k), field |-> IF field THEN screen[FieldInReach] ELSE "?",
     send |-> send /\ SendEnabled, setup |-> setup]

(* latest_ui_text, dump_ui: a failed dump, or a view of the screen. *)
Dumps ==
    {NoDump} \cup
    IF screen.app
    THEN {View(k, f, s, v) : k \in 0..Len(screen.cards), f, s, v \in BOOLEAN}
    ELSE {}

(* timeline_command_occurrences *)
Occurrences(cards, c) == Cardinality({i \in DOMAIN cards : cards[i].cmd = c})

(* Slip: any card of the command will do. *)
WindowShowsAny(d, c, state) == \E i \in DOMAIN d.cards : d.cards[i].cmd = c /\ d.cards[i].state = state

(* command_window_contains: the first card of the command, the newest, is  *)
(* in the given state.                                                     *)
WindowShows(d, c, state) ==
    \E i \in DOMAIN d.cards :
        /\ d.cards[i].cmd = c /\ d.cards[i].state = state
        /\ \A j \in 1..(i - 1) : d.cards[j].cmd # c

(* Fresh cards: more than in any dump before Send. *)
Fresh(d) == Occurrences(d.cards, smoke.cmd) > smoke.baseline

Larger(m, n) == IF m > n THEN m ELSE n
Baseline(d) == Larger(smoke.baseline, Occurrences(d.cards, smoke.cmd))

(* The node last found, whose text is checked: an older one when the field *)
(* is not in view.                                                         *)
SeenField(d) == IF d.field = "?" THEN smoke.seen ELSE d.field

-----------------------------------------------------------------------------
(* The app. *)

Busy == \E i \in DOMAIN screen.cards : screen.cards[i].state \in Active

(* A submitted text becomes the newest card; the app runs one task at a    *)
(* time and fails the others.  Remembering asks first.                     *)
Submitted(text, by) ==
    [screen EXCEPT !.field = "",
        !.cards = <<[cmd |-> text, by |-> by,
                     state |-> IF Busy THEN "failed"
                               ELSE IF text = "remember" THEN "approval" ELSE "running"]>> \o @]

(* The running task ends; an approval nobody gives expires. *)
TaskEnds ==
    \E i \in DOMAIN screen.cards, s \in {"verified", "failed"} :
        /\ screen.cards[i].state \in Active
        /\ screen.cards[i].state = "approval" => s = "failed"
        /\ screen' = [screen EXCEPT !.cards[i].state = s]
        /\ UNCHANGED <<smoke, site>>

-----------------------------------------------------------------------------
(* The script's way through its steps. *)

At(pc) == smoke.pc = pc

(* The next step, or the report at the first FAIL. *)
Step(status, next) ==
    smoke' = IF status = "FAIL" THEN [smoke EXCEPT !.pc = "report", !.ok = FALSE]
                                ELSE [smoke EXCEPT !.pc = next, !.tries = 0]

(* A search that scrolls on, until its swipes are used up. *)
ScrollOn ==
    \/ smoke.tries >= Swipes /\ Step("FAIL", "report")
    \/ smoke.tries < Swipes /\ \E r \in Outcomes :
         smoke' = IF r = "FAIL" THEN [smoke EXCEPT !.pc = "report", !.ok = FALSE]
                                ELSE [smoke EXCEPT !.tries = @ + 1]

(* option_blockers *)
OptionErrors(o) ==
    \/ o.paired /\ ~o.mac
    \/ o.paired /\ o.token
    \/ o.token /\ ~o.mac
    \/ o.wait /\ ~o.paired

(* execution_blockers, for the fixed commands. *)
ExecutionBlocked(o) == ~o.confirm \/ "apk" \notin site

Options == [mac : BOOLEAN, paired : BOOLEAN, token : BOOLEAN, wait : BOOLEAN, memory : BOOLEAN,
            execute : BOOLEAN, confirm : BOOLEAN]

Started(o, pc, ok, executed) ==
    [pc |-> pc, opts |-> o, ok |-> ok, executed |-> executed, macOk |-> FALSE, cmd |-> "none",
     tries |-> 0, baseline |-> 0, seen |-> "", send |-> FALSE, fallback |-> FALSE,
     approved |-> FALSE, blind |-> FALSE]

(* planned_steps: the steps are listed and none is taken. *)
Planned(o) == Started(o, "report", TRUE, FALSE)

(* build_report up to the first mutation: refused, a plan, or setup. *)
StartSmoke(o) ==
    /\ At("idle") /\ Starts(MaxSmokes)
    /\ smoke' = IF OptionErrors(o) THEN Started(o, "report", FALSE, FALSE)
                ELSE IF ~o.execute THEN Planned(o)
                ELSE IF ExecutionBlocked(o) \/ ~TargetResolved THEN Started(o, "report", FALSE, FALSE)
                ELSE Started(o, "setup", TRUE, TRUE)
    /\ UNCHANGED <<screen, site, flips>>

(* run_setup_steps: both commands run, and both must succeed. *)
RunSetup ==
    /\ At("setup")
    /\ \E reverse, install \in Outcomes :
         /\ site' = IF reverse = "OK" /\ TargetResolved THEN site \cup {"reverse"} ELSE site
         /\ Step(IF "FAIL" \in {reverse, install} THEN "FAIL" ELSE "OK", "launch")
    /\ UNCHANGED screen

AfterLink == "collapse"
AfterLaunch == IF smoke.opts.mac /\ smoke.opts.paired THEN "pair"
               ELSE IF smoke.opts.mac /\ smoke.opts.token THEN "open" ELSE AfterLink

(* What an app that was not stopped may still show. *)
Leftovers == {<<>>} \cup {<<[cmd |-> c, by |-> "operator", state |-> "verified"]>> : c \in Commands}

(* run_launch_steps: a failure is reported but the run goes on. *)
Launch ==
    /\ At("launch")
    /\ \E stop, start \in Outcomes :
       \E cards \in IF stop = "OK" THEN {<<>>} ELSE Leftovers :
         /\ screen' = [Blank(screen.linked) EXCEPT !.cards = cards, !.app = (start = "OK")]
         /\ smoke' = [smoke EXCEPT !.pc = AfterLaunch, !.ok = @ /\ "FAIL" \notin {stop, start}]
    /\ UNCHANGED site
-----------------------------------------------------------------------------
(* The Hub link. *)

(* paired_hub_link_visible *)
PairedVisible(d) == d.setup /\ screen.linked /\ screen.endpoint = "default"

(* verify_required_paired_hub_link *)
VerifyPaired ==
    /\ At("pair")
    /\ \E d \in Dumps :
         \/ PairedVisible(d) /\ Step("OK", AfterLink)
         \/ ~PairedVisible(d) /\ smoke.opts.wait /\ Step("OK", "waitPaired")
         \/ ~PairedVisible(d) /\ ~smoke.opts.wait /\ d.setup /\ Step("FAIL", "report")
         \/ ~d.setup /\ ~smoke.opts.wait /\ ScrollOn
    /\ UNCHANGED <<screen, site>>

(* wait_for_operator_paired_hub_link: it polls until the deadline. *)
SeesPaired ==
    /\ At("waitPaired")
    /\ \E d \in Dumps : PairedVisible(d) /\ Step("OK", AfterLink)
    /\ UNCHANGED <<screen, site>>

(* Slip: the deadline starts anew as long as the setup card is open. *)
PairedDeadlineRestarts ==
    /\ At("waitPaired") /\ ~screen.open /\ Step("FAIL", "report")
    /\ UNCHANGED <<screen, site>>

PairedDeadline ==
    /\ At("waitPaired") /\ Step("FAIL", "report")
    /\ UNCHANGED <<screen, site>>

(* Meanwhile the phone is in the operator's hands. *)
OperatorActs ==
    /\ At("waitPaired") /\ screen.app
    /\ \/ screen' = [screen EXCEPT !.open = ~@]
       \/ Expanded /\ screen' = [screen EXCEPT !.linked = TRUE, !.open = FALSE]
       \/ Expanded /\ screen' = [screen EXCEPT !.endpoint = "other"]
       \/ screen' = [screen EXCEPT !.field = "other"]
       \/ \E c \in Commands : Len(screen.cards) < MaxCards /\ screen' = Submitted(c, "operator")
    /\ UNCHANGED <<smoke, site>>

(* configure_debug_hub_link: find the fields of the setup card, or open it *)
(* (also at the last attempt), ...                                         *)
OpenSetup ==
    /\ At("open")
    /\ \/ /\ Expanded /\ screen.endpoint = "default" /\ screen.app
          /\ Step("OK", "focus") /\ UNCHANGED screen
       \/ /\ ~screen.open /\ screen.app /\ smoke.tries <= Swipes
          /\ \E r \in Outcomes, opens \in BOOLEAN :
               /\ screen' = [screen EXCEPT !.open = opens]
               /\ IF r = "FAIL" THEN Step("FAIL", "report")
                  ELSE smoke' = [smoke EXCEPT !.tries = @ + 1]
       \/ ScrollOn /\ UNCHANGED screen
    /\ UNCHANGED site

(* ... tap the field nearest to the token's label, whichever that is in    *)
(* this layout, until a dump shows the nearest one focused                 *)
(* (find_debug_token_field, find_focused_debug_token_field), ...           *)
FocusToken ==
    /\ At("focus")
    /\ \E r \in Outcomes, on \in TextFields \cup {"none"}, nearest \in BOOLEAN :
         LET focused == nearest /\ on # "none" IN
         /\ screen' = [screen EXCEPT !.focus = on]
         /\ \/ r = "OK" /\ focused /\ Step("OK", "token")
            \/ r = "OK" /\ ~focused /\ smoke.tries < 2 /\ smoke' = [smoke EXCEPT !.tries = @ + 1]
            \/ r = "OK" /\ ~focused /\ smoke.tries = 2 /\ Step("FAIL", "report")
            \/ r = "FAIL" /\ Step("FAIL", "report")
    /\ UNCHANGED site

(* ... type the token, which goes to the field that has the focus, ... *)
TypeToken ==
    /\ At("token")
    /\ \E r \in Outcomes, on \in {screen.focus, "none"} :
         /\ screen' = [screen EXCEPT !.token = IF on = "none" THEN @ ELSE on,
                                     !.endpoint = IF on = "endpoint" THEN "other" ELSE @,
                                     !.field = IF on = "field" THEN "other" ELSE @]
         /\ Step(r, "link")
    /\ UNCHANGED site

(* The app enables the Debug link once its token field is filled. *)
DebugLinkEnabled == Expanded /\ screen.token = "token"

(* The tap configures the Hub or is rejected; a dump with the endpoint and *)
(* without NOT CONFIGURED is taken for the former.                         *)
DebugLinkTapped ==
    \E r \in Outcomes, linked, seen \in BOOLEAN :
         /\ screen' = [screen EXCEPT !.linked = linked,
                                     !.token = IF linked THEN "none" ELSE @,
                                     !.open = ~linked]
         /\ Step(IF r = "OK" /\ seen /\ screen.endpoint = "default" THEN "OK" ELSE "FAIL", AfterLink)

(* Slip: a Debug link that stays disabled is passed over. *)
TapDebugLinkOrSkip ==
    /\ At("link")
    /\ \/ DebugLinkEnabled /\ DebugLinkTapped
       \/ smoke.tries >= Swipes /\ Step("SKIP", AfterLink) /\ UNCHANGED screen
       \/ smoke.tries < Swipes /\ ScrollOn /\ UNCHANGED screen
    /\ UNCHANGED site

(* ... and tap the Debug link once a dump shows it enabled. *)
TapDebugLink ==
    /\ At("link")
    /\ \/ DebugLinkEnabled /\ DebugLinkTapped
       \/ ScrollOn /\ UNCHANGED screen
    /\ UNCHANGED site

-----------------------------------------------------------------------------
(* The home screen. *)

(* collapse_setup_card_if_expanded: SKIP when no dump shows it open; a tap *)
(* that missed counts when the dump after it fails.                        *)
CollapseSetup ==
    /\ At("collapse")
    /\ \/ Step("SKIP", "restore") /\ UNCHANGED screen
       \/ /\ screen.open
          /\ \E r \in Outcomes, open \in BOOLEAN :
               Step(r, "restore") /\ screen' = [screen EXCEPT !.open = open]
       \/ Step("FAIL", "report") /\ UNCHANGED screen
    /\ UNCHANGED site

(* restore_home_top_viewport *)
RestoreHome == At("restore") /\ (\E r \in Outcomes : Step(r, "dump")) /\ UNCHANGED <<screen, site>>

(* The dump after the launch: it may show nothing. *)
DumpLaunched ==
    /\ At("dump") /\ (\E d \in Dumps : Step(IF d = NoDump THEN "FAIL" ELSE "OK", "home"))
    /\ UNCHANGED <<screen, site>>

(* verify_home_surface *)
HomeSurface == At("home") /\ (\E r \in Outcomes : Step(r, "map")) /\ UNCHANGED <<screen, site>>

Command(s, c) == [s EXCEPT !.pc = "find", !.cmd = c, !.tries = 0, !.baseline = 0, !.seen = "",
                           !.send = FALSE, !.fallback = FALSE, !.approved = FALSE]

(* reveal_and_verify_device_map_surface, and on to the first command. *)
DeviceMap ==
    /\ At("map")
    /\ \E r \in Outcomes : smoke' = IF r = "OK" THEN Command(smoke, "battery")
                                    ELSE [smoke EXCEPT !.pc = "report", !.ok = FALSE]
    /\ UNCHANGED <<screen, site>>
-----------------------------------------------------------------------------
(* submit_and_verify_command, once per command. *)

Capture(s) == [s EXCEPT !.pc = "capture", !.cmd = "none", !.tries = 0, !.baseline = 0, !.seen = "",
                        !.send = FALSE, !.fallback = FALSE, !.approved = FALSE]

(* What follows a command whose step was OK. *)
AfterCommand(s, c) ==
    IF c = "battery" /\ s.opts.memory THEN Command(s, "remember")
    ELSE IF c = "remember" THEN [Capture(s) EXCEPT !.pc = "again"]
    ELSE IF c \in {"battery", "memories"} /\ s.opts.mac THEN Command(s, "mac")
    ELSE Capture(s)

(* A command that is not OK makes the others SKIP. *)
CommandDone(status) ==
    smoke' = IF status = "OK" THEN AfterCommand([smoke EXCEPT !.macOk = smoke.cmd = "mac"], smoke.cmd)
             ELSE Capture([smoke EXCEPT !.ok = FALSE])

(* The viewport is restored between remembering and listing. *)
RestoreForList ==
    /\ At("again")
    /\ \E r \in Outcomes : smoke' = IF r = "OK" THEN Command(smoke, "memories")
                                    ELSE Capture([smoke EXCEPT !.ok = FALSE])
    /\ UNCHANGED <<screen, site>>

(* A swipe within a command. *)
Reveal(next) ==
    \E r \in Outcomes : IF r = "FAIL" THEN CommandDone("FAIL") ELSE smoke' = next

(* The command field comes into view. *)
FindField ==
    /\ At("find")
    /\ \E d \in Dumps :
         LET seen == [smoke EXCEPT !.baseline = Baseline(d)] IN
         IF d.field # "?" THEN smoke' = [seen EXCEPT !.pc = "type", !.seen = d.field, !.tries = 0]
         ELSE IF smoke.tries = Swipes THEN CommandDone("FAIL")
         ELSE Reveal([seen EXCEPT !.tries = @ + 1])
    /\ UNCHANGED <<screen, site>>

(* Typed into an empty field: all, some or none of the command.  Typed     *)
(* after other text: not the command.                                      *)
Typed(text, c) == IF text = "" THEN {c, "other", ""} ELSE {text, "other"}

(* Focus, clear a stale text, type, hide the keyboard. *)
TypeCommand ==
    /\ At("type")
    /\ LET old == screen[FieldInReach]
           rest == IF smoke.seen \notin {"", smoke.cmd} THEN "" ELSE old
       IN \E r \in Outcomes, text \in Typed(rest, smoke.cmd) :
            /\ screen' = [screen EXCEPT ![FieldInReach] = text]
            /\ IF r = "FAIL" THEN CommandDone("FAIL") ELSE smoke' = [smoke EXCEPT !.pc = "check"]
    /\ UNCHANGED site

(* A mismatch is typed once more, key by key, after what is there. *)
CheckTyped ==
    /\ At("check")
    /\ \E d \in Dumps :
         LET now == [smoke EXCEPT !.baseline = Baseline(d), !.seen = SeenField(d), !.send = d.send] IN
         \/ /\ now.seen = smoke.cmd /\ smoke' = [now EXCEPT !.pc = "send"]
            /\ UNCHANGED screen
         \/ /\ now.seen # smoke.cmd /\ smoke.fallback /\ CommandDone("FAIL")
            /\ UNCHANGED screen
         \/ /\ now.seen # smoke.cmd /\ ~smoke.fallback
            /\ Reveal([now EXCEPT !.fallback = TRUE])
            /\ \E text \in Typed(screen[FieldInReach], smoke.cmd) :
                 screen' = [screen EXCEPT ![FieldInReach] = text]
    /\ UNCHANGED site

(* Send comes into view; in the end the text must still be the command. *)
RevealSend ==
    /\ At("send") /\ ~smoke.send
    /\ \/ smoke.tries = Swipes /\ CommandDone("FAIL")
       \/ /\ smoke.tries < Swipes
          /\ \E d \in Dumps :
               Reveal([smoke EXCEPT !.baseline = Baseline(d), !.seen = SeenField(d), !.send = d.send,
                                    !.tries = @ + 1])
    /\ UNCHANGED <<screen, site>>

TextChanged ==
    /\ At("send") /\ smoke.send /\ smoke.seen # smoke.cmd
    /\ CommandDone("FAIL")
    /\ UNCHANGED <<screen, site>>

(* The tap may miss.  It is lost on a script that has not seen an older    *)
(* card of the same command.                                               *)
TapSend ==
    /\ At("send") /\ smoke.send /\ smoke.seen = smoke.cmd
    /\ \/ CommandDone("FAIL") /\ UNCHANGED screen
       \/ /\ smoke' = [smoke EXCEPT !.pc = "wait", !.tries = 0]
          /\ screen' = Submitted(screen.field, "smoke")
       \/ /\ smoke' = [smoke EXCEPT !.pc = "wait", !.tries = 0,
                                  !.blind = @ \/ smoke.baseline < Occurrences(screen.cards, smoke.cmd)]
          /\ UNCHANGED screen
    /\ UNCHANGED site

(* The polls after Send.  The approval is tapped once, in the first card   *)
(* of the command; it may have expired since the dump.                     *)
Approve ==
    /\ At("wait") /\ smoke.cmd = "remember" /\ ~smoke.approved
    /\ \E d \in Dumps :
         /\ Fresh(d) /\ WindowShows(d, smoke.cmd, "approval")
         /\ \/ CommandDone("FAIL") /\ UNCHANGED screen
            \/ /\ smoke' = [smoke EXCEPT !.approved = TRUE]
               /\ \/ UNCHANGED screen
                  \/ \E i \in DOMAIN screen.cards :
                       /\ screen.cards[i].state = "approval"
                       /\ screen' = [screen EXCEPT !.cards[i].state = "running"]
    /\ UNCHANGED site

SeesResult ==
    /\ At("wait")
    /\ \E d \in Dumps : Fresh(d) /\ WindowShows(d, smoke.cmd, "verified")
    /\ CommandDone("OK")
    /\ UNCHANGED <<screen, site>>

(* The deadline, or a swipe that fails. *)
ResultDeadline ==
    /\ At("wait") /\ CommandDone("FAIL")
    /\ UNCHANGED <<screen, site>>

-----------------------------------------------------------------------------
(* capture_screenshot, capture_app_logcat: both run. *)
Captures ==
    /\ At("capture")
    /\ \E shot, log \in Outcomes :
         smoke' = [smoke EXCEPT !.pc = "report", !.ok = @ /\ "FAIL" \notin {shot, log}]
    /\ UNCHANGED <<screen, site>>

(* executed_report: no step failed, and the MAC step, if asked for, was OK. *)
ReportOk == smoke.ok /\ (smoke.executed /\ smoke.opts.mac => smoke.macOk)

(* The run is over; the next one restarts the app, which remembers a       *)
(* pairing but not a Debug link.                                           *)
EndSmoke ==
    /\ At("report") /\ smoke' = SmokeIdle
    /\ \E linked \in {screen.linked, FALSE} : screen' = Blank(linked)
    /\ UNCHANGED site

SmokeStep ==
    \/ RunSetup \/ Launch
    \/ VerifyPaired \/ SeesPaired \/ PairedDeadline
    \/ OpenSetup \/ FocusToken \/ TypeToken \/ TapDebugLink
    \/ CollapseSetup \/ RestoreHome \/ DumpLaunched \/ HomeSurface \/ DeviceMap
    \/ RestoreForList \/ FindField \/ TypeCommand \/ CheckTyped \/ RevealSend \/ TextChanged
    \/ TapSend \/ Approve \/ SeesResult \/ ResultDeadline
    \/ Captures \/ EndSmoke

SmokeNext ==
    \/ \E o \in Options : StartSmoke(o)
    \/ (SmokeStep \/ TaskEnds \/ OperatorActs) /\ UNCHANGED <<runs, flips>>

-----------------------------------------------------------------------------
(* The commands a run is asked to try. *)
Asked(o) == {"battery"} \cup (IF o.memory THEN {"remember", "memories"} ELSE {})
                        \cup (IF o.mac THEN {"mac"} ELSE {})

(* A report of a run that was executed and is OK rests on this run's own   *)
(* tasks: for every command asked for, SKIPs notwithstanding, the app      *)
(* shows a verified card that the script's Send created - whatever the     *)
(* operator submitted while it waited.  Except when a tap of Send was lost *)
(* while an older card of the command was out of every dump's view         *)
(* (submit_and_verify_command, executed_report).                           *)
SmokeVerdictIsFresh ==
    At("report") /\ smoke.executed /\ ReportOk /\ ~smoke.blind =>
        \A c \in Asked(smoke.opts) : \E i \in DOMAIN screen.cards :
            screen.cards[i].cmd = c /\ screen.cards[i].by = "smoke" /\ screen.cards[i].state = "verified"

(* A bearer token that landed in another field than its own, because the  *)
(* layout brought that one nearest to the label, goes no further: the run  *)
(* gets no Debug link and no OK report, and sends no command after it      *)
(* (configure_debug_hub_link).                                             *)
MisplacedTokenEndsRun ==
    screen.token \in TextFields \ {"token"} => At("link") \/ (At("report") /\ ~ReportOk)

=============================================================================
