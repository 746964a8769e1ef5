--------------------------- MODULE RealmMCPServer ---------------------------
(***************************************************************************)
(* The tools of the MCP server: CMCPServer                                 *)
(* (tools/realm-mcp-server/MCPServer.cpp) over its client of the control   *)
(* socket (module RealmControlClient) and the realms of the host (module   *)
(* RealmLifecycle).                                                        *)
(*                                                                         *)
(* One tool runs at a time, as a sequence of calls: launch_realm creates,  *)
(* authorises and starts a realm and cleans up what it created when a step *)
(* fails; finish_realm stops and destroys one; capture_realm may capture   *)
(* until the picture changes.  Meanwhile the human, other clients and      *)
(* crashes change the realms.  A server bound to one realm has no tools of *)
(* several steps and is left out, and so are the JSON-RPC session, the     *)
(* validation of arguments and what is in a picture.                       *)
(***************************************************************************)
EXTENDS RealmControlClient, RealmLifecycle

CONSTANTS MaxSequence   \* bound: how often input is numbered in a realm's life

ASSUME SequenceAssumption == MaxSequence \in Nat

VARIABLES
    realms,     \* the host's realm of each name, see RealmRecord
    next,       \* nextSequence of its input controller
    tool,       \* the tool in hand: its name, its realm and the step it is at
    expired,    \* the deadline of the polling loop in hand has passed
    done,       \* history: the steps of the tool in hand that the host carried out
    verdict     \* what the last tool reported, "none" while one runs

host == <<realms, next>>
vars == <<clientVars, host, tool, expired, done, verdict>>

Tools == {"none", "launch", "finish", "input", "capture", "other"}

\* A realm as RealmLifecycle has it; `made' is history: created by the launch in
\* hand, and not started by anyone else since.
RealmRecord == [state : RealmStates, process : {"none", "live", "gone"}, made : {"launch", "other"}]
NoRealm == [state |-> "NONE", process |-> "none", made |-> "other"]

\* The steps of launch_realm and what comes after each, with a grant for each
\* capability; and those of finish_realm, which are also those of the cleanup
\* after a launch that failed.
LaunchSteps == {"create", "place", "grantObserve", "grantPointer", "grantKeyboard", "start", "await",
                "observe", "open"}
FinishSteps == {"look", "stop", "watch", "destroy"}
Following == [create |-> "place", place |-> "grantObserve", grantObserve |-> "grantPointer",
              grantPointer |-> "grantKeyboard", grantKeyboard |-> "start", start |-> "await",
              await |-> "observe", observe |-> "open"]
Steps == LaunchSteps \cup FinishSteps \cup Methods

\* The polling loops; each has a deadline.
Loops == {{"await"}, {"watch", "destroy"}, {"capture"}}

Method(step) ==
    IF step \in {"grantObserve", "grantPointer", "grantKeyboard"} THEN "grant"
    ELSE IF step \in {"await", "look", "watch"} THEN "info"
    ELSE step

TypeOK ==
    /\ ClientTypeOK
    /\ realms \in [Names -> RealmRecord] /\ next \in [Names -> 1 .. MaxSequence + 1]
    /\ tool \in [name : Tools, realm : Names, at : Steps]
    /\ expired \in BOOLEAN
    /\ done \in SUBSET Steps
    /\ verdict \in {"none", "success", "failure"}

Init ==
    /\ ClientInit
    /\ realms = [r \in Names |-> NoRealm] /\ next = [r \in Names |-> 1]
    /\ \E r \in Names : tool = [name |-> "none", realm |-> r, at |-> "info"]
    /\ expired = FALSE
    /\ done = {} /\ verdict = "none"

-----------------------------------------------------------------------------
(* The tools.                                                              *)

\* The tool goes on with the call of another step.
Go(step) ==
    /\ tool' = [tool EXCEPT !.at = step]
    /\ Begin(Method(step), tool.realm)
    /\ expired' = (expired /\ \E loop \in Loops : {tool.at, step} \subseteq loop)
    /\ done' = done \ {step}
    /\ UNCHANGED <<host, verdict>>

Report(result) ==
    /\ tool' = [tool EXCEPT !.name = "none", !.at = "info"]
    /\ verdict' = result
    /\ call' = Done(TRUE) /\ expired' = FALSE /\ done' = {}
    /\ realms' = [r \in Names |-> [realms[r] EXCEPT !.made = "other"]]
    /\ UNCHANGED <<socket, sent, received, pending, late, next>>

Fail == Report("failure")

\* tools/call.  A tool that only makes one call is "other".
CallTool(name, realm, step) ==
    /\ tool.name = "none"
    /\ tool' = [name |-> name, realm |-> realm, at |-> step]
    /\ Begin(Method(step), realm)
    /\ verdict' = "none"
    /\ UNCHANGED <<host, expired, done>>

StartTool(realm) ==
    \/ CallTool("launch", realm, "create")
    \/ CallTool("finish", realm, "look")
    \/ CallTool("input", realm, "input")
    \/ CallTool("capture", realm, "capture")
    \/ \E method \in {"pause", "resume"} : CallTool("other", realm, method)

\* `fail' of launch_realm, for a step after the creation.
FaultyLaunchFails == Go("look")     \* fault: also if the realm was there before
LaunchFails == IF tool.at = "create" THEN Fail ELSE Go("look")

\* The state that the answer to "await" shows.
Await ==
    IF call.state = "RUNNING" THEN Go("observe")
    ELSE IF call.state \in Over \/ expired THEN LaunchFails
    ELSE Go("await")

Launch ==
    /\ tool.name = "launch" /\ tool.at \in LaunchSteps
    /\ IF ~call.ok THEN LaunchFails
       ELSE IF tool.at = "await" THEN Await
       ELSE IF tool.at = "open" THEN Report("success")
       ELSE Go(Following[tool.at])

\* The realm is stopped unless it is over already, or is stopping.
FaultyLook == IF call.state \in {"CREATING", "RUNNING"} THEN Go("stop") ELSE Go("watch")  \* fault: paused
Look == IF call.state \in Active THEN Go("stop") ELSE Go("watch")

\* The loop goes round unless its deadline has passed.
FaultyAgain == Go("watch")      \* fault: no deadline
Again == IF expired THEN Fail ELSE Go("watch")

\* A launch that cleaned up still fails.
Destroyed ==
    IF tool.name = "launch" THEN Fail ELSE Report("success")

\* finish_realm and cleanupRealm: they differ in what a failed stop means.
Finishing ==
    /\ tool.name \in {"launch", "finish"} /\ tool.at \in FinishSteps
    /\ \/ tool.at = "look" /\ IF call.ok THEN Look ELSE Fail
       \/ tool.at = "stop" /\ IF call.ok \/ tool.name = "launch" THEN Go("watch") ELSE Fail
       \/ tool.at = "watch" /\ IF ~call.ok THEN Fail
                               ELSE IF call.state \in Over THEN Go("destroy") ELSE Again
       \/ tool.at = "destroy" /\ IF call.ok THEN Destroyed ELSE Again

\* The tools that make one call.
Other ==
    /\ tool.name \in {"input", "other"}
    /\ Report(IF call.ok THEN "success" ELSE "failure")

\* capture_realm, which may wait for a frame that differs.
Capture ==
    /\ tool.name = "capture"
    /\ \/ ~call.ok /\ Fail
       \/ call.ok /\ Report("success")
       \/ call.ok /\ IF expired THEN Fail ELSE Go("capture")

\* The tool goes on when its call is done.
Proceed == call.stage = "done" /\ (Launch \/ Finishing \/ Other \/ Capture)

\* The deadline of a polling loop passes.
Expire ==
    /\ tool.at \in UNION Loops /\ ~expired
    /\ expired' = TRUE
    /\ UNCHANGED <<clientVars, host, tool, done, verdict>>

\* The client reads, gives up or finds the connection closed.
ClientStep ==
    /\ ReadPacket \/ TimeOut \/ HangUp
    /\ UNCHANGED <<host, tool, expired, done, verdict>>

-----------------------------------------------------------------------------
(* The server carries out the request that it read next.                   *)

Becomes(r, x) == realms' = [realms EXCEPT ![r] = x]

Asked(method) == sent # <<>> /\ Head(sent).method = method
Wanted == realms[Head(sent).realm]

Answer(ok, x) ==
    /\ Respond(ok, x.state, 0)
    /\ Becomes(Head(sent).realm, x)
    /\ done' = IF ok /\ Head(sent).mine THEN done \cup {tool.at} ELSE done
    /\ UNCHANGED <<pending, next, tool, expired, verdict>>

\* A request is carried out, if it may be, with the realm becoming x; or it is
\* refused.
Serve(method, may, x) == Asked(method) /\ may /\ Answer(TRUE, x)
Refuse(method, may) == Asked(method) /\ may /\ Answer(FALSE, Wanted)

ServeCreate ==
    /\ Asked("create") /\ MayCreate(Wanted)
    /\ Answer(TRUE, [Created(Wanted) EXCEPT !.made = IF Head(sent).mine THEN "launch" ELSE "other"])

ServeBadStart ==
    /\ Asked("start") /\ MayStart(Wanted)
    /\ \E x \in BadStarts(Wanted) : Answer(FALSE, x)

\* Input and captures are accepted, and take a sequence number that a capture
\* is not known by; they are refused for the lease, the rate, ...
Accept(is) ==
    /\ Asked(is) /\ Wanted.state = "RUNNING"
    /\ LET r == Head(sent).realm
           number == IF is = "input" THEN next[r] ELSE 0
       IN /\ next[r] <= MaxSequence /\ next' = [next EXCEPT ![r] = @ + 1]
          /\ is = "capture" => \A x \in pending : x.is = "input" \/ x.realm # r
          /\ Respond(TRUE, "NONE", number)
          /\ pending' = pending \cup {[is |-> is, realm |-> r, sequence |-> number,
                                       mine |-> Head(sent).mine]}
    /\ UNCHANGED <<realms, tool, expired, done, verdict>>

ServeLifecycle ==
    \/ ServeCreate \/ Refuse("create", ~MayCreate(Wanted))
    \/ Serve("start", MayStart(Wanted), Started(Wanted)) \/ ServeBadStart
    \/ Refuse("start", ~MayStart(Wanted))
    \/ Serve("stop", MayStop(Wanted), Stopped(Wanted)) \/ Refuse("stop", ~MayStop(Wanted))
    \/ Serve("pause", MayPause(Wanted), Paused(Wanted)) \/ Refuse("pause", ~MayPause(Wanted))
    \/ Serve("resume", MayResume(Wanted), Resumed(Wanted)) \/ Refuse("resume", ~MayResume(Wanted))
    \/ Serve("destroy", MayDestroy(Wanted), NoRealm) \/ Refuse("destroy", TRUE)

ServeUse ==
    \/ \E method \in {"info", "place"} :
           Serve(method, Wanted.state # "NONE", Wanted) \/ Refuse(method, Wanted.state = "NONE")
    \/ Serve("grant", Wanted.state # "NONE", Wanted) \/ Refuse("grant", TRUE)
    \/ \E method \in {"observe", "open"} :
           Serve(method, Wanted.state = "RUNNING", Wanted) \/ Refuse(method, TRUE)
    \/ \E is \in {"input", "capture"} : Accept(is) \/ Refuse(is, TRUE)

\* Accepted input is applied, or a frame is there, or it failed.
Complete ==
    \E x \in pending, ok \in BOOLEAN :
        /\ ok => realms[x.realm].state = "RUNNING"
        /\ Finish(x, ok)
        /\ done' = IF ok /\ x.mine THEN done \cup {tool.at} ELSE done
        /\ UNCHANGED <<host, tool, expired, verdict>>

ServerStep == ServeLifecycle \/ ServeUse

Closes == Close /\ UNCHANGED <<host, tool, expired, done, verdict>>

-----------------------------------------------------------------------------
(* The realms change without the tools: by the human and other clients, and *)
(* by what happens to their processes.                                      *)

Unused == UNCHANGED <<clientVars, tool, expired, done, verdict>>

\* What someone else creates, starts or destroys is no longer the launch's.
Elsewhere(r) ==
    /\ \E x \in Requested(realms[r]) :
           Becomes(r, [x EXCEPT !.made = IF x.state \in {"STOPPED", "CREATING", "NONE"} THEN "other" ELSE @])
    /\ UNCHANGED next /\ Unused

\* It is ready, with a new input controller; the input of the last one is over.
BecomeReady(r) ==
    /\ MayBecomeReady(realms[r])
    /\ \A x \in pending : x.realm # r
    /\ Becomes(r, Ready(realms[r]))
    /\ next' = [next EXCEPT ![r] = 1]
    /\ Unused

\* It exits or is overdue, and dispatchPendingEvents notices and cleans up.
Happen(r) ==
    /\ \E x \in Happened(realms[r]) : Becomes(r, x)
    /\ UNCHANGED next /\ Unused

Environment(r) == Elsewhere(r) \/ BecomeReady(r) \/ Happen(r)

Next ==
    \/ \E r \in Names : StartTool(r) \/ Environment(r)
    \/ Proceed \/ Expire \/ ClientStep
    \/ ServerStep \/ Complete \/ Closes

Spec == Init /\ [][Next]_vars

\* The MCP server runs and its clocks pass; of the host nothing is required.
Fairness == WF_vars(Proceed \/ ClientStep) /\ WF_vars(Expire)
FairSpec == Spec /\ Fairness

-----------------------------------------------------------------------------
(***************************************************************************)
(* What a tool reports as done was done for it by the host: a launch went  *)
(* through every step, a finished realm was destroyed, a paused one paused *)
(* and an image is of a capture of this call - however far the client is   *)
(* out of step with the server - and, if it is not, input was applied.     *)
(***************************************************************************)
SuccessIsReal ==
    [][tool.name # "none" /\ tool'.name = "none" /\ verdict' = "success" =>
           /\ tool.name = "launch" => LaunchSteps \subseteq done
           /\ tool.name \in {"finish", "capture", "other"} => tool.at \in done
           /\ tool.name = "input" /\ ~late => tool.at \in done]_vars

(***************************************************************************)
(* A launch that fails leaves the realm it created running only if it has  *)
(* lost the host: when the host refused a step, the realm failed or its    *)
(* deadline passed, cleanupRealm stops it, whatever the human did to it    *)
(* meanwhile.  It does not stop it after a call gave up on an answer that  *)
(* still came - realm.info then reads an earlier answer, and cleanupRealm  *)
(* returns at once - or on a closed connection.  (A realm that someone     *)
(* else started in between is theirs: `made' is then no longer "launch".)  *)
(***************************************************************************)
LeavesRealmOnlyIfLost ==
    [][/\ tool.name = "launch" /\ tool'.name = "none" /\ verdict' = "failure"
       /\ realms[tool.realm].made = "launch"
       /\ realms[tool.realm].state \in Active /\ realms[tool.realm].process # "gone"
       => late \/ socket # "open"]_vars

(***************************************************************************)
(* A launch stops or destroys a realm only after it has created one: it    *)
(* leaves a realm of the same name alone that was there before.            *)
(***************************************************************************)
CleansUpItsOwn == tool.name = "launch" /\ tool.at # "create" => "create" \in done

(***************************************************************************)
(* Every tool returns, whatever the host does: each read and each polling  *)
(* loop has its deadline.                                                  *)
(***************************************************************************)
ToolsReturn == tool.name # "none" ~> tool.name = "none"

(***************************************************************************)
(* "Input success means the nested compositor processed the complete       *)
(* ordered action."  An event of another realm's input that comes late and *)
(* has the same number is taken for it.                                    *)
(***************************************************************************)
InputIsApplied ==
    [][tool.name = "input" /\ tool'.name = "none" /\ verdict' = "success" => "input" \in done]_vars
=============================================================================
