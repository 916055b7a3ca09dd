--------------------------- MODULE SupportBundle ---------------------------
(***************************************************************************)
(* The support bundle a player previews and then saves: the preview takes  *)
(* the events of the log at one instant, builds a bundle that fits its     *)
(* size, and keeps it under a fresh token for a while; saving takes the    *)
(* preview out of the store and only then writes the file.  Several        *)
(* requests of the panel run at once.  Of the bundle's contents the model  *)
(* keeps the events, which is what building may drop.                      *)
(***************************************************************************)
EXTENDS DiagnosticLogging, FiniteSets

CONSTANTS Requests,     \* the requests of the panel that may overlap
          PreviewTokens,       \* tokens the generator draws, each once
          PreviewTtl,   \* how long a preview is kept
          MaxPreviews   \* how many are kept

ASSUME BundleAssumption == PreviewTtl \in Nat \ {0} /\ MaxPreviews \in Nat \ {0}

VARIABLES
  previews,  \* SupportBundlePreviewStore._previews: token -> created, bundle
  displayed,     \* what the player was shown under each token drawn so far
  request,   \* a request: where it is, its token and its bundle
  files      \* the files in Downloads

bundleVars == <<loggingVars, previews, displayed, request, files>>

NoRequest == [at |-> "idle", token |-> 0, bundle |-> <<>>]

BundleInit ==
  /\ LoggingInit
  /\ previews = <<>> /\ displayed = <<>> /\ files = {}
  /\ request = [r \in Requests |-> NoRequest]

\* An event of any other component; it may push the oldest out.
EventArrives ==
  /\ \E kind \in {"normal", "verbose"} : log' = Pushed(kind)
  /\ UNCHANGED <<now, logging, worker, word, previews, displayed, request, files>>

BundleClockTicks == ClockTicks /\ UNCHANGED <<previews, displayed, request, files>>

Without(f, tokens) == [t \in DOMAIN f \ tokens |-> f[t]]
With(f, token, value) == [t \in DOMAIN f \cup {token} |-> IF t = token THEN value ELSE f[t]]
RequestGoes(r, to) == request' = [request EXCEPT ![r] = to]
RestOfLogging == UNCHANGED <<now, logging, worker, word>>

-----------------------------------------------------------------------------
(* The preview                                                             *)

\* Its own event, then the events of the log as they are now; the oldest
\* are dropped until the text fits, and if it never fits there is no bundle.
BuildsBundle(r) ==
  /\ request[r].at = "idle"
  /\ log' = Pushed("normal")
  /\ \/ \E dropped \in 0..Len(log') :
          RequestGoes(r, [NoRequest EXCEPT !.at = "built",
                     !.bundle = SubSeq(log', dropped + 1, Len(log'))])
     \/ UNCHANGED request
  /\ RestOfLogging /\ UNCHANGED <<previews, displayed, files>>

Live == Without(previews, {t \in DOMAIN previews : previews[t].created + PreviewTtl <= now})

Oldest(store) == CHOOSE t \in DOMAIN store :
                   \A u \in DOMAIN store : store[t].created <= store[u].created

\* issue(): expire, make room by age, keep the bundle under a fresh token.
Room == IF Cardinality(DOMAIN Live) >= MaxPreviews THEN Without(Live, {Oldest(Live)}) ELSE Live

IssuesPreview(r) ==
  /\ request[r].at = "built"
  /\ \E token \in PreviewTokens \ DOMAIN displayed :
       /\ previews' = With(Room, token, [created |-> now, bundle |-> request[r].bundle])
       /\ displayed' = With(displayed, token, request[r].bundle)
  /\ RequestGoes(r, NoRequest)
  /\ RestOfLogging /\ UNCHANGED <<log, files>>

-----------------------------------------------------------------------------
(* The save                                                                *)

\* Fault: the preview stays in the store until it expires.
TakenKept(token) == Live

\* consume(): the preview leaves the store before anything is written.
Taken(token) == Without(Live, {token})

ConsumesPreview(r) ==
  /\ request[r].at = "idle"
  /\ \E token \in DOMAIN displayed :
       /\ previews' = Taken(token)
       /\ IF token \in DOMAIN Live
          THEN RequestGoes(r, [at |-> "saving", token |-> token, bundle |-> Live[token].bundle])
          ELSE UNCHANGED request
  /\ RestOfLogging /\ UNCHANGED <<log, displayed, files>>

\* _write_support_bundle, then the event that it was saved: refused before
\* the file is made, interrupted after, or written whole.
SavesFile(r) ==
  /\ request[r].at = "saving" /\ RequestGoes(r, NoRequest)
  /\ \/ UNCHANGED <<files, log>>
     \/ /\ files' = files \cup {[token |-> request[r].token, by |-> r, whole |-> FALSE,
                                 bundle |-> <<>>]}
        /\ UNCHANGED log
     \/ /\ files' = files \cup {[token |-> request[r].token, by |-> r, whole |-> TRUE,
                                 bundle |-> request[r].bundle]}
        /\ log' = Pushed("normal")
  /\ RestOfLogging /\ UNCHANGED <<previews, displayed>>

BundleNext ==
  \/ EventArrives \/ BundleClockTicks
  \/ \E r \in Requests :
       BuildsBundle(r) \/ IssuesPreview(r) \/ ConsumesPreview(r) \/ SavesFile(r)

BundleSpec == BundleInit /\ [][BundleNext]_bundleVars

-----------------------------------------------------------------------------
(* What is written to disk is what the player was shown under that token,   *)
(* whatever the log has become since, and one preview gives at most one     *)
(* file however many saves of it overlap.                                   *)
SavedIsPreviewed ==
  /\ \A f \in files : f.whole => f.bundle = displayed[f.token]
  /\ \A f, g \in files : f.token = g.token => f = g
=============================================================================
