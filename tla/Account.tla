-------------------------------- MODULE Account --------------------------------
(***************************************************************************)
(* What an account promises: its state moves along the edges of the        *)
(* machine, and its session comes and goes in one step with what the       *)
(* record tells of it.  A capture makes the account valid and has a        *)
(* session, a logout leaves neither, and nothing else touches the session. *)
(* What is said of the session holds while the account is whole: until a   *)
(* process dies between the two halves of a capture or a logout.           *)
(***************************************************************************)

VARIABLES state,      \* the state of the account
          summary,    \* whether the record tells of a session
          envelope,   \* whether there is a session
          whole       \* whether the two are promised to agree

vars == <<state, summary, envelope, whole>>

Init == state = "needs_login" /\ summary = FALSE /\ envelope = FALSE /\ whole = TRUE

To(s) == state' = s /\ (whole' => UNCHANGED <<summary, envelope>>)

\* A login begins.
Enter == state \in {"needs_login", "stale"} /\ To("logging_in")

\* A login fails, is aborted or found to be an orphan.
GiveUp == To("needs_login")

\* A probe, or a page, tells what has become of the session.
Judge ==
    \/ To("valid")
    \/ state = "valid" /\ To("stale")
    \/ state \in {"valid", "stale"} /\ To("challenge")

Capture == state' = "valid" /\ (whole' => summary' = TRUE /\ envelope' = TRUE)

Logout == state' = "needs_login" /\ (whole' => summary' = FALSE /\ envelope' = FALSE)

\* Half a capture or half a logout; from here on only the state is spoken of.
Tear == ~whole' /\ UNCHANGED state

Next ==
    /\ whole' => whole
    /\ Enter \/ GiveUp \/ Judge \/ Capture \/ Logout \/ Tear

Spec == Init /\ [][Next]_vars
=============================================================================
