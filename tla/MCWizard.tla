-------------------------------- MODULE MCWizard --------------------------------
(* The wizard in its shell for TLC. *)
EXTENDS AppShell

\* Bound: the shell is used, and what localStorage holds is odd, while the user has
\* not got far in the wizard.  The other behaviours leave it as it was loaded.
HasJustBegun ==
    /\ ctx = InitialContext
    /\ visited \subseteq {1, 2}
ShellUntouched ==
    /\ store.theme = Unset /\ ~store.guide /\ ~store.tutorial
    /\ chosen.speed \notin Speeds
    /\ document = Loaded(store)
    /\ ~layout.showFps
AboutOne == HasJustBegun \/ ShellUntouched
=============================================================================
