------------------------------ MODULE MCToolGate ------------------------------
EXTENDS ToolGate, TLC
CONSTANTS edit, ext, bad

\* An edit and two calls of an external tool that may run side by side; and a
\* malformed call ahead of an edit.
MCReplies == {<<edit, ext, ext>>, <<bad, edit>>}
\* Two files that allow the edit, one vetted by a human, and one that denies
\* it and asks about the external tool.
Allows == (edit :> "allow") @@ (ext :> "none")
Vets   == (edit :> "allow") @@ (ext :> "allow")
Guards == (edit :> "deny") @@ (ext :> "ask")
MCBooks == {Allows, Vets, Guards}
MCVetted == {Vets}
=============================================================================
