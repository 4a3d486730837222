--------------------------- MODULE MCProvisioner ---------------------------
(* Small instances of Provisioner: two devices, and the capabilities that    *)
(* lead to each authentication method.                                       *)
EXTENDS Provisioner

CONSTANTS v1, v2

OneDev == {v1}
TwoDev == {v1, v2}

Report(pub, static, out, inp, valid) ==
  [pub |-> pub, static |-> static, out |-> out, inp |-> inp, valid |-> valid]

\* Every method, with one prompt at most, and each way of being refused.
OnePrompt ==
  {Report(FALSE, FALSE, 0, 0, "yes"), Report(FALSE, TRUE, 0, 0, "yes"),
   Report(FALSE, FALSE, 2, 1, "yes"), Report(FALSE, FALSE, 1, 1, "yes"),
   Report(TRUE, FALSE, 0, 0, "yes"), Report(FALSE, TRUE, 0, 0, "late"),
   Report(FALSE, TRUE, 0, 0, "no")}

\* A static OOB value only.
StaticOnly == {Report(FALSE, TRUE, 0, 0, "yes")}

\* An out of band public key and a static OOB value: two prompts.
TwoPrompts == {Report(TRUE, TRUE, 0, 0, "yes")}

Orderly == {}
Disorderly == {"promptfail", "typo"}
=============================================================================
