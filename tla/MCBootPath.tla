----------------------------- MODULE MCBootPath -----------------------------
\* Two configurations, one of which the label of a generation cannot be made for; two
\* generations; one call that fails or kill of the builder, one failure in each boot,
\* power failing twice, and two temporary names for each link.
EXTENDS BootPath

CONSTANTS s1, s2, dev

Plain == [container |-> FALSE, inSystemd |-> FALSE, proc |-> TRUE, script |-> TRUE, strict |-> FALSE,
          atomic |-> FALSE, current |-> FALSE, fhs |-> FALSE]
MCConfigs ==
  {[Plain EXCEPT !.proc = FALSE, !.fhs = TRUE, !.atomic = TRUE],
   [Plain EXCEPT !.container = TRUE, !.script = FALSE, !.strict = TRUE],
   [Plain EXCEPT !.inSystemd = TRUE, !.proc = FALSE, !.current = TRUE, !.script = FALSE]}
MCModules == {s1}
=============================================================================
