---------------------------- MODULE MCWebServer ----------------------------
(* Two sites and the configurations they are given.                        *)
EXTENDS WebServer

Config(name, tls, owner, good) ==
  [name |-> name, tls |-> tls, off |-> FALSE, owner |-> owner, good |-> good]

\* A local site with a certificate, the same turned off, a site of the
\* platform with one, and one of the platform that nginx refuses.
FourConfigs == {Config("n1", "acme", "local", TRUE),
                [Config("n1", "acme", "local", TRUE) EXCEPT !.off = TRUE],
                Config("n2", "acme", "platform", TRUE),
                Config("n1", "none", "platform", FALSE)}
=============================================================================
