---------------------------- MODULE MCAgentApply ----------------------------
(* TLC instances of AgentApply.                                             *)
EXTENDS AgentApply

Site(nginx, main, hosts) ==
  [f \in AllFiles |-> CASE f = "nginx.conf" -> nginx [] f = "dnsmasq.conf" -> main [] OTHER -> hosts]

\* A site without DHCP settings; the full site; the site with another container
\* (nginx.conf and hosts differ); and two that a test refuses, of which the second
\* differs from the third in dnsmasq's main file.
Sites == {
  Site("a", None, None),
  Site("a", "a", "a"),
  Site("b", "a", "b"),
  Site("bad", "a", "b"),
  Site("b", "bad", "a") }
=============================================================================
