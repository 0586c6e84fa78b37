-------------------------- MODULE MCGatewayClient --------------------------
(***************************************************************************)
(* A gateway for TLC: plain http redirects every path to https, which      *)
(* serves one path, adds the slash to another, sends a third to the login  *)
(* host and redirects the fourth, with and without slash, in a circle.  It *)
(* has moved one path alone to the login host, and sends another there by  *)
(* plain http, which that host redirects.                                  *)
(***************************************************************************)
EXTENDS GatewayClient, TLC

CONSTANTS http, https, login, login_http,
          served_, short, slash, private, form, circle, back, moved, stray

Gateway ==
    [u \in Url |->
        CASE u[1] = http -> <<https, u[2]>>
          [] u[1] = login_http -> <<login, u[2]>>
          [] u = <<https, short>> -> <<https, slash>>
          [] u = <<https, private>> -> <<login, form>>
          [] u = <<https, circle>> -> <<https, back>>
          [] u = <<https, back>> -> <<https, circle>>
          [] u = <<https, moved>> -> <<login, moved>>
          [] u = <<https, stray>> -> <<login_http, form>>
          [] OTHER -> u]
=============================================================================
