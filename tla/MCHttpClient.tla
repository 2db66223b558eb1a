---------------------------- MODULE MCHttpClient ----------------------------
(* A unit of time is half a second, so that backOffFactor 0.5 is one.       *)
EXTENDS HttpClient
\* A header in the past, one that is obeyed and one beyond MaxDelay.
SomeRetryAfters == {-1, 3, 200}
=============================================================================
