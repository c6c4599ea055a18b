---------------------------- MODULE MCFlaskBinding ----------------------------
EXTENDS FlaskBinding

CONSTANTS th1, th2, app1, app2, app3
==============================================================================
