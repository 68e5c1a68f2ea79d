CONSTANTS
    http = http
    https = https
    prom = prom
    Listeners = {http, https, prom}
    Texts = {"nothing"}
SPECIFICATION Spec
INVARIANT EndsOkOnlyOnSignal
\* The program ends.
CHECK_DEADLOCK FALSE
