SPECIFICATION CliSpec
CONSTANT MaxOptions = 5
INVARIANT RunsWhatIsAsked
